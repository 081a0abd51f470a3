-------------------------------- MODULE Ports --------------------------------
(***************************************************************************)
(* _ensure_published_port of the agent: the host port a workload is        *)
(* published on, probed cyclically through the configured range from a     *)
(* place that depends on the service id alone.                             *)
(***************************************************************************)
EXTENDS Integers

CONSTANT NoPort  \* no port is asked for, known, or left

ASSUME PortsAssumption == NoPort \notin Nat

\* published_port_base .. published_port_max; empty when the settings are the
\* wrong way round.
PortRange(base, max) == base..max
Span(base, max) == IF max >= base THEN (max - base) + 1 ELSE 0

\* Mutant: the probe runs on past the end of the range.
Probe_Onwards(hash, base, max, offset) == base + (hash % Span(base, max)) + offset

\* The port tried at an offset from the start.  hash is the checksum of the
\* service id.
Probe(hash, base, max, offset) ==
    base + (((hash % Span(base, max)) + offset) % Span(base, max))

FreeOffsets(hash, used, base, max) ==
    {i \in 0..(Span(base, max) - 1) : Probe(hash, base, max, i) \notin used}

FirstOffset(offsets) == CHOOSE i \in offsets : \A j \in offsets : i <= j

\* NoPort stands for the ValueError of an exhausted, or empty, range.
NextPort(hash, used, base, max) ==
    LET free == FreeOffsets(hash, used, base, max)
    IN  IF free = {} THEN NoPort ELSE Probe(hash, base, max, FirstOffset(free))

=============================================================================
