------------------------------ MODULE MCInbound ------------------------------
(***************************************************************************)
(* Two worker processes and the messages of one employee; contexts in      *)
(* which each kind of reply can follow.                                    *)
(***************************************************************************)
EXTENDS Inbound

CONSTANTS w1, w2, yes, no

MCWorkers == {w1, w2}
MCSids == {yes, no}
MCFaults == {"broker", "channel"}

Quiet == [offer |-> "none", lost |-> FALSE, covering |-> FALSE, live |-> "none",
          recent |-> "none", shifts |-> 1, named |-> FALSE]

\* Nothing pending, or shifts to choose from; an offer that is live, stale or lost; each
\* status of a case of their own; a recent one that ended; a shift they cover.
MCContexts ==
  {Quiet, [Quiet EXCEPT !.shifts = 0], [Quiet EXCEPT !.shifts = 2],
   [Quiet EXCEPT !.shifts = 2, !.named = TRUE],
   [Quiet EXCEPT !.lost = TRUE], [Quiet EXCEPT !.covering = TRUE]}
  \cup {[Quiet EXCEPT !.offer = o] : o \in {"live", "stale"}}
  \cup {[Quiet EXCEPT !.live = status] : status \in LiveStatus}
  \cup {[Quiet EXCEPT !.recent = status] : status \in TerminalStatus}
MCTexts == SUBSET Pattern
=============================================================================
