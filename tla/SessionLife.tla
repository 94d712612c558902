----------------------------- MODULE SessionLife -----------------------------
(***************************************************************************)
(* What authentication promises of a session, the chain of refresh tokens  *)
(* that starts with one sign-in: it is opened once, however often its      *)
(* token is exchanged it is one session, and once it has ended it stays    *)
(* ended.                                                                  *)
(***************************************************************************)
CONSTANT Sessions

VARIABLE life

\* Some sessions were opened before.
LifeInit == life \in [Sessions -> {"new", "open"}]

Open(s) == life[s] = "new" /\ life' = [life EXCEPT ![s] = "open"]

EndAll(S) ==
    /\ \A s \in S : life[s] = "open"
    /\ life' = [s \in Sessions |-> IF s \in S THEN "ended" ELSE life[s]]

LifeNext == (\E s \in Sessions : Open(s)) \/ (\E S \in SUBSET Sessions : EndAll(S))

LifeSpec == LifeInit /\ [][LifeNext]_life
==============================================================================
