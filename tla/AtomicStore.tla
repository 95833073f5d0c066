---------------------------- MODULE AtomicStore ----------------------------
(***************************************************************************)
(* What the hosts of the two reducers promise their clients: the control   *)
(* state behaves as if every command were applied, once and in one step,   *)
(* to the state left by the one before it.  A state is represented by the  *)
(* commands that led to it.                                                *)
(***************************************************************************)
EXTENDS Sequences, Naturals

CONSTANT Commands

VARIABLES
    applied,        \* commands in the order they took effect
    acknowledged    \* commands whose client was told so

IsApplied(c) == \E i \in 1 .. Len(applied) : applied[i] = c

AInit == applied = << >> /\ acknowledged = {}

Apply(c) ==
    /\ ~IsApplied(c)
    /\ applied' = Append(applied, c)
    /\ UNCHANGED acknowledged

Acknowledge(c) ==
    /\ IsApplied(c)
    /\ acknowledged' = acknowledged \cup {c}
    /\ UNCHANGED applied

ANext == \E c \in Commands : Apply(c) \/ Acknowledge(c)

ASpec == AInit /\ [][ANext]_<<applied, acknowledged>>
=============================================================================
