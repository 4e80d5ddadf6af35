----------------------------- MODULE Lifecycle -----------------------------
(***************************************************************************)
(* What a Decoder promises about the platform state it owns, without its   *)
(* lock, its WaitGroup or the calls in between: New acquires the platform, *)
(* work on a decoder starts only while it is open, Close first stops new   *)
(* work, then waits for the work under way, and only then gives the        *)
(* platform back, once.  Module Decoder implements this specification.     *)
(***************************************************************************)
EXTENDS Naturals

CONSTANTS
    Decoders,   \* Decoder values
    Streams     \* Stream values, each one unit of work on a decoder

VARIABLES
    phase,      \* phase[d]: how far decoder d is in its life
    users,      \* users[d]: streams using the platform state of d
    platform    \* startups of the platform not yet undone by a shutdown

vars == <<phase, users, platform>>

Phase == {"absent", "open", "closing", "closed"}

TypeOK ==
    /\ phase \in [Decoders -> Phase]
    /\ users \in [Decoders -> SUBSET Streams]
    /\ platform \in Nat

Init ==
    /\ phase = [d \in Decoders |-> "absent"]
    /\ users = [d \in Decoders |-> {}]
    /\ platform = 0

Create(d) ==
    /\ phase[d] = "absent"
    /\ phase' = [phase EXCEPT ![d] = "open"]
    /\ platform' = platform + 1
    /\ UNCHANGED users

\* Work starts only on an open decoder, and each stream is one piece of work.
Acquire(d, s) ==
    /\ phase[d] = "open"
    /\ \A e \in Decoders : s \notin users[e]
    /\ users' = [users EXCEPT ![d] = @ \cup {s}]
    /\ UNCHANGED <<phase, platform>>

Release(d, s) ==
    /\ s \in users[d]
    /\ users' = [users EXCEPT ![d] = @ \ {s}]
    /\ UNCHANGED <<phase, platform>>

BeginClose(d) ==
    /\ phase[d] = "open"
    /\ phase' = [phase EXCEPT ![d] = "closing"]
    /\ UNCHANGED <<users, platform>>

\* The platform is given back once, when nothing uses it on this decoder.
FinishClose(d) ==
    /\ phase[d] = "closing"
    /\ users[d] = {}
    /\ phase' = [phase EXCEPT ![d] = "closed"]
    /\ platform' = platform - 1
    /\ UNCHANGED users

Next ==
    \E d \in Decoders :
        \/ Create(d)
        \/ BeginClose(d)
        \/ FinishClose(d)
        \/ \E s \in Streams : Acquire(d, s) \/ Release(d, s)

Spec == Init /\ [][Next]_vars
=============================================================================
