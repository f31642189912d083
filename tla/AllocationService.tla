-------------------------- MODULE AllocationService --------------------------
(***************************************************************************)
(* What the allocation API promises to its clients, without queue, cache,  *)
(* resource versions or retries: a server is given to a session in one     *)
(* step, and only while it is free.  Allocation implements this.           *)
(*                                                                         *)
(* An answer tells of a booking that has happened, perhaps long ago: the   *)
(* server may be over by then.  A booking need not be answered.  The agent *)
(* of a Node may overwrite what a server is, and from then on a server may *)
(* be booked again.                                                        *)
(***************************************************************************)

CONSTANTS GameServers, Sessions,
          Clients,      \* requests that are served at a time
          NoAnswer      \* no server: an error, or no answer yet

VARIABLES life,         \* what each server is
          served,       \* the sessions each server was ever booked for
          answer,       \* the last answer to each client
          overwritten   \* whether an agent has overwritten a server

vars == <<life, served, answer, overwritten>>

Lives == {"starting", "free", "booked", "over"}

Become(g, l) == life' = [life EXCEPT ![g] = l]

Init ==
    /\ life = [g \in GameServers |-> "absent"]
    /\ served = [g \in GameServers |-> {}]
    /\ answer = [c \in Clients |-> NoAnswer]
    /\ overwritten = FALSE

Create(g) ==
    /\ life[g] = "absent"
    /\ Become(g, "starting")
    /\ UNCHANGED <<served, answer, overwritten>>

BecomeFree(g) ==
    /\ life[g] = "starting"
    /\ Become(g, "free")
    /\ UNCHANGED <<served, answer, overwritten>>

(* The booking, with the answer or without it.                             *)
Book(g, s) ==
    /\ life[g] = "free"
    /\ Become(g, "booked")
    /\ served' = [served EXCEPT ![g] = @ \cup {s}]
    /\ \/ UNCHANGED answer
       \/ \E c \in Clients :
             answer' = [answer EXCEPT ![c] = [session |-> s, gs |-> g]]
    /\ UNCHANGED overwritten

(* The session has a server already, or has had it.                        *)
AnswerAgain(c, g, s) ==
    /\ s \in served[g]
    /\ answer' = [answer EXCEPT ![c] = [session |-> s, gs |-> g]]
    /\ UNCHANGED <<life, served, overwritten>>

(* An error, a new request, or an operator that goes down.                 *)
Forget(C) ==
    /\ answer' = [c \in Clients |-> IF c \in C THEN NoAnswer ELSE answer[c]]
    /\ UNCHANGED <<life, served, overwritten>>

End(g) ==
    /\ life[g] \in Lives \ {"over"}
    /\ Become(g, "over")
    /\ UNCHANGED <<served, answer, overwritten>>

(* Scaling down takes no server that is booked.                            *)
ScaleDown(g) ==
    /\ life[g] \in {"starting", "free"}
    /\ Become(g, "released")
    /\ UNCHANGED <<served, answer, overwritten>>

(* A server that has finished, crashed or fallen ill is deleted.           *)
Discard(g) ==
    /\ life[g] \in Lives
    /\ Become(g, "discarded")
    /\ UNCHANGED <<served, answer, overwritten>>

Overwrite(g) ==
    /\ life[g] \in Lives
    /\ \E l \in Lives \ {"over"} : Become(g, l)
    /\ overwritten' = TRUE
    /\ UNCHANGED <<served, answer>>

Next ==
    \/ \E C \in SUBSET Clients : Forget(C)
    \/ \E g \in GameServers :
          \/ Create(g) \/ BecomeFree(g) \/ End(g)
          \/ ScaleDown(g) \/ Discard(g) \/ Overwrite(g)
          \/ \E s \in Sessions : \/ Book(g, s)
                                 \/ \E c \in Clients : AnswerAgain(c, g, s)

Spec == Init /\ [][Next]_vars

-----------------------------------------------------------------------------
(* What clients can rely on.                                               *)

(* A server that nobody overwrites serves one session in its whole life,   *)
(* and one that is free has served none.                                   *)
ServesOne ==
    ~overwritten =>
        \A g \in GameServers :
            /\ life[g] \in {"absent", "starting", "free"} => served[g] = {}
            /\ \A s, t \in served[g] : s = t

(* Every answer tells of a booking.                                        *)
AnswersServed ==
    \A c \in Clients :
        answer[c] # NoAnswer => answer[c].session \in served[answer[c].gs]

=============================================================================
