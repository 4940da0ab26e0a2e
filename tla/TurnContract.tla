---------------------------- MODULE TurnContract -----------------------------
(***************************************************************************)
(* What a conversation promises, without saying how: it has one unfinished *)
(* turn at a time, and its graph one driver at a time; a turn that stops   *)
(* with a question may raise one request about it, a request is decided    *)
(* once, and the graph is entered again only by whoever decided the very   *)
(* question it stopped with, which is then answered.  The promise is for   *)
(* an environment in which processes die and statements fail, and nothing  *)
(* worse.                                                                  *)
(***************************************************************************)
CONSTANTS Runs, Calls, Threads, ThreadOf

VARIABLES
    calm,      \* whether the environment is no worse than that
    open,      \* the unfinished turn of each thread, as a set of at most one
    inside,    \* who drives the graph of each thread, as a set of at most one
    question,  \* whose question the graph stopped with, as a set of at most one
    asked,     \* the activities whose question has become a request
    decided    \* who decided each request, as a set of at most one

vars == <<calm, open, inside, question, asked, decided>>

Init ==
    /\ calm \in BOOLEAN
    /\ open = [t \in Threads |-> {}] /\ inside = [t \in Threads |-> {}]
    /\ question = [t \in Threads |-> {}]
    /\ asked = {} /\ decided = [a \in Runs \cup Calls |-> {}]

\* A turn is begun, or parked again by somebody late.
Open(r) ==
    /\ open[ThreadOf[r]] = {} /\ inside[ThreadOf[r]] = {}
    /\ open' = [open EXCEPT ![ThreadOf[r]] = {r}]
    /\ UNCHANGED <<inside, question, asked, decided>>

\* A turn is over; nobody is in its graph.
Close(t) ==
    /\ open[t] # {} /\ inside[t] = {} /\ open' = [open EXCEPT ![t] = {}]
    /\ UNCHANGED <<inside, question, asked, decided>>

\* The graph is entered by the turn itself, or by who decided its question.
Enter(x, t) ==
    /\ inside[t] = {} /\ open[t] # {}
    /\ open[t] = {x} \/ \E a \in asked : question[t] = {a} /\ decided[a] = {x}
    /\ inside' = [inside EXCEPT ![t] = {x}] /\ question' = [question EXCEPT ![t] = {}]
    /\ UNCHANGED <<open, asked, decided>>

\* The graph ends, stops with a question, raises, or dies with its driver.
Leave(x, t) ==
    /\ inside[t] = {x} /\ inside' = [inside EXCEPT ![t] = {}]
    /\ UNCHANGED question \/ question' = [question EXCEPT ![t] = {x}]
    /\ UNCHANGED <<open, asked, decided>>

Raise(x, t) ==
    /\ question[t] = {x} /\ x \notin asked /\ asked' = asked \cup {x}
    /\ UNCHANGED <<open, inside, question, decided>>

Decide(c, a) ==
    /\ a \in asked /\ decided[a] = {} /\ decided' = [decided EXCEPT ![a] = {c}]
    /\ UNCHANGED <<open, inside, question, asked>>

Next ==
    \/ \E r \in Runs : Open(r)
    \/ \E t \in Threads : Close(t)
    \/ \E x \in Runs \cup Calls, t \in Threads : Enter(x, t) \/ Leave(x, t) \/ Raise(x, t)
    \/ \E c \in Calls, a \in Runs \cup Calls : Decide(c, a)

Spec == Init /\ [][calm' = calm /\ (calm => Next)]_vars
=============================================================================
