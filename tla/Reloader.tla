------------------------------- MODULE Reloader -------------------------------
(***************************************************************************)
(* What internal/collect.Manager promises to those who call Reload,        *)
(* whatever the order of the calls: the polls that go on are those of one  *)
(* configuration, a poll ends only because of a Reload or of the shutdown, *)
(* and a configuration takes over when the one before it has ended.        *)
(*                                                                         *)
(* A poll is a pair <<source, upstream>>, a configuration a set of polls.  *)
(***************************************************************************)

CONSTANTS
    Callers,    \* goroutines that call Reload
    Configs,    \* the configurations they may pass
    NoRequest   \* the caller has no Reload under way

VARIABLES
    request,    \* caller -> the configuration of its Reload
    polls,      \* the polls that go on
    down        \* the process shuts down

vars == <<request, polls, down>>

Init ==
    /\ request = [c \in Callers |-> NoRequest]
    /\ polls = {}
    /\ down = FALSE

Request(c, config) ==
    /\ request[c] = NoRequest
    /\ request' = [request EXCEPT ![c] = config]
    /\ UNCHANGED <<polls, down>>

Quit(poll) ==
    /\ down \/ \E c \in Callers : request[c] # NoRequest
    /\ polls' = polls \ {poll}
    /\ UNCHANGED <<request, down>>

Finish(c) ==
    /\ request[c] # NoRequest
    /\ polls = {}
    /\ request' = [request EXCEPT ![c] = NoRequest]
    /\ UNCHANGED down

Apply(c) == Finish(c) /\ polls' = request[c]

(* Nothing is started once the process shuts down. *)
Skip(c) == Finish(c) /\ down /\ UNCHANGED polls

Shutdown ==
    /\ down' = TRUE
    /\ UNCHANGED <<request, polls>>

Next ==
    \/ \E c \in Callers, config \in Configs : Request(c, config)
    \/ \E poll \in polls : Quit(poll)
    \/ \E c \in Callers : Apply(c) \/ Skip(c)
    \/ Shutdown

Spec == Init /\ [][Next]_vars
=============================================================================
