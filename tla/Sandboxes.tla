------------------------------ MODULE Sandboxes ------------------------------
(***************************************************************************)
(* What the socket server promises to its clients: the scripts of client i *)
(* run in a sandbox of its own, a fresh Phantom instance with its page, in *)
(* the order the client sent them, each at most once and without a gap;    *)
(* sandboxes come into being in the order of their clients, one at a time, *)
(* and none returns.  Nothing is said of the threads, the queue of events  *)
(* and the map between them.                                               *)
(***************************************************************************)
EXTENDS Naturals, Sequences

CONSTANT MaxSessions   \* clients served in a behaviour

Clients == 1..MaxSessions

VARIABLES
    life,   \* per client, its sandbox: "none", "live" or "gone"
    ran     \* per client, the scripts its sandbox has evaluated

Init ==
    /\ life = [i \in Clients |-> "none"]
    /\ ran = [i \in Clients |-> <<>>]

Create(i) ==
    /\ \A j \in Clients : life[j] = IF j < i THEN "gone" ELSE "none"
    /\ life' = [life EXCEPT ![i] = "live"]
    /\ UNCHANGED ran

Run(i) ==
    /\ life[i] = "live"
    /\ ran' = [ran EXCEPT ![i] = Append(@, [by |-> i, req |-> Len(@) + 1])]
    /\ UNCHANGED life

Destroy(i) ==
    /\ life[i] = "live"
    /\ life' = [life EXCEPT ![i] = "gone"]
    /\ UNCHANGED ran

Next == \E i \in Clients : Create(i) \/ Run(i) \/ Destroy(i)

Spec == Init /\ [][Next]_<<life, ran>>
=============================================================================
