----------------------- MODULE SocketServerRefinement -----------------------
(***************************************************************************)
(* The socket server implements Sandboxes: the sandbox of client i is the  *)
(* Phantom instance i.  The module also states what the sources promise    *)
(* and the server does not keep.                                           *)
(***************************************************************************)
EXTENDS SocketServer

\* The state of the sandbox of client i.
Life(i) == IF i \in live THEN "live"
           ELSE IF i <= created THEN "gone" ELSE "none"

Abstract == INSTANCE Sandboxes WITH
                life <- [i \in Sessions |-> Life(i)],
                ran  <- evaluated

\* Seen from the clients, the two threads, the event queue and the unlocked
\* map implement one private sandbox per client (createPhantomJSInstance,
\* doWork, deletePhantomJSInstance), crashes and dropped scripts aside.
ImplementsSandboxes == Abstract!Spec

\* socketserver.cpp, "Protocol": the code that follows the header is code
\* "that needs to be executed".  Every script a session has read is executed,
\* unless the process runs into undefined behaviour or the script of the
\* session calls phantom.exit().
RequestsExecuted ==
    \A s \in Sessions, k \in 1..MaxRequests :
        (requested[s] >= k) ~>
            \/ crashed
            \/ fault # {}
            \/ s \in exited
            \/ [by |-> s, req |-> k] \in
                   UNION {{evaluated[i][n] : n \in 1..Len(evaluated[i])}
                              : i \in Sessions}

\* socketclient.cpp, "Listen for Phantom exit(ing)": once its script has called
\* phantom.exit(), a session serves no further request.
ExitEndsSession ==
    [][requested' # requested => phantom \notin exited]_vars
=============================================================================
