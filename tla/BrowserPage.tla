---------------------------- MODULE BrowserPage ----------------------------
(***************************************************************************)
(* internal/tray/browser_page.go serveBrowserPage: the server of one page  *)
(* on Linux.  A visitor is a request on a connection of its own, for the   *)
(* page's path.  net/http is external: Shutdown closes the listener, waits *)
(* for the requests under way, and gives up after five seconds; a handler  *)
(* that is still running then goes on.                                     *)
(***************************************************************************)
CONSTANTS Visitors

VARIABLES
    server,   \* "none", "listening", "draining", "closed"
    served,   \* the channel served is closed
    expired,  \* the timer has fired
    request   \* of each visitor: "none", its method, or what became of it

Methods == {"GET", "HEAD", "POST"}

Init ==
    /\ server = "none" /\ served = FALSE /\ expired = FALSE
    /\ request = [v \in Visitors |-> "none"]

Serve ==
    /\ server = "none" /\ server' = "listening"
    /\ UNCHANGED <<served, expired, request>>

(* A browser, or a user who reloads, connects. *)
Visit(v) ==
    /\ server # "none" /\ request[v] = "none"
    /\ \E method \in Methods :
           request' = [request EXCEPT ![v] = IF server = "listening" THEN method
                                                                     ELSE "refused"]
    /\ UNCHANGED <<server, served, expired>>

(* Mutant: a HEAD uses the page up too. *)
UsesAny(method) == method \in {"GET", "HEAD"}

Uses(method) == method = "GET"

(* The handler (37-53).  The error of a Write to a visitor who has left is *)
(* discarded: the page is used up all the same.                            *)
Answer(v) ==
    /\ request[v] \in Methods
    /\ request' \in {[request EXCEPT ![v] = a] :
                        a \in CASE request[v] = "GET"  -> {"page", "lost"}
                                [] request[v] = "HEAD" -> {"headers"}
                                [] OTHER               -> {"not allowed"}}
    /\ served' = (served \/ Uses(request[v]))
    /\ UNCHANGED <<server, expired>>

Expire ==
    /\ server = "listening" /\ ~expired /\ expired' = TRUE
    /\ UNCHANGED <<server, served, request>>

(* 61-67 *)
Shutdown ==
    /\ served \/ expired
    /\ server = "listening" /\ server' = "draining"
    /\ UNCHANGED <<served, expired, request>>

ShutdownEnds ==
    /\ server = "draining" /\ server' = "closed"
    /\ UNCHANGED <<served, expired, request>>

Next ==
    \/ \E v \in Visitors : Visit(v) \/ Answer(v)
    \/ Expire \/ Shutdown \/ ShutdownEnds
=============================================================================
