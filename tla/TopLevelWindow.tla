--------------------------- MODULE TopLevelWindow ---------------------------
(***************************************************************************)
(* ActiveWindow (internal/backend/linux_x11.go) and findTopLevelWindow     *)
(* (linux.go): which window a sample on X11 is of, while clients and the   *)
(* window manager move windows to other parents between two queries.  The  *)
(* X server keeps a tree.                                                  *)
(***************************************************************************)
EXTENDS Naturals, FiniteSets

CONSTANTS Windows, Root, NoWindow,
          MaxMoves   \* bound: windows given another parent

VARIABLES
    parent,  \* external: the window tree
    named,   \* external: the windows with a title
    focus,   \* external: the input focus, NoWindow for none or the pointer's
    hint,    \* external: _NET_ACTIVE_WINDOW of the root, NoWindow without one
    walk,    \* "none", "parent" or "title": what findTopLevelWindow asks next
    window,
    found,   \* what ActiveWindow returned
    moves, moved   \* history: moves in all, and during this walk

(* w and the windows above it in the tree p, without the root. *)
LineIn(p, w) ==
    LET up[n \in 0..Cardinality(Windows)] ==
            IF n = 0 THEN {w} ELSE up[n - 1] \cup {p[v] : v \in up[n - 1] \ {Root}}
    IN  up[Cardinality(Windows)] \ {Root}
Line(w) == LineIn(parent, w)

IsTree(p) == \E rank \in [Windows -> 1..Cardinality(Windows)] :
                 \A w \in Windows : p[w] = Root \/ rank[p[w]] < rank[w]

Init ==
    /\ parent \in {p \in [Windows -> Windows \cup {Root}] : IsTree(p)}
    /\ named \in SUBSET Windows
    /\ focus \in Windows \cup {Root, NoWindow} /\ hint \in Windows \cup {NoWindow}
    /\ walk = "none" /\ window = NoWindow /\ found = NoWindow
    /\ moves = 0 /\ moved = FALSE

(* ReparentWindow: not below itself. *)
Move ==
    /\ moves < MaxMoves /\ moves' = moves + 1
    /\ \E w \in Windows, p \in Windows \cup {Root} :
           /\ p # parent[w] /\ (p # Root => w \notin Line(p))
           /\ parent' = [parent EXCEPT ![w] = p]
    /\ moved' = TRUE
    /\ UNCHANGED <<named, focus, hint, walk, window, found>>

(* The window manager says which window is active; or the walk starts at   *)
(* the focus, or fails without one.                                        *)
Active ==
    /\ walk = "none"
    /\ IF hint # NoWindow \/ focus = NoWindow
       THEN found' = hint /\ UNCHANGED <<walk, window>>
       ELSE walk' = "parent" /\ window' = focus /\ found' = NoWindow
    /\ moved' = FALSE
    /\ UNCHANGED <<parent, named, focus, hint, moves>>

(* Mutant: the focus itself may be the window with a title. *)
ParentOfUntitled ==
    /\ walk = "parent"
    /\ IF window = Root \/ parent[window] = Root \/ window \in named
       THEN walk' = "none" /\ found' = window /\ UNCHANGED window
       ELSE walk' = "title" /\ window' = parent[window] /\ UNCHANGED found
    /\ UNCHANGED <<parent, named, focus, hint, moves, moved>>

(* parentOf *)
Parent ==
    /\ walk = "parent"
    /\ IF window = Root \/ parent[window] = Root
       THEN walk' = "none" /\ found' = window /\ UNCHANGED window
       ELSE walk' = "title" /\ window' = parent[window] /\ UNCHANGED found
    /\ UNCHANGED <<parent, named, focus, hint, moves, moved>>

(* titleOf *)
Title ==
    /\ walk = "title"
    /\ IF window \in named THEN walk' = "none" /\ found' = window
                           ELSE walk' = "parent" /\ UNCHANGED found
    /\ UNCHANGED <<parent, named, focus, hint, window, moves, moved>>

(* A window is gone: the X server answers with an error. *)
Gone ==
    /\ walk # "none"
    /\ walk' = "none" /\ found' = NoWindow
    /\ UNCHANGED <<parent, named, focus, hint, window, moves, moved>>

Forget ==
    /\ found' = NoWindow /\ window' = NoWindow /\ moved' = FALSE
    /\ UNCHANGED <<parent, named, focus, hint, walk, moves>>

Step == Parent \/ Title \/ Gone
=============================================================================
