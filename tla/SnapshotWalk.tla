---------------------------- MODULE SnapshotWalk ----------------------------
(***************************************************************************)
(* One scan of the content snapshot worker: content_snapshot/worker/scan.rs *)
(* finds the accessibility window of the window it was asked for, and       *)
(* content_snapshot/walker.rs walks it within a budget of nodes, bytes and  *)
(* time, noting every hole that could hide an input field.  A screenshot of *)
(* the window is recognised only when the walk left no such hole, because   *)
(* what is masked in it are the input fields the walk found.                *)
(*                                                                          *)
(* The application answers as it likes: what a node is, whether a read of   *)
(* it fails and how many children it has are chosen when they are read.     *)
(* A node is named by its path from the window, so that preorder is the     *)
(* lexicographic order of the names.                                        *)
(***************************************************************************)
EXTENDS Integers, Sequences, FiniteSets

CONSTANTS Batch,        \* children read by one call
          NodeLimit,    \* nodes a walk may visit
          TextLimit,    \* fragments that fit in the text of a snapshot
          MaxTree       \* bound: nodes the application has below the window

ASSUME WalkAssumption ==
    /\ Batch \in Nat \ {0}
    /\ NodeLimit \in Nat \ {0}
    /\ TextLimit \in Nat
    /\ MaxTree \in Nat

VARIABLES
    phase,          \* where the scan is
    windows,        \* the application's windows, as they really are
    candidates,     \* windows still to be compared with the expected one
    listed,         \* AXWindows has been read
    onScreen,       \* the window server's list, once it was asked for
    chosen,         \* the accessibility window that is walked
    work,           \* the walker's stack, its top first
    visited,        \* nodes visited
    kids,           \* children a node said it has, where it was asked
    told,           \* nodes the application has told of, the window apart
    owing,          \* nodes whose children belong to the walk
    inputs,         \* nodes that may be input fields shown in the window
    masks,          \* nodes recorded as regions to mask
    blanks,         \* nodes recorded as blank slots
    text,           \* nodes whose text was taken, in order
    unread,         \* nodes one of whose reads failed
    degradedNodes,  \* the count of such nodes the scan reports
    gaps,           \* reasons why the masks may be incomplete
    cutoff          \* the budget that ended the walk

choice == <<windows, candidates, listed, onScreen, chosen>>
found  == <<inputs, masks, blanks, text>>
walkVars == <<phase, choice, work, visited, kids, told, owing, found, unread,
              degradedNodes, gaps, cutoff>>

Expected == 1
Unasked  == <<0>>
NoFrame  == 0
Root     == <<>>

\* What a children count can come back as, besides a number.
Failed == -1
Late   == -2
Uncounted == -3

(***************************************************************************)
(* Finding the window                                                       *)
(***************************************************************************)
\* The window the server lists first with this frame.
WindowForFrame(list, frame) ==
    LET same == {i \in DOMAIN list : windows[list[i]].frame = frame}
    IN  IF same = {} THEN 0
        ELSE list[CHOOSE i \in same : \A j \in same : i <= j]

\* The lists the window server can give of these windows.
ScreenLists == {<<>>} \cup {<<w>> : w \in DOMAIN windows} \cup {<<1, 2>>, <<2, 1>>}

OnScreenNow == IF onScreen = Unasked THEN ScreenLists ELSE {onScreen}

EndScan(how) == phase' = how /\ UNCHANGED <<work, visited, kids, told, owing, found,
                                            unread, degradedNodes>>

\* initial_time_cutoff: the budget of time is used up before the walk; the
\* scan is an empty text whose masks are not to be trusted.
TimeIsUp ==
    /\ phase \in {"focused", "resolve", "title"}
    /\ cutoff' = "time"
    /\ gaps' = {"cutoff"}
    /\ EndScan("scanned")
    /\ UNCHANGED choice

\* An accessibility call of the search fails, and with it the scan.
SearchFails ==
    /\ phase \in {"focused", "resolve", "title"}
    /\ EndScan("failed")
    /\ UNCHANGED <<choice, gaps, cutoff>>

ReadFocusedWindow ==
    /\ phase = "focused"
    /\ \E w \in {<<>>, <<1>>, <<2>>} : candidates' = w
    /\ phase' = "resolve"
    /\ UNCHANGED <<windows, listed, onScreen, chosen, work, visited, kids, told, owing,
                   found, unread, degradedNodes, gaps, cutoff>>

ReadWindows ==
    /\ phase = "resolve" /\ candidates = <<>> /\ ~listed
    /\ candidates' \in ScreenLists
    /\ listed' = TRUE
    /\ UNCHANGED <<phase, windows, onScreen, chosen, work, visited, kids, told, owing,
                   found, unread, degradedNodes, gaps, cutoff>>

\* A window with another number, or without a frame, is not the one.
Misses(w) ==
    \/ windows[w].numbered /\ w # Expected
    \/ windows[w].frame = NoFrame

\* The window's own number decides; a window that has none is looked up by its
\* frame in the window server's list, which is asked for once.
ResolveWindow ==
    /\ phase = "resolve" /\ candidates # <<>>
    /\ LET w == Head(candidates)
           named == windows[w].numbered
       IN  \E list \in IF Misses(w) \/ named THEN {onScreen} ELSE OnScreenNow :
             /\ onScreen' = list
             /\ IF Misses(w) \/ (~named /\ WindowForFrame(list, windows[w].frame) # Expected)
                THEN /\ candidates' = Tail(candidates)
                     /\ UNCHANGED <<phase, chosen>>
                ELSE /\ chosen' = w
                     /\ phase' = "title"
                     /\ UNCHANGED candidates
    /\ UNCHANGED <<windows, listed, work, visited, kids, told, owing, found, unread,
                   degradedNodes, gaps, cutoff>>

NoWindowMatched ==
    /\ phase = "resolve" /\ candidates = <<>> /\ listed
    /\ EndScan("unresolved")
    /\ UNCHANGED <<choice, gaps, cutoff>>

\* The title is read, and the ruling asked before anything below the window is.
\* What the search saw is forgotten here.
ReadTitle ==
    /\ phase = "title"
    /\ \E allowed \in BOOLEAN :
         IF allowed
         THEN /\ phase' = "walk"
              /\ work' = <<[kind |-> "visit", node |-> Root]>>
         ELSE phase' = "denied" /\ UNCHANGED work
    /\ windows' = [w \in DOMAIN windows |-> [numbered |-> FALSE, frame |-> NoFrame]]
    /\ candidates' = <<>> /\ listed' = FALSE /\ onScreen' = Unasked /\ chosen' = 0
    /\ UNCHANGED <<visited, kids, told, owing, found, unread, degradedNodes, gaps, cutoff>>

(***************************************************************************)
(* Walking it                                                               *)
(***************************************************************************)
Classes == {"secure", "singleLine", "multiLine", "readable", "image", "container",
            "row", "unknown", "menu"}

Descends(class) == class \in {"readable", "image", "container", "row", "unknown"}

IsInput(class) == class \in {"secure", "singleLine"}

\* What reading the contents of a node can give.
TextAnswers(class) ==
    IF class \in {"secure", "menu"} THEN {"none"} ELSE {"none", "text", "failed"}

MayBeBlankSlot(class, answer) ==
    answer = "none" /\ class \in {"readable", "multiLine", "row"}

Walking == phase = "walk" /\ cutoff = "none" /\ work # <<>>
Node == Head(work).node
Visiting == Walking /\ Head(work).kind = "visit" /\ Cardinality(visited) < NodeLimit
InTime == cutoff' = "none"
OutOfTime == cutoff' \in {"time", "stopped"}

Counts == {Failed, Late} \cup 0..(MaxTree - told)

Note(n, count) ==
    /\ kids' = IF count >= 0 THEN [m \in DOMAIN kids \cup {n} |->
                                     IF m = n THEN count ELSE kids[m]]
               ELSE kids
    /\ told' = IF count >= 0 THEN told + count ELSE told

\* The rest of the stack, with the children of n on it when it has any.
Pushed(n, count, degraded) ==
    IF count > 0
    THEN <<[kind |-> "children", node |-> n, index |-> 0, count |-> count,
            degraded |-> degraded]>> \o Tail(work)
    ELSE Tail(work)

\* A read that is refused, or comes back as something else than asked for, makes
\* the node an unread one; a node is counted once.
CountUnread(n, failed) ==
    /\ unread' = IF failed THEN unread \cup {n} ELSE unread
    /\ degradedNodes' = IF failed THEN degradedNodes + 1 ELSE degradedNodes

\* descend_if_container: a count that fails leaves a hole, and a node is counted
\* as degraded at most once.
Descend(n, class, degraded, count) ==
    /\ count = Uncounted <=> ~Descends(class)
    /\ Note(n, count)
    /\ work' = Pushed(n, count, degraded)
    /\ IF count = Late THEN OutOfTime ELSE InTime
    /\ CountUnread(n, degraded \/ count = Failed)
    /\ owing' = IF Descends(class) THEN owing \cup {n} ELSE owing

\* The limit of nodes is reached with a node still to visit.
NodesAreUp ==
    /\ Walking /\ Head(work).kind = "visit" /\ Cardinality(visited) >= NodeLimit
    /\ cutoff' = "nodes"
    /\ work' = Tail(work)
    /\ UNCHANGED <<phase, choice, visited, kids, told, owing, found, unread, degradedNodes, gaps>>

\* The role of a node cannot be read: it may be an input, and its children are
\* walked all the same.
VisitUnreadable ==
    /\ Visiting
    /\ visited' = visited \cup {Node}
    /\ CountUnread(Node, TRUE)
    /\ gaps' = gaps \cup {"roleUnreadable"}
    /\ inputs' = inputs \cup {Node}
    /\ owing' = owing \cup {Node}
    /\ \E count \in Counts :
         /\ Note(Node, count)
         /\ work' = Pushed(Node, count, TRUE)
         /\ IF count = Late THEN OutOfTime ELSE InTime
    /\ UNCHANGED <<phase, choice, masks, blanks, text>>

\* Time is up once the role was read.
VisitTooLate ==
    /\ Visiting
    /\ visited' = visited \cup {Node}
    /\ work' = Tail(work)
    /\ OutOfTime
    /\ \E input \in BOOLEAN : inputs' = IF input THEN inputs \cup {Node} ELSE inputs
    /\ UNCHANGED <<phase, choice, kids, told, owing, masks, blanks, text, unread,
                   degradedNodes, gaps>>

\* A node without a frame gives no text and no region; its children are walked.
VisitFrameless ==
    /\ Visiting
    /\ visited' = visited \cup {Node}
    /\ \E class \in Classes : \E count \in Counts \cup {Uncounted} :
         /\ Descend(Node, class, FALSE, count)
         /\ gaps' = gaps \cup (IF IsInput(class) THEN {"framelessInput"} ELSE {})
                         \cup (IF count = Failed THEN {"childrenUnreadable"} ELSE {})
         /\ inputs' = IF IsInput(class) THEN inputs \cup {Node} ELSE inputs
    /\ UNCHANGED <<phase, choice, masks, blanks, text>>

\* A node that lies outside the window ends its branch.
VisitOffWindow ==
    /\ Visiting
    /\ visited' = visited \cup {Node}
    /\ work' = Tail(work)
    /\ UNCHANGED <<phase, choice, kids, told, owing, found, unread, degradedNodes, gaps, cutoff>>

\* A node in the window whose text no longer fits: it is recorded, and the walk
\* is over.
VisitOverflowing ==
    /\ Visiting /\ Len(text) >= TextLimit
    /\ visited' = visited \cup {Node}
    /\ \E class \in Classes :
         /\ "text" \in TextAnswers(class)
         /\ inputs' = IF IsInput(class) THEN inputs \cup {Node} ELSE inputs
         /\ masks' = IF IsInput(class) THEN masks \cup {Node} ELSE masks
    /\ cutoff' = "bytes"
    /\ work' = Tail(work)
    /\ UNCHANGED <<phase, choice, kids, told, owing, blanks, text, unread, degradedNodes, gaps>>

\* A node in the window: its text is taken, its children are asked for when its
\* class has them or when it looks blank, and what it is is recorded.
VisitShown ==
    /\ Visiting
    /\ visited' = visited \cup {Node}
    /\ \E class \in Classes : \E answer \in TextAnswers(class) :
       \E count \in Counts \cup {Uncounted} :
         /\ answer = "text" => Len(text) < TextLimit
         /\ LET probed == ~Descends(class) /\ MayBeBlankSlot(class, answer)
            IN  IF probed
                THEN /\ count # Uncounted
                     /\ Note(Node, count)
                     /\ work' = Tail(work)
                     /\ IF count = Late THEN OutOfTime ELSE InTime
                     /\ CountUnread(Node, count = Failed)
                     /\ UNCHANGED <<owing, gaps>>
                ELSE /\ Descend(Node, class, answer = "failed", count)
                     /\ gaps' = IF count = Failed THEN gaps \cup {"childrenUnreadable"} ELSE gaps
         /\ text' = IF answer = "text" THEN Append(text, Node) ELSE text
         /\ inputs' = IF IsInput(class) THEN inputs \cup {Node} ELSE inputs
         /\ masks' = IF IsInput(class) THEN masks \cup {Node} ELSE masks
         /\ blanks' = IF MayBeBlankSlot(class, answer) /\ count = 0
                      THEN blanks \cup {Node} ELSE blanks
    /\ UNCHANGED <<phase, choice>>

\* Mutant of LoadedGaps: an answer with fewer children than asked is complete.
LoadedGapsTrusting(asked, got) == IF got = Failed THEN {"childrenUnreadable"} ELSE {}

LoadedGaps(asked, got) ==
    CASE got = Failed -> {"childrenUnreadable"}
      [] got # Failed /\ got < asked -> {"childrenShort"}
      [] OTHER -> {}

\* An element answers a range with at most what was asked for.
ChildrenRange(asked) == {Failed} \cup 0..asked

\* load_children: a batch of children goes on the stack in front of the batches
\* still to be read, which are read only after a full one.
LoadChildren ==
    /\ Walking /\ Head(work).kind = "children"
    /\ LET c == Head(work)
           asked == IF c.count - c.index < Batch THEN c.count - c.index ELSE Batch
       IN  \E got \in ChildrenRange(asked) : \E late \in BOOLEAN :
             /\ gaps' = gaps \cup LoadedGaps(asked, got)
             /\ unread' = IF got = Failed THEN unread \cup {Node} ELSE unread
             /\ degradedNodes' = IF got = Failed /\ ~c.degraded THEN degradedNodes + 1
                                 ELSE degradedNodes
             /\ IF got # Failed /\ late THEN OutOfTime ELSE InTime
             /\ work' = IF got = Failed \/ late THEN Tail(work)
                        ELSE [i \in 1..got |-> [kind |-> "visit",
                                                node |-> Append(Node, c.index + i)]]
                             \o (IF got = asked /\ c.index + got < c.count
                                 THEN <<[c EXCEPT !.index = @ + got]>> ELSE <<>>)
                             \o Tail(work)
    /\ UNCHANGED <<phase, choice, visited, kids, told, owing, found>>

\* Any read of the window itself can tell that it is gone: the scan fails.
WindowGone ==
    /\ Walking /\ Node = Root
    /\ phase' = "failed"
    /\ UNCHANGED <<choice, work, visited, kids, told, owing, found, unread, degradedNodes,
                   gaps, cutoff>>

\* Between two items of work, and once more at the end, the time and the stop
\* flag are looked at.
OutOfBudget ==
    /\ phase = "walk" /\ cutoff = "none"
    /\ OutOfTime
    /\ UNCHANGED <<phase, choice, work, visited, kids, told, owing, found, unread,
                   degradedNodes, gaps>>

FinishWalk ==
    /\ phase = "walk"
    /\ work = <<>> \/ cutoff # "none"
    /\ gaps' = IF cutoff # "none" THEN gaps \cup {"cutoff"} ELSE gaps
    /\ EndScan("scanned")
    /\ UNCHANGED <<choice, cutoff>>

(***************************************************************************)
(* The specification                                                        *)
(***************************************************************************)
WalkInit ==
    /\ phase = "focused"
    /\ windows \in [{1, 2} -> [numbered : BOOLEAN, frame : {NoFrame, 1, 2}]]
    /\ candidates = <<>> /\ listed = FALSE /\ onScreen = Unasked /\ chosen = 0
    /\ work = <<>> /\ visited = {} /\ kids = [n \in {} |-> 0] /\ told = 0 /\ owing = {}
    /\ inputs = {} /\ masks = {} /\ blanks = {} /\ text = <<>>
    /\ unread = {} /\ degradedNodes = 0 /\ gaps = {} /\ cutoff = "none"

WalkNext ==
    \/ ReadFocusedWindow \/ ReadWindows \/ ResolveWindow \/ NoWindowMatched
    \/ ReadTitle \/ TimeIsUp \/ SearchFails
    \/ NodesAreUp \/ VisitUnreadable \/ VisitTooLate \/ VisitFrameless
    \/ VisitOffWindow \/ VisitOverflowing \/ VisitShown \/ LoadChildren
    \/ WindowGone \/ OutOfBudget \/ FinishWalk

WalkSpec == WalkInit /\ [][WalkNext]_walkVars

(***************************************************************************)
(* Properties                                                               *)
(***************************************************************************)
Earlier(m, n) ==
    \/ Len(m) < Len(n) /\ \A j \in 1..Len(m) : m[j] = n[j]
    \/ \E i \in 1..Len(m) : /\ i <= Len(n)
                            /\ \A j \in 1..i - 1 : m[j] = n[j]
                            /\ m[i] < n[i]

\* A walk that reports no gap saw every node there was to see below the window,
\* and every node that may be an input field is masked.
MasksComplete ==
    gaps = {} =>
        /\ \A n \in owing : n \in DOMAIN kids /\ \A i \in 1..kids[n] : Append(n, i) \in visited
        /\ inputs \subseteq masks

\* The text is in reading order, and a node one of whose reads failed neither
\* gives text nor counts as blank, and is reported once.
TextInOrder ==
    /\ \A i, j \in DOMAIN text : i < j => Earlier(text[i], text[j])
    /\ blanks \cap unread = {}
    /\ degradedNodes = Cardinality(unread)
    /\ Cardinality(visited) <= NodeLimit

\* Two windows with different frames are never taken for each other.
RightWindow ==
    windows[1].frame # windows[2].frame => chosen \in {0, Expected}

\* What a scan hands on can be trusted as far as it says: the screenshot of a
\* window is recognised only when the input fields to mask in it are all known
\* (content_snapshot/coverage.rs:144, walker.rs:215).
WalkSound ==
    /\ phase = "scanned" => MasksComplete
    /\ TextInOrder
    /\ RightWindow

WalkTypeOK ==
    /\ phase \in {"focused", "resolve", "title", "walk", "scanned", "unresolved",
                  "denied", "failed"}
    /\ visited \subseteq Seq(1..MaxTree) /\ told \in 0..MaxTree
    /\ DOMAIN kids \subseteq visited /\ \A n \in DOMAIN kids : kids[n] \in 0..MaxTree
    /\ owing \subseteq visited /\ inputs \subseteq visited /\ masks \subseteq visited
    /\ blanks \subseteq visited /\ unread \subseteq visited
    /\ degradedNodes \in Nat
    /\ gaps \subseteq {"cutoff", "roleUnreadable", "childrenUnreadable", "childrenShort",
                       "framelessInput"}
    /\ cutoff \in {"none", "time", "stopped", "nodes", "bytes"}
=============================================================================
