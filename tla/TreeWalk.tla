------------------------------ MODULE TreeWalk ------------------------------
(***************************************************************************)
(* The walks over the directories of a workspace, among changes of the     *)
(* tree: the text search of src/src/fs.rs, the search for references of    *)
(* src/src/code_tools.rs, the tree summary of src/src/bonus.rs, the map of *)
(* src/src/repo_map.rs, and the listings of one directory.  A walk reads   *)
(* directories entry by entry and looks at each entry by its path; nothing *)
(* keeps the tree still meanwhile.  Walks only read and share nothing, so  *)
(* one at a time says what many do.                                        *)
(***************************************************************************)
EXTENDS Naturals, Sequences, FiniteSets, FiniteSetsExt

CONSTANTS
    Nodes,          \* names below the root, each with the directory it is in
    Root, Parent,
    Forms,          \* what each name can be, when it is there
    Faulty,         \* names where a call may fail though they are there
    Hits,           \* how often each text that a file can have matches
    Large,          \* the texts among them that are too large to be searched
    Generated,      \* names that references and the map leave out
    Targets,        \* what a request can ask to be searched or listed
    Limit,          \* of matches, entries or files, for each kind of walk
    MaxDepth,       \* of a summary
    ChangeBound     \* bound on the changes of the tree

Kinds == {"search", "references", "summary", "map", "list"}

Texts == DOMAIN Hits

(* A file has a text, or bytes that are none, or the system refuses to     *)
(* have it read.                                                           *)
Files == Texts \cup {"binary", "sealed"}

Contents(n) == {"none"} \cup Forms[n]

Gone == "gone"      \* a directory that was removed while it was read

(* Names are in directories, and these in others, up to the root.  A name  *)
(* of a directory, or of a pipe or a device, is never given to another     *)
(* kind of entry; a link and a file can take each other's place.           *)
ASSUME TreeAssumption ==
    /\ IsFiniteSet(Nodes)
    /\ Root \notin Nodes /\ Gone \notin Nodes \cup {Root}
    /\ Parent \in [Nodes -> Nodes \cup {Root}]
    /\ \A S \in (SUBSET Nodes) \ {{}} : \E n \in S : Parent[n] \notin S
    /\ Texts \cap {"none", "binary", "sealed", "dir", "link", "other"} = {}
    /\ \A n \in Nodes : Forms[n] \subseteq Files \cup {"link"}
                          \/ Forms[n] = {"dir"} \/ Forms[n] = {"other"}
    /\ \A n \in Nodes : Parent[n] = Root \/ Forms[Parent[n]] = {"dir"}
    /\ Hits \in [Texts -> Nat] /\ Large \subseteq Texts
    /\ Faulty \subseteq Nodes \cup {Root} /\ Generated \subseteq Nodes
    /\ Targets \subseteq Nodes \cup {Root}
    /\ Limit \in [Kinds -> Nat \ {0}] /\ MaxDepth \in Nat /\ ChangeBound \in Nat

VARIABLES
    tree,           \* what each name is
    walk,           \* the walk under way
    steady,         \* the names that have not changed since it began
    lost,           \* those removed, or replaced by a link, since it began
    changes

vars == <<tree, walk, steady, lost, changes>>

Children(dir) == {n \in Nodes : Parent[n] = dir}

(* Mutant: the link is followed, which fails if it leads to nothing.       *)
Metadata_FollowsLinks(n) ==
    IF n = Root THEN "dir" ELSE IF tree[n] = "link" THEN "none" ELSE tree[n]

(* What symlink_metadata says of a path.                                   *)
Metadata(n) == IF n = Root THEN "dir" ELSE tree[n]

Present(n) == IF n = Root THEN TRUE ELSE tree[n] # "none"

Entries(dir) == {n \in Children(dir) : Present(n)}

(* A directory under way: the entries its stream may still return, and     *)
(* those it has to, which were there all the time.                         *)
Frame(dir) == [dir |-> dir, may |-> Entries(dir), must |-> Entries(dir)]

NoWalk == [kind |-> "none", target |-> Root, depth |-> 0, pc |-> "idle",
           at |-> Root, stack |-> <<>>, count |-> 0, found |-> {},
           truncated |-> FALSE]

Init ==
    /\ tree \in [Nodes -> UNION {Contents(n) : n \in Nodes}]
    /\ \A n \in Nodes : tree[n] \in Contents(n)
    /\ \A n \in {m \in Nodes : Present(m)} : Present(Parent[n])
    /\ walk = NoWalk /\ steady = Nodes /\ lost = {} /\ changes = 0

-----------------------------------------------------------------------------
(* What others do to the tree: any process of the machine, or TuxBridge    *)
(* itself, for another request.                                            *)

(* What a stream returns of entries that come or go while it is read is    *)
(* left to the system.  What changes before a walk or after it is of no    *)
(* consequence to it: a walk begins on any tree.                           *)
Seen(frame, n) ==
    [frame EXCEPT !.dir = IF @ = n THEN Gone ELSE @,
                  !.may = IF tree[n] = "none" /\ Parent[n] = frame.dir
                             THEN @ \cup {n} ELSE @,
                  !.must = @ \ {n}]

Change(n, content) ==
    /\ walk.pc \in {"look", "open", "read", "reading"}
    /\ changes < ChangeBound /\ changes' = changes + 1
    /\ tree[n] # content
    /\ IF content = "none" THEN Entries(n) = {} ELSE Present(Parent[n])
    /\ tree' = [tree EXCEPT ![n] = content]
    /\ steady' = steady \ {n}
    /\ lost' = IF content = "none" \/ (content = "link" /\ tree[n] # "none")
                  THEN lost \cup {n} ELSE lost
    /\ walk' = IF tree[n] = "none" \/ content = "none"
                  THEN [walk EXCEPT !.stack =
                          [i \in DOMAIN @ |-> Seen(@[i], n)]]
                  ELSE walk

-----------------------------------------------------------------------------
(* The requests, after the workspace was found readable and the path to be *)
(* one in it, no link: what a link leads to is the path of another         *)
(* request.  What the walk looks at first is read in a step of its own.    *)

Start(kind, target, depth, pc) ==
    /\ walk.pc = "idle" /\ Metadata(target) # "link"
    /\ walk' = [NoWalk EXCEPT !.kind = kind, !.target = target, !.at = target,
                              !.depth = depth, !.pc = pc]
    /\ steady' = Nodes /\ lost' = {}
    /\ UNCHANGED <<tree, changes>>

(* Searches look at the path of the request, a directory or a file.        *)
SearchFiles(target) ==
    Start("search", target, 0, IF Present(target) THEN "look" ELSE "refused")

CodeReferences(target) ==
    Start("references", target, 0, IF Present(target) THEN "look" ELSE "refused")

RepositoryMap == Start("map", Root, 0, "look")

TreeSummary(depth) == Start("summary", Root, depth, "open")

ListDirectory(target) ==
    Start("list", target, 0,
          IF Metadata(target) = "dir" THEN "open" ELSE "refused")

Full == walk.count >= Limit[walk.kind]

Top(w) == w.stack[Len(w.stack)]

Below(stack) == SubSeq(stack, 1, Len(stack) - 1)

(* The walk goes on with the directory it is in, or answers.               *)
Continue(w) ==
    [w EXCEPT !.pc = IF w.stack = <<>> THEN "done" ELSE "reading"]

(* Mutant: the directory above goes on as if this one had been finished.   *)
CutShort_OneLevel(w) ==
    IF Len(w.stack) > 1
    THEN [w EXCEPT !.stack = Below(@), !.pc = "reading"]
    ELSE [w EXCEPT !.truncated = TRUE, !.stack = <<>>, !.pc = "done"]

(* A limit that ends the walk ends it on every level.                      *)
CutShort(w) == [w EXCEPT !.truncated = TRUE, !.stack = <<>>, !.pc = "done"]

(* A file was searched: its matches are told until the limit is reached,   *)
(* be there more or not.                                                   *)
Search(w, n, hits) ==
    IF hits = 0 THEN Continue(w)
    ELSE LET told == [w EXCEPT !.count = @ + hits, !.found = @ \cup {n}]
         IN  IF told.count < Limit[w.kind]
             THEN Continue(told)
             ELSE CutShort([told EXCEPT !.count = Limit[w.kind]])

Count(w, n) == [w EXCEPT !.count = @ + 1, !.found = @ \cup {n}]

Fail(w) == [w EXCEPT !.pc = "failed"]

(* The stream of the directory returns an entry.                           *)
Returned(n) ==
    /\ walk.pc = "reading" /\ n \in Top(walk).may
    /\ UNCHANGED <<tree, steady, lost, changes>>

Rest(n) ==
    LET frame == [Top(walk) EXCEPT !.may = @ \ {n}, !.must = @ \ {n}]
    IN  [walk EXCEPT !.stack[Len(walk.stack)] = frame]

(* The summary looks at its limit first: it leaves this directory and will *)
(* leave those above at their next entry.                                  *)
SummaryBreaks(n) ==
    /\ Returned(n) /\ walk.kind = "summary" /\ Full
    /\ walk' = Continue([walk EXCEPT !.truncated = TRUE, !.stack = Below(@)])

ScanSkips(n) ==
    /\ Returned(n) /\ walk.kind \in {"references", "map"} /\ n \in Generated
    /\ walk' = Rest(n)

(* The map looks at its limit before it looks at an entry of any kind.     *)
ScanEnds(n) ==
    /\ Returned(n) /\ walk.kind = "map" /\ n \notin Generated /\ Full
    /\ walk' = CutShort(Rest(n))

TakeEntry(n) ==
    /\ Returned(n)
    /\ walk.kind \in {"references", "map"} => n \notin Generated
    /\ walk.kind \in {"summary", "map"} => ~Full
    /\ walk' = [Rest(n) EXCEPT !.at = n, !.pc = "look"]

(* The stream has no more entries.                                         *)
EndOfDirectory ==
    /\ walk.pc = "reading" /\ Top(walk).must = {}
    /\ walk' = Continue([walk EXCEPT !.stack = Below(@)])
    /\ UNCHANGED <<tree, steady, lost, changes>>

(* The stream ends with an error.                                          *)
StreamFails ==
    /\ walk.pc = "reading" /\ Top(walk).dir \in Faulty
    /\ walk' = Fail(walk)
    /\ UNCHANGED <<tree, steady, lost, changes>>

(* The entry is looked at by its path.  One that is gone, or that the      *)
(* system fails to look at, ends the walk with an error; a link is never   *)
(* followed.                                                               *)
Looks(content) ==
    /\ walk.pc = "look" /\ content = Metadata(walk.at)
    /\ UNCHANGED <<tree, steady, lost, changes>>

LookFails ==
    /\ Looks(Metadata(walk.at))
    /\ Metadata(walk.at) = "none" \/ walk.at \in Faulty
    /\ walk' = Fail(walk)

Enters == walk' = [walk EXCEPT !.pc = "open"]

SearchLooks(content) ==
    /\ Looks(content) /\ content # "none"
    /\ walk.kind \in {"search", "references"}
    /\ CASE content = "dir" -> Enters
         [] content \in Files \ Large ->
              walk' = [walk EXCEPT !.pc = "read"]
         [] OTHER -> walk' = Continue(walk)

MapLooks(content) ==
    /\ Looks(content) /\ content # "none" /\ walk.kind = "map"
    /\ CASE content = "dir" -> Enters
         [] content \in Files ->
              walk' = Continue(Count(walk, walk.at))
         [] OTHER -> walk' = Continue(walk)

(* Summaries count entries of every kind, and enter directories down to    *)
(* the depth they were asked for.                                          *)
SummaryLooks(content) ==
    /\ Looks(content) /\ content # "none" /\ walk.kind = "summary"
    /\ walk' = IF content = "dir" /\ Len(walk.stack) <= walk.depth
               THEN [Count(walk, walk.at) EXCEPT !.pc = "open"]
               ELSE Continue(Count(walk, walk.at))

ListLooks(content) ==
    /\ Looks(content) /\ content # "none" /\ walk.kind = "list"
    /\ walk' = Continue(Count(walk, walk.at))

(* The directory that was looked at is opened, unless it is gone by now or *)
(* the system refuses it.                                                  *)
Open ==
    LET full == walk.kind = "summary" /\ Full
    IN  /\ walk.pc = "open"
        /\ \/ full /\ walk' = Continue([walk EXCEPT !.truncated = TRUE])
           \/ /\ ~full /\ Present(walk.at)
              /\ walk' = [walk EXCEPT !.pc = "reading",
                                      !.stack = Append(@, Frame(walk.at))]
           \/ /\ ~full /\ (~Present(walk.at) \/ walk.at \in Faulty)
              /\ walk' = Fail(walk)
        /\ UNCHANGED <<tree, steady, lost, changes>>

(* What reading a path gives.  A link that has come there is followed,     *)
(* wherever it leads.                                                      *)
Reading(n) ==
    IF tree[n] = "link" THEN Files \cup {"none"} ELSE {tree[n]}

(* The file that was looked at is read.  That it cannot be, gone or not,   *)
(* the search takes for an error; the search for references goes on.       *)
Read ==
    /\ walk.pc = "read"
    /\ \E content \in Reading(walk.at) :
         walk' = CASE content \in {"none", "sealed"} /\ walk.kind = "search" ->
                        Fail(walk)
                   [] content \in Texts -> Search(walk, walk.at, Hits[content])
                   [] OTHER -> Continue(walk)
    /\ UNCHANGED <<tree, steady, lost, changes>>

Request ==
    \/ \E target \in Targets :
         SearchFiles(target) \/ CodeReferences(target) \/ ListDirectory(target)
    \/ \E depth \in 0..MaxDepth : TreeSummary(depth)
    \/ RepositoryMap

Entry ==
    \E n \in Nodes : SummaryBreaks(n) \/ ScanSkips(n) \/ ScanEnds(n) \/ TakeEntry(n)

Look ==
    \/ LookFails
    \/ \E content \in {Metadata(walk.at)} :
         \/ SearchLooks(content) \/ MapLooks(content)
         \/ SummaryLooks(content) \/ ListLooks(content)

Next ==
    \/ \E n \in Nodes : \E content \in Contents(n) : Change(n, content)
    \/ Request \/ Entry \/ EndOfDirectory \/ StreamFails
    \/ Look \/ Open \/ Read

Spec == Init /\ [][Next]_vars

-----------------------------------------------------------------------------
FrameType ==
    [dir : Nodes \cup {Root, Gone}, may : SUBSET Nodes, must : SUBSET Nodes]

Stacks == Seq(FrameType)

WalkType ==
    [kind : Kinds \cup {"none"}, target : Nodes \cup {Root}, depth : 0..MaxDepth,
     pc : {"idle", "refused", "look", "open", "read", "reading", "done", "failed"},
     at : Nodes \cup {Root}, stack : Stacks,
     count : Nat, found : SUBSET Nodes, truncated : BOOLEAN]

TypeOK ==
    /\ \A n \in Nodes : tree[n] \in Contents(n)
    /\ walk \in WalkType
    /\ steady \subseteq Nodes /\ lost \subseteq Nodes \ steady
    /\ changes \in 0..ChangeBound

(* The directories that a name is in, and the name.                        *)
Above[n \in Nodes \cup {Root}] ==
    IF n = Root THEN {Root} ELSE {n} \cup Above[Parent[n]]

(* The names that a walk is about.                                         *)
InScope(n) ==
    LET within == Above[n] \ Above[walk.target]
    IN  CASE walk.kind \in {"search", "references", "map"} ->
               /\ walk.target \in Above[n]
               /\ walk.kind \in {"references", "map"} => within \cap Generated = {}
          [] walk.kind = "summary" -> Cardinality(within) <= walk.depth + 1
          [] OTHER -> Parent[n] = walk.target

(* What of them it tells, and how much that adds to its numbers.           *)
Weight(n) ==
    IF ~Present(n) \/ ~InScope(n) THEN 0
    ELSE CASE walk.kind \in {"search", "references"} ->
                IF tree[n] \in Texts \ Large THEN Hits[tree[n]] ELSE 0
           [] walk.kind = "map" -> IF tree[n] \in Files THEN 1 ELSE 0
           [] OTHER -> 1

(* An answer that is not marked truncated has everything that was there    *)
(* all the time, and of a tree that nobody changed exactly what is there;  *)
(* and it is marked only at the limit (README.md:84, 104, 118; fs.rs:341,  *)
(* code_tools.rs:93, bonus.rs:268, repo_map.rs:44).                        *)
AnswersAreWhole ==
    walk.pc = "done" =>
      /\ ~walk.truncated =>
           /\ \A n \in steady : Weight(n) > 0 => n \in walk.found
           /\ steady = Nodes => walk.count = MapThenSumSet(Weight, Nodes)
      /\ walk.truncated => walk.count = Limit[walk.kind]

(* A walk fails only for a cause: what it looked at, opened or read was    *)
(* removed or replaced by a link under it, or the system failed there or   *)
(* in the directory it was reading, or a search met a file that cannot be  *)
(* read.  Links that lead to nothing, files that are no text, new and      *)
(* changed files never make it fail, nor do files that cannot be read any  *)
(* walk but a search (fs.rs:348-370, bonus.rs:280-286, repo_map.rs:45,     *)
(* code_tools.rs:93).                                                      *)
FailsOnlyForCause ==
    walk.pc = "failed" =>
      \/ walk.at \in lost \cup Faulty
      \/ walk.stack # <<>> /\ Top(walk).dir \in Faulty
      \/ walk.kind = "search" /\ Metadata(walk.at) = "sealed"
=============================================================================
