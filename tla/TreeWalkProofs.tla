--------------------------- MODULE TreeWalkProofs ---------------------------
(***************************************************************************)
(* Proofs about TreeWalk, for every tree, every set of texts and limits    *)
(* and any number of changes.                                              *)
(*                                                                         *)
(* A walk meets a name in two places: as an entry that a stream may still  *)
(* return, and as what it is about to look at, open or read.  It was there *)
(* when it got into either, so if it is not there now somebody has removed *)
(* it since the walk began.                                                *)
(*                                                                         *)
(* A name that stays is missed by no walk: until it is told, the walk has  *)
(* in hand or yet to meet a directory that it is in.  And in a tree that   *)
(* nobody changes it is met only once.                                     *)
(***************************************************************************)
EXTENDS TreeWalk, FiniteSetTheorems, WellFoundedInduction, SequenceTheorems, TLAPS

TypeInv ==
    /\ tree \in [Nodes -> UNION {Contents(n) : n \in Nodes}]
    /\ TypeOK

(* Still there, or removed while the walk was under way.                   *)
Accounted(n) == Present(n) \/ n \in lost

StreamsOK(w) ==
    \A i \in 1..Len(w.stack) : \A n \in w.stack[i].may : Accounted(n)

Pending == {"look", "open", "read"}

AtOK(w) == w.pc \in Pending => Accounted(w.at)

(* A walk that reads a directory is in one, and what is told are names.    *)
(* What it reads was no link when it looked.                               *)
PhaseOK(w) ==
    /\ w.pc = "reading" => w.stack # <<>>
    /\ w.pc = "read" => /\ w.at \in Nodes /\ w.kind \in Kinds
                        /\ tree[w.at] = "link" => w.at \in lost
    /\ w.pc = "look" /\ w.kind \in {"summary", "list"} => w.at \in Nodes

(* What may make a walk fail where it is.                                  *)
Cause(w) ==
    \/ w.at \in lost \cup Faulty
    \/ w.stack # <<>> /\ Top(w).dir \in Faulty
    \/ w.kind = "search" /\ Metadata(w.at) = "sealed"

FailOK(w) == w.pc = "failed" => Cause(w)

Sound(w) ==
    w \in WalkType /\ StreamsOK(w) /\ AtOK(w) /\ PhaseOK(w) /\ FailOK(w)

WalkInv == TypeInv /\ Sound(walk)

-----------------------------------------------------------------------------
(* What the steps are made of                                              *)

LEMMA ContentsOfNames ==
    ASSUME NEW n \in Nodes
    PROVE  Contents(n) \subseteq UNION {Contents(m) : m \in Nodes}
OBVIOUS

(* The frame of a directory has the entries that are there.                *)
LEMMA NewFrame ==
    ASSUME NEW dir \in Nodes \cup {Root}
    PROVE  /\ Frame(dir) \in FrameType
           /\ \A n \in Frame(dir).may : Present(n)
BY DEF Frame, FrameType, Entries, Children

LEMMA SeenFrame ==
    ASSUME NEW frame \in FrameType, NEW n \in Nodes
    PROVE  /\ Seen(frame, n) \in FrameType
           /\ Seen(frame, n).may \subseteq frame.may \cup {n}
           /\ tree[n] # "none" => Seen(frame, n).may = frame.may
BY DEF Seen, FrameType

LEMMA ContinueKeeps ==
    ASSUME NEW w \in WalkType
    PROVE  /\ Continue(w) \in WalkType
           /\ Continue(w).stack = w.stack
           /\ Continue(w).pc \in {"done", "reading"}
           /\ Continue(w).pc = "reading" => w.stack # <<>>
BY DEF Continue, WalkType

LEMMA EmptyStack == <<>> \in Stacks
BY DEF Stacks

LEMMA CutShortEnds ==
    ASSUME NEW w \in WalkType
    PROVE  /\ CutShort(w) \in WalkType
           /\ CutShort(w).stack = <<>> /\ CutShort(w).pc = "done"
BY EmptyStack DEF CutShort, WalkType

LEMMA CountKeeps ==
    ASSUME NEW w \in WalkType, NEW n \in Nodes
    PROVE  /\ Count(w, n) \in WalkType
           /\ Count(w, n).stack = w.stack /\ Count(w, n).at = w.at
<1> DEFINE c == w.count + 1
           f == w.found \cup {n}
<1>1. c \in Nat /\ f \in SUBSET Nodes
  BY DEF WalkType
<1>2. Count(w, n) = [w EXCEPT !.count = c, !.found = f]
  BY DEF Count
<1> HIDE DEF c, f
<1> QED
  BY <1>1, <1>2 DEF WalkType

LEMMA FailKeeps ==
    ASSUME NEW w \in WalkType
    PROVE  Fail(w) \in WalkType /\ Fail(w).pc = "failed" /\ Fail(w).stack = w.stack
BY DEF Fail, WalkType

LEMMA BelowStack ==
    ASSUME NEW stack \in Stacks, stack # <<>>
    PROVE  /\ Below(stack) \in Stacks
           /\ Len(Below(stack)) = Len(stack) - 1
           /\ \A i \in 1..Len(Below(stack)) : Below(stack)[i] = stack[i]
<1>1. Len(stack) \in Nat \ {0}
  BY DEF Stacks
<1>2. 1 \in Int /\ Len(stack) - 1 \in Int
      /\ \A i \in 1..(Len(stack) - 1) : stack[i] \in FrameType
  BY <1>1 DEF Stacks
<1>3. ASSUME NEW m \in Int, m = Len(stack) - 1
      PROVE  /\ SubSeq(stack, 1, m) \in Seq(FrameType)
             /\ Len(SubSeq(stack, 1, m)) = m
             /\ \A i \in 1..m : SubSeq(stack, 1, m)[i] = stack[i]
  <2>1. \A i \in 1..m : stack[i] \in FrameType
    BY <1>2, <1>3
  <2>2. /\ SubSeq(stack, 1, m) \in Seq(FrameType)
        /\ Len(SubSeq(stack, 1, m)) = IF 1 <= m THEN m - 1 + 1 ELSE 0
        /\ \A i \in 1..(m - 1 + 1) : SubSeq(stack, 1, m)[i] = stack[1 + i - 1]
    BY <2>1, SubSeqProperties
  <2> QED
    BY <2>2, <1>3, <1>1
<1> QED
  BY <1>2, <1>3 DEF Stacks, Below

(* A walk without the directory it was in.                                 *)
LEMMA LeaveKeeps ==
    ASSUME NEW w \in WalkType, w.stack # <<>>
    PROVE  LET v == [w EXCEPT !.stack = Below(@)]
           IN  v \in WalkType /\ v.stack = Below(w.stack)
<1>1. w.stack \in Stacks
  BY DEF WalkType
<1>2. Below(w.stack) \in Stacks
  BY <1>1, BelowStack
<1> HIDE DEF Below
<1> QED
  BY <1>2 DEF WalkType

(* A walk with the rest of the directory it is in.                         *)
LEMMA RestKeeps ==
    ASSUME TypeInv, walk.stack # <<>>, NEW n \in Nodes
    PROVE  /\ Rest(n) \in WalkType
           /\ Len(Rest(n).stack) = Len(walk.stack)
           /\ \A i \in 1..Len(walk.stack) :
                Rest(n).stack[i].may \subseteq walk.stack[i].may
           /\ Rest(n).stack # <<>>
           /\ Rest(n) = [walk EXCEPT !.stack = Rest(n).stack]
<1> DEFINE l == Len(walk.stack)
           f == [walk.stack[l] EXCEPT !.may = @ \ {n}, !.must = @ \ {n}]
           s == [walk.stack EXCEPT ![l] = f]
<1>1. walk \in WalkType /\ walk.stack \in Stacks /\ l \in Nat \ {0}
  BY DEF TypeInv, TypeOK, WalkType, Stacks
<1>2. walk.stack[l] \in FrameType
  BY <1>1 DEF Stacks
<1>3. f \in FrameType /\ f.may \subseteq walk.stack[l].may
  BY <1>2 DEF FrameType
<1>4. s \in Stacks /\ Len(s) = l /\ \A i \in 1..l : s[i] = IF i = l THEN f ELSE walk.stack[i]
  <2> HIDE DEF f
  <2>1. walk.stack \in Seq(FrameType) /\ l \in 1..Len(walk.stack)
    BY <1>1 DEF Stacks
  <2> QED
    BY <2>1, <1>3, ExceptSeq DEF Stacks
<1>5. Rest(n) = [walk EXCEPT !.stack = s]
  BY <1>1 DEF Rest, Top, WalkType
<1> HIDE DEF s, f
<1>6. Rest(n) \in WalkType /\ Rest(n).stack = s
  BY <1>1, <1>4, <1>5 DEF WalkType
<1>7. s # <<>>
  BY <1>1, <1>4
<1> QED
  BY <1>1, <1>3, <1>4, <1>5, <1>6, <1>7

-----------------------------------------------------------------------------
(* What a step makes of a walk                                             *)

(* A step of the walk itself only has to leave a sound one.                *)
LEMMA OwnStep ==
    ASSUME WalkInv, UNCHANGED <<tree, steady, lost, changes>>, Sound(walk')
    PROVE  WalkInv'
<1>1. Sound(walk)'
  BY DEF Sound, StreamsOK, AtOK, PhaseOK, FailOK, Cause, Metadata, Top,
         Accounted, Present, WalkType, Stacks, FrameType, Kinds
<1>2. TypeInv'
  BY DEF WalkInv, TypeInv, TypeOK, Sound, WalkType, Stacks, FrameType, Kinds
<1> QED
  BY <1>1, <1>2 DEF WalkInv

LEMMA ContinueSound ==
    ASSUME NEW w \in WalkType, StreamsOK(w)
    PROVE  Sound(Continue(w))
<1>1. /\ Continue(w) \in WalkType
      /\ Continue(w).stack = w.stack
      /\ Continue(w).pc \in {"done", "reading"}
      /\ Continue(w).pc = "reading" => w.stack # <<>>
  BY ContinueKeeps
<1>2. StreamsOK(Continue(w))
  BY <1>1 DEF StreamsOK
<1> QED
  BY <1>1, <1>2 DEF Sound, AtOK, PhaseOK, FailOK, Pending

LEMMA CutShortSound ==
    ASSUME NEW w \in WalkType
    PROVE  Sound(CutShort(w))
<1>1. /\ CutShort(w) \in WalkType
      /\ CutShort(w).stack = <<>> /\ CutShort(w).pc = "done"
  BY CutShortEnds
<1>2. StreamsOK(CutShort(w))
  BY <1>1 DEF StreamsOK
<1> QED
  BY <1>1, <1>2 DEF Sound, AtOK, PhaseOK, FailOK, Pending

LEMMA FailSound ==
    ASSUME NEW w \in WalkType, StreamsOK(w), Cause(w)
    PROVE  Sound(Fail(w))
<1>1. /\ Fail(w) \in WalkType /\ Fail(w).pc = "failed"
      /\ Fail(w).stack = w.stack /\ Fail(w).at = w.at /\ Fail(w).kind = w.kind
  BY FailKeeps DEF Fail, WalkType
<1>2. StreamsOK(Fail(w)) /\ Cause(Fail(w))
  BY <1>1 DEF StreamsOK, Cause, Top
<1> QED
  BY <1>1, <1>2 DEF Sound, AtOK, PhaseOK, FailOK, Pending

LEMMA LeaveStreams ==
    ASSUME NEW w \in WalkType, StreamsOK(w), w.stack # <<>>
    PROVE  StreamsOK([w EXCEPT !.stack = Below(@)])
<1> DEFINE v == [w EXCEPT !.stack = Below(@)]
<1>1. w.stack \in Stacks /\ Len(w.stack) \in Nat
  BY DEF WalkType, Stacks
<1>2. v.stack = Below(w.stack)
  BY LeaveKeeps
<1>3. /\ Len(Below(w.stack)) = Len(w.stack) - 1
      /\ \A i \in 1..Len(Below(w.stack)) : Below(w.stack)[i] = w.stack[i]
  BY <1>1, BelowStack
<1> HIDE DEF v
<1>4. StreamsOK(v)
  BY <1>1, <1>2, <1>3 DEF StreamsOK
<1> QED
  BY <1>4 DEF v

-----------------------------------------------------------------------------
(* The steps                                                               *)

(* A walk begins at a path that is there, with nothing lost yet.           *)
LEMMA StartStep ==
    ASSUME WalkInv, NEW kind \in Kinds, NEW target \in Nodes \cup {Root},
           NEW depth \in 0..MaxDepth, NEW pc \in {"look", "open", "refused"},
           pc # "refused" => Present(target),
           pc = "look" => kind \notin {"summary", "list"},
           Start(kind, target, depth, pc)
    PROVE  WalkInv'
<1>1. /\ walk'.kind = kind /\ walk'.at = target /\ walk'.pc = pc
      /\ walk'.stack = <<>> /\ lost' = {} /\ steady' = Nodes
      /\ UNCHANGED <<tree, changes>>
  BY DEF Start, NoWalk
<1>2. walk' \in WalkType
  BY EmptyStack DEF Start, NoWalk, WalkType
<1>3. TypeInv'
  BY <1>1, <1>2 DEF WalkInv, TypeInv, TypeOK, WalkType, Stacks, FrameType, Kinds
<1>4. StreamsOK(walk)'
  BY <1>1 DEF StreamsOK
<1>5. (AtOK(walk) /\ PhaseOK(walk) /\ FailOK(walk))'
  BY <1>1 DEF AtOK, PhaseOK, FailOK, Pending, Accounted, Present
<1> QED
  BY <1>2, <1>3, <1>4, <1>5 DEF WalkInv, Sound, WalkType, Stacks, FrameType, Kinds

LEMMA RequestStep ==
    ASSUME WalkInv, Request
    PROVE  WalkInv'
<1> USE TreeAssumption
<1>1. Targets \subseteq Nodes \cup {Root} /\ 0 \in 0..MaxDepth
  OBVIOUS
<1>2. ASSUME NEW target \in Targets, SearchFiles(target)
      PROVE  WalkInv'
  <2> DEFINE pc == IF Present(target) THEN "look" ELSE "refused"
  <2>1. Start("search", target, 0, pc)
    BY <1>2 DEF SearchFiles
  <2> QED
    BY <1>1, <2>1, StartStep DEF Kinds
<1>3. ASSUME NEW target \in Targets, CodeReferences(target)
      PROVE  WalkInv'
  <2> DEFINE pc == IF Present(target) THEN "look" ELSE "refused"
  <2>1. Start("references", target, 0, pc)
    BY <1>3 DEF CodeReferences
  <2> QED
    BY <1>1, <2>1, StartStep DEF Kinds
<1>4. ASSUME NEW target \in Targets, ListDirectory(target)
      PROVE  WalkInv'
  <2> DEFINE pc == IF Metadata(target) = "dir" THEN "open" ELSE "refused"
  <2>1. Start("list", target, 0, pc)
    BY <1>4 DEF ListDirectory
  <2>2. pc # "refused" => Present(target)
    BY DEF Metadata, Present
  <2> QED
    BY <1>1, <2>1, <2>2, StartStep DEF Kinds
<1>5. ASSUME NEW depth \in 0..MaxDepth, TreeSummary(depth)
      PROVE  WalkInv'
  <2>1. Start("summary", Root, depth, "open") /\ Present(Root)
    BY <1>5 DEF TreeSummary, Present
  <2> QED
    BY <2>1, StartStep DEF Kinds
<1>6. ASSUME RepositoryMap
      PROVE  WalkInv'
  <2>1. Start("map", Root, 0, "look") /\ Present(Root)
    BY <1>6 DEF RepositoryMap, Present
  <2> QED
    BY <1>1, <2>1, StartStep DEF Kinds
<1> QED
  BY <1>2, <1>3, <1>4, <1>5, <1>6 DEF Request

(* What a returned entry and the rest of its directory are.                *)
LEMMA EntryReturned ==
    ASSUME WalkInv, NEW n \in Nodes, Returned(n)
    PROVE  /\ walk \in WalkType /\ walk.stack # <<>> /\ Accounted(n)
           /\ Rest(n) \in WalkType /\ StreamsOK(Rest(n)) /\ Rest(n).stack # <<>>
           /\ Rest(n) = [walk EXCEPT !.stack = Rest(n).stack]
<1>1. walk \in WalkType /\ walk.stack # <<>> /\ n \in Top(walk).may /\ TypeInv
  BY DEF WalkInv, Sound, PhaseOK, Returned
<1>2. Len(walk.stack) \in 1..Len(walk.stack)
  BY <1>1 DEF WalkType, Stacks
<1>3. /\ Rest(n) \in WalkType
      /\ Len(Rest(n).stack) = Len(walk.stack)
      /\ \A i \in 1..Len(walk.stack) :
           Rest(n).stack[i].may \subseteq walk.stack[i].may
      /\ Rest(n).stack # <<>>
      /\ Rest(n) = [walk EXCEPT !.stack = Rest(n).stack]
  BY <1>1, RestKeeps
<1>4. StreamsOK(walk)
  BY DEF WalkInv, Sound
<1>5. StreamsOK(Rest(n)) /\ Accounted(n)
  BY <1>1, <1>2, <1>3, <1>4 DEF StreamsOK, Top
<1> QED
  BY <1>1, <1>3, <1>5

LEMMA EntryStep ==
    ASSUME WalkInv, NEW n \in Nodes,
           SummaryBreaks(n) \/ ScanSkips(n) \/ ScanEnds(n) \/ TakeEntry(n)
    PROVE  WalkInv'
<1>1. Returned(n) /\ UNCHANGED <<tree, steady, lost, changes>>
  BY DEF SummaryBreaks, ScanSkips, ScanEnds, TakeEntry, Returned
<1>2. /\ walk \in WalkType /\ walk.stack # <<>> /\ Accounted(n)
      /\ Rest(n) \in WalkType /\ StreamsOK(Rest(n)) /\ Rest(n).stack # <<>>
  BY <1>1, EntryReturned
<1>3. StreamsOK(walk)
  BY DEF WalkInv, Sound
<1>4. CASE SummaryBreaks(n)
  <2> DEFINE v == [walk EXCEPT !.truncated = TRUE]
             u == [v EXCEPT !.stack = Below(@)]
  <2>1. v \in WalkType /\ v.stack = walk.stack
    BY <1>2 DEF WalkType
  <2>2. StreamsOK(v)
    BY <1>3, <2>1 DEF StreamsOK
  <2>3. u \in WalkType /\ StreamsOK(u)
    <3> HIDE DEF v
    <3> QED BY <1>2, <2>1, <2>2, LeaveKeeps, LeaveStreams
  <2>4. walk' = Continue(u)
    BY <1>2, <1>4 DEF SummaryBreaks, WalkType
  <2> HIDE DEF u
  <2> QED
    BY <1>1, <2>3, <2>4, ContinueSound, OwnStep
<1>5. CASE ScanSkips(n)
  <2>1. walk' = Rest(n) /\ walk.pc = "reading"
    BY <1>5 DEF ScanSkips, Returned
  <2>2. Rest(n).pc = "reading"
    BY <1>1, <1>2, <2>1, EntryReturned DEF WalkType
  <2>3. Sound(Rest(n))
    BY <1>2, <2>2 DEF Sound, AtOK, PhaseOK, FailOK, Pending
  <2> QED
    BY <1>1, <2>1, <2>3, OwnStep
<1>6. CASE ScanEnds(n)
  BY <1>1, <1>2, <1>6, CutShortSound, OwnStep DEF ScanEnds
<1>7. CASE TakeEntry(n)
  <2> DEFINE v == [Rest(n) EXCEPT !.at = n, !.pc = "look"]
  <2>1. v \in WalkType /\ v.stack = Rest(n).stack /\ v.at = n /\ v.pc = "look"
    BY <1>2 DEF WalkType
  <2>2. Sound(v)
    <3> HIDE DEF v
    <3> QED BY <1>2, <2>1 DEF Sound, StreamsOK, AtOK, PhaseOK, FailOK
  <2>3. walk' = v
    BY <1>7 DEF TakeEntry
  <2> QED
    BY <1>1, <2>2, <2>3, OwnStep
<1> QED
  BY <1>4, <1>5, <1>6, <1>7

LEMMA EndStep ==
    ASSUME WalkInv, EndOfDirectory
    PROVE  WalkInv'
<1> DEFINE v == [walk EXCEPT !.stack = Below(@)]
<1>1. walk \in WalkType /\ StreamsOK(walk) /\ walk.stack # <<>>
  BY DEF WalkInv, Sound, PhaseOK, EndOfDirectory
<1>2. v \in WalkType /\ StreamsOK(v)
  BY <1>1, LeaveKeeps, LeaveStreams
<1>3. walk' = Continue(v) /\ UNCHANGED <<tree, steady, lost, changes>>
  BY DEF EndOfDirectory
<1> HIDE DEF v
<1> QED
  BY <1>2, <1>3, ContinueSound, OwnStep

LEMMA StreamStep ==
    ASSUME WalkInv, StreamFails
    PROVE  WalkInv'
<1>1. /\ walk \in WalkType /\ StreamsOK(walk) /\ walk.stack # <<>>
      /\ walk' = Fail(walk) /\ UNCHANGED <<tree, steady, lost, changes>>
      /\ Top(walk).dir \in Faulty
  BY DEF WalkInv, Sound, PhaseOK, StreamFails
<1> QED
  BY <1>1, FailSound, OwnStep DEF Cause

LEMMA LookStep ==
    ASSUME WalkInv, Look
    PROVE  WalkInv'
<1> DEFINE opened(w) == [w EXCEPT !.pc = "open"]
<1>1. /\ walk \in WalkType /\ StreamsOK(walk) /\ TypeInv
      /\ walk.pc = "look" => Accounted(walk.at)
  BY DEF WalkInv, Sound, AtOK, Pending
<1>2. ASSUME NEW w \in WalkType, StreamsOK(w), Accounted(w.at)
      PROVE  Sound(opened(w))
  <2>1. opened(w) \in WalkType /\ opened(w).stack = w.stack
        /\ opened(w).at = w.at /\ opened(w).pc = "open"
    BY DEF WalkType
  <2> HIDE DEF opened
  <2> QED
    BY <1>2, <2>1 DEF Sound, StreamsOK, AtOK, PhaseOK, FailOK
<1>3. ASSUME walk.pc = "look", walk.at \in Nodes
      PROVE  /\ Count(walk, walk.at) \in WalkType
             /\ StreamsOK(Count(walk, walk.at))
             /\ Accounted(Count(walk, walk.at).at)
  BY <1>1, <1>3, CountKeeps DEF StreamsOK
<1>4. CASE LookFails
  <2>1. walk.pc = "look" /\ (~Present(walk.at) \/ walk.at \in Faulty)
    BY <1>4, TreeAssumption DEF LookFails, Looks, Metadata, Present
  <2>2. Cause(walk)
    BY <1>1, <2>1 DEF Accounted, Cause
  <2> QED
    BY <1>1, <1>4, <2>2, FailSound, OwnStep DEF LookFails, Looks
<1>5. ASSUME NEW content, SearchLooks(content)
      PROVE  WalkInv'
  <2>1. walk.pc = "look" /\ content = Metadata(walk.at)
        /\ UNCHANGED <<tree, steady, lost, changes>>
    BY <1>5 DEF SearchLooks, Looks
  <2>2. CASE content = "dir"
    <3>1. walk' = opened(walk)
      BY <1>5, <2>2, TreeAssumption DEF SearchLooks, Enters, Files
    <3> HIDE DEF opened
    <3> QED BY <1>1, <1>2, <2>1, <3>1, OwnStep
  <2>3. CASE content # "dir" /\ content \in Files \ Large
    <3> DEFINE v == [walk EXCEPT !.pc = "read"]
    <3>1. walk' = v
      BY <1>5, <2>3, TreeAssumption DEF SearchLooks
    <3>2. walk.at \in Nodes /\ walk.kind \in Kinds /\ tree[walk.at] # "link"
      <4>1. walk.at # Root
        BY <2>1, <2>3 DEF Metadata
      <4>2. content # "link"
        BY <2>3, TreeAssumption DEF Files
      <4> QED
        BY <1>1, <1>5, <2>1, <4>1, <4>2 DEF WalkType, SearchLooks, Kinds, Metadata
    <3>3. /\ v \in WalkType /\ v.stack = walk.stack /\ v.at = walk.at
          /\ v.pc = "read" /\ v.kind = walk.kind
      BY <1>1 DEF WalkType
    <3> HIDE DEF v
    <3>4. Sound(v)
      BY <1>1, <2>1, <3>2, <3>3 DEF Sound, StreamsOK, AtOK, PhaseOK, FailOK
    <3> QED
      BY <2>1, <3>1, <3>4, OwnStep
  <2>4. CASE content \notin {"dir"} \cup (Files \ Large)
    <3>1. walk' = Continue(walk)
      BY <1>5, <2>4 DEF SearchLooks
    <3> QED
      BY <1>1, <2>1, <3>1, ContinueSound, OwnStep
  <2> QED
    BY <2>2, <2>3, <2>4
<1>6. ASSUME NEW content, MapLooks(content)
      PROVE  WalkInv'
  <2>1. walk.pc = "look" /\ content = Metadata(walk.at)
        /\ UNCHANGED <<tree, steady, lost, changes>>
    BY <1>6 DEF MapLooks, Looks
  <2>2. CASE content = "dir"
    <3>1. walk' = opened(walk)
      BY <1>6, <2>2, TreeAssumption DEF MapLooks, Enters, Files
    <3> HIDE DEF opened
    <3> QED BY <1>1, <1>2, <2>1, <3>1, OwnStep
  <2>3. CASE content # "dir" /\ content \in Files
    <3>1. walk' = Continue(Count(walk, walk.at))
      BY <1>6, <2>3 DEF MapLooks
    <3>2. walk.at \in Nodes
      <4>1. walk.at # Root
        BY <2>1, <2>3 DEF Metadata
      <4> QED
        BY <1>1, <4>1 DEF WalkType
    <3> QED
      BY <1>3, <2>1, <3>1, <3>2, ContinueSound, OwnStep
  <2>4. CASE content \notin {"dir"} \cup Files
    <3>1. walk' = Continue(walk)
      BY <1>6, <2>4 DEF MapLooks
    <3> QED
      BY <1>1, <2>1, <3>1, ContinueSound, OwnStep
  <2> QED
    BY <2>2, <2>3, <2>4
<1>7. ASSUME NEW content, SummaryLooks(content)
      PROVE  WalkInv'
  <2>1. /\ walk.pc = "look" /\ walk.kind = "summary"
        /\ UNCHANGED <<tree, steady, lost, changes>>
        /\ walk' \in {opened(Count(walk, walk.at)), Continue(Count(walk, walk.at))}
    BY <1>7 DEF SummaryLooks, Looks
  <2>2. walk.at \in Nodes
    BY <2>1 DEF WalkInv, Sound, PhaseOK
  <2>3. Sound(opened(Count(walk, walk.at))) /\ Sound(Continue(Count(walk, walk.at)))
    <3> HIDE DEF opened
    <3> QED BY <1>2, <1>3, <2>1, <2>2, ContinueSound
  <2> HIDE DEF opened
  <2> QED
    BY <2>1, <2>3, OwnStep
<1>8. ASSUME NEW content, ListLooks(content)
      PROVE  WalkInv'
  <2>1. /\ walk.pc = "look" /\ walk.kind = "list"
        /\ UNCHANGED <<tree, steady, lost, changes>>
        /\ walk' = Continue(Count(walk, walk.at))
    BY <1>8 DEF ListLooks, Looks
  <2>2. walk.at \in Nodes
    BY <2>1 DEF WalkInv, Sound, PhaseOK
  <2> QED
    BY <1>3, <2>1, <2>2, ContinueSound, OwnStep
<1> QED
  BY <1>4, <1>5, <1>6, <1>7, <1>8 DEF Look

LEMMA OpenStep ==
    ASSUME WalkInv, Open
    PROVE  WalkInv'
<1>1. /\ walk \in WalkType /\ StreamsOK(walk) /\ walk.pc = "open"
      /\ Accounted(walk.at)
      /\ UNCHANGED <<tree, steady, lost, changes>>
  BY DEF WalkInv, Sound, AtOK, Pending, Open
<1>2. CASE walk' = Continue([walk EXCEPT !.truncated = TRUE])
  <2> DEFINE v == [walk EXCEPT !.truncated = TRUE]
  <2>1. walk' = Continue(v)
    BY <1>2
  <2>2. v \in WalkType /\ v.stack = walk.stack
    BY <1>1 DEF WalkType
  <2> HIDE DEF v
  <2>3. StreamsOK(v)
    BY <1>1, <2>2 DEF StreamsOK
  <2> QED
    BY <1>1, <2>1, <2>2, <2>3, ContinueSound, OwnStep
<1>3. CASE walk' = Fail(walk) /\ (~Present(walk.at) \/ walk.at \in Faulty)
  <2>1. Cause(walk)
    BY <1>1, <1>3 DEF Accounted, Cause
  <2> QED
    BY <1>1, <1>3, <2>1, FailSound, OwnStep
<1>4. CASE walk' = [walk EXCEPT !.pc = "reading",
                                !.stack = Append(@, Frame(walk.at))]
  <2> DEFINE stack == Append(walk.stack, Frame(walk.at))
             v == [walk EXCEPT !.pc = "reading", !.stack = stack]
  <2>1. walk' = v
    BY <1>1, <1>4 DEF WalkType
  <2>2. /\ Frame(walk.at) \in FrameType
        /\ \A n \in Frame(walk.at).may : Present(n)
    BY <1>1, NewFrame DEF WalkType
  <2>3. walk.stack \in Seq(FrameType)
    BY <1>1 DEF WalkType, Stacks
  <2>4. /\ stack \in Seq(FrameType)
        /\ Len(stack) = Len(walk.stack) + 1
        /\ \A i \in 1..Len(walk.stack) : stack[i] = walk.stack[i]
        /\ stack[Len(walk.stack) + 1] = Frame(walk.at)
    BY <2>2, <2>3, AppendProperties
  <2>5. Len(walk.stack) \in Nat
    BY <2>3
  <2> HIDE DEF stack
  <2>6. v \in WalkType /\ v.stack = stack /\ v.pc = "reading"
    BY <1>1, <2>4 DEF WalkType, Stacks
  <2> HIDE DEF v
  <2>7. StreamsOK(v)
    <3> SUFFICES ASSUME NEW i \in 1..Len(stack), NEW n \in stack[i].may
                 PROVE  Accounted(n)
      BY <2>6 DEF StreamsOK
    <3>1. CASE i \in 1..Len(walk.stack)
      BY <1>1, <2>4, <3>1 DEF StreamsOK
    <3>2. CASE i = Len(walk.stack) + 1
      BY <2>2, <2>4, <3>2 DEF Accounted
    <3> QED
      BY <2>4, <2>5, <3>1, <3>2
  <2>8. stack # <<>>
    BY <2>4, <2>5
  <2> QED
    BY <1>1, <2>1, <2>6, <2>7, <2>8, OwnStep
       DEF Sound, AtOK, PhaseOK, FailOK, Pending
<1> QED
  BY <1>2, <1>3, <1>4 DEF Open

LEMMA SearchSound ==
    ASSUME NEW w \in WalkType, w.kind \in Kinds, StreamsOK(w), NEW n \in Nodes,
           NEW hits \in Nat
    PROVE  Sound(Search(w, n, hits))
<1> DEFINE told == [w EXCEPT !.count = @ + hits, !.found = @ \cup {n}]
<1>1. CASE hits = 0
  BY <1>1, ContinueSound DEF Search
<1>2. CASE hits # 0
  <2> DEFINE c == w.count + hits
             f == w.found \cup {n}
             t == [w EXCEPT !.count = c, !.found = f]
  <2>1. c \in Nat /\ f \in SUBSET Nodes /\ told = t
    BY DEF WalkType
  <2>2. t \in WalkType /\ t.stack = w.stack /\ t.kind = w.kind
    <3> HIDE DEF c, f
    <3> QED BY <2>1 DEF WalkType
  <2> HIDE DEF t
  <2>3. Limit[w.kind] \in Nat
    BY TreeAssumption
  <2>4. [t EXCEPT !.count = Limit[w.kind]] \in WalkType
    BY <2>2, <2>3 DEF WalkType
  <2>5. Search(w, n, hits) \in
          {Continue(t), CutShort([t EXCEPT !.count = Limit[w.kind]])}
    BY <1>2, <2>1, <2>2 DEF Search
  <2>6. StreamsOK(t)
    BY <2>2 DEF StreamsOK
  <2> QED
    BY <2>2, <2>4, <2>5, <2>6, ContinueSound, CutShortSound
<1> QED
  BY <1>1, <1>2

LEMMA ReadStep ==
    ASSUME WalkInv, Read
    PROVE  WalkInv'
<1>1. /\ walk \in WalkType /\ StreamsOK(walk) /\ walk.pc = "read"
      /\ Accounted(walk.at) /\ walk.at \in Nodes /\ walk.kind \in Kinds
      /\ tree[walk.at] = "link" => walk.at \in lost
      /\ walk.at # Root /\ UNCHANGED <<tree, steady, lost, changes>>
  BY TreeAssumption DEF WalkInv, Sound, AtOK, PhaseOK, Pending, Read
<1>2. PICK content \in Reading(walk.at) :
        walk' = CASE content \in {"none", "sealed"} /\ walk.kind = "search" ->
                       Fail(walk)
                  [] content \in Texts -> Search(walk, walk.at, Hits[content])
                  [] OTHER -> Continue(walk)
  BY DEF Read
<1>3. CASE content \in {"none", "sealed"} /\ walk.kind = "search"
  <2>1. content \notin Texts
    BY <1>3, TreeAssumption
  <2>2. walk' = Fail(walk)
    BY <1>2, <1>3, <2>1
  <2>3. CASE tree[walk.at] = "link"
    BY <1>1, <2>2, <2>3, FailSound, OwnStep DEF Cause
  <2>4. CASE tree[walk.at] # "link"
    <3>1. tree[walk.at] = content
      BY <2>4 DEF Reading
    <3>2. Cause(walk)
      BY <1>1, <1>3, <3>1 DEF Accounted, Present, Cause, Metadata
    <3> QED
      BY <1>1, <2>2, <3>2, FailSound, OwnStep
  <2> QED
    BY <2>3, <2>4
<1>4. CASE content \in Texts
  <2>1. content \notin {"none", "sealed"} /\ Hits[content] \in Nat
    BY <1>4, TreeAssumption
  <2>2. walk' = Search(walk, walk.at, Hits[content])
    BY <1>2, <1>4, <2>1
  <2> QED
    BY <1>1, <2>1, <2>2, SearchSound, OwnStep
<1>5. CASE /\ content \notin Texts
           /\ ~(content \in {"none", "sealed"} /\ walk.kind = "search")
  <2>1. walk' = Continue(walk)
    BY <1>2, <1>5
  <2> QED
    BY <1>1, <2>1, ContinueSound, OwnStep
<1> QED
  BY <1>3, <1>4, <1>5

(* What is removed is lost, and what appears in a stream is there.         *)
LEMMA ChangeStep ==
    ASSUME WalkInv, NEW n \in Nodes, NEW content \in Contents(n),
           Change(n, content)
    PROVE  WalkInv'
<1>1. /\ walk \in WalkType /\ StreamsOK(walk) /\ AtOK(walk) /\ PhaseOK(walk)
      /\ walk.pc \in {"look", "open", "read", "reading"} /\ TypeInv
  BY DEF WalkInv, Sound, Change
<1>2. /\ tree' \in [Nodes -> UNION {Contents(m) : m \in Nodes}]
      /\ \A m \in Nodes : tree'[m] = IF m = n THEN content ELSE tree[m]
  BY <1>1, ContentsOfNames DEF Change, TypeInv
<1>3. /\ \A m \in Nodes : tree'[m] \in Contents(m)
      /\ steady' \subseteq Nodes /\ lost' \subseteq Nodes \ steady'
  BY <1>1, <1>2 DEF Change, TypeInv, TypeOK
<1>4. changes' \in 0..ChangeBound
  BY <1>1, TreeAssumption DEF Change, TypeInv, TypeOK
<1>5. \A m \in Nodes \cup {Root} : Accounted(m) => Accounted(m)'
  BY <1>2 DEF Accounted, Present, Change
<1>6. tree[n] = "none" => Accounted(n)'
  BY <1>2 DEF Accounted, Present, Change
<1>7. \/ walk' = walk
      \/ walk' = [walk EXCEPT !.stack = [i \in DOMAIN @ |-> Seen(@[i], n)]]
  BY DEF Change
<1>8. walk.pc = "read" => (tree'[walk.at] = "link" => walk.at \in lost')
  <2> SUFFICES ASSUME walk.pc = "read", tree'[walk.at] = "link"
               PROVE  walk.at \in lost'
    OBVIOUS
  <2>1. /\ walk.at \in Nodes /\ walk.at # Root /\ Accounted(walk.at)
        /\ tree[walk.at] = "link" => walk.at \in lost
    BY <1>1, TreeAssumption DEF PhaseOK, AtOK, Pending
  <2>2. tree[walk.at] = "none" => walk.at \in lost
    BY <2>1 DEF Accounted, Present
  <2>3. lost \subseteq lost'
    BY DEF Change
  <2>4. CASE walk.at # n
    BY <1>2, <2>1, <2>3, <2>4
  <2>5. CASE walk.at = n
    BY <1>2, <2>1, <2>2, <2>3, <2>5 DEF Change
  <2> QED
    BY <2>4, <2>5
<1>9. CASE walk' = walk
  <2>1. StreamsOK(walk)' /\ AtOK(walk)' /\ PhaseOK(walk)' /\ FailOK(walk)'
    <3>1. \A i \in 1..Len(walk.stack) : walk.stack[i].may \subseteq Nodes
      <4>1. \A i \in 1..Len(walk.stack) : walk.stack[i] \in FrameType
        BY <1>1 DEF WalkType, Stacks
      <4> QED
        BY <4>1 DEF FrameType
    <3> QED
      BY <1>1, <1>5, <1>9, <1>8, <3>1
         DEF StreamsOK, AtOK, PhaseOK, FailOK, Pending, WalkType, Kinds
  <2> QED
    BY <1>1, <1>2, <1>3, <1>4, <1>9, <2>1
       DEF WalkInv, TypeInv, TypeOK, Sound, Contents, Texts, WalkType, Stacks,
           FrameType, Kinds
<1>10. CASE walk' = [walk EXCEPT !.stack = [i \in DOMAIN @ |-> Seen(@[i], n)]]
  <2> DEFINE s == [i \in DOMAIN walk.stack |-> Seen(walk.stack[i], n)]
  <2>1. /\ walk.stack \in Seq(FrameType) /\ Len(walk.stack) \in Nat
        /\ DOMAIN walk.stack = 1..Len(walk.stack)
        /\ \A i \in 1..Len(walk.stack) : walk.stack[i] \in FrameType
    BY <1>1 DEF WalkType, Stacks
  <2>2. \A i \in 1..Len(walk.stack) :
          /\ Seen(walk.stack[i], n) \in FrameType
          /\ Seen(walk.stack[i], n).may \subseteq walk.stack[i].may \cup {n}
          /\ tree[n] # "none" => Seen(walk.stack[i], n).may = walk.stack[i].may
    BY <2>1, SeenFrame
  <2>3. /\ s \in [1..Len(walk.stack) -> FrameType]
        /\ \A i \in 1..Len(walk.stack) :
             /\ s[i].may \subseteq walk.stack[i].may \cup {n}
             /\ tree[n] # "none" => s[i].may = walk.stack[i].may
    BY <2>1, <2>2
  <2> HIDE DEF s
  <2>4. s \in Stacks /\ Len(s) = Len(walk.stack)
    <3>1. s \in Seq(FrameType)
      BY <2>1, <2>3, SeqDef
    <3> QED
      BY <2>1, <2>3, <3>1 DEF Stacks
  <2>5. walk' = [walk EXCEPT !.stack = s]
    BY <1>10 DEF s
  <2>6. /\ walk' \in WalkType /\ walk'.stack = s /\ walk'.pc = walk.pc
        /\ walk'.at = walk.at /\ walk'.kind = walk.kind
    BY <1>1, <2>4, <2>5 DEF WalkType
  <2>7. StreamsOK(walk)'
    <3> SUFFICES ASSUME NEW i \in 1..Len(s), NEW m \in s[i].may
                 PROVE  Accounted(m)'
      BY <2>6 DEF StreamsOK
    <3>1. i \in 1..Len(walk.stack) /\ m \in Nodes
      BY <2>3, <2>4 DEF FrameType
    <3>2. CASE m \in walk.stack[i].may
      BY <1>1, <1>5, <3>1, <3>2 DEF StreamsOK
    <3>3. CASE m \notin walk.stack[i].may
      BY <1>6, <2>3, <3>1, <3>3
    <3> QED
      BY <3>2, <3>3
  <2>8. AtOK(walk)' /\ FailOK(walk)'
    BY <1>1, <1>5, <2>6 DEF AtOK, FailOK, Pending, WalkType
  <2>9. PhaseOK(walk)'
    <3>1. walk.stack # <<>> => s # <<>>
      BY <2>1, <2>4
    <3> QED
      BY <1>1, <1>8, <2>6, <3>1 DEF PhaseOK, Kinds
  <2> QED
    BY <1>2, <1>3, <1>4, <2>6, <2>7, <2>8, <2>9
       DEF WalkInv, TypeInv, TypeOK, Sound, Contents, Texts, WalkType, Stacks,
           FrameType, Kinds
<1> QED
  BY <1>7, <1>9, <1>10

-----------------------------------------------------------------------------
LEMMA InitWalk ==
    ASSUME Init
    PROVE  WalkInv
<1>1. walk \in WalkType /\ walk.pc = "idle" /\ walk.stack = <<>>
  BY EmptyStack, TreeAssumption DEF Init, NoWalk, WalkType
<1>2. TypeInv
  BY <1>1, TreeAssumption DEF Init, TypeInv, TypeOK
<1> QED
  BY <1>1, <1>2 DEF WalkInv, Sound, StreamsOK, AtOK, PhaseOK, FailOK, Pending

LEMMA NextWalk ==
    ASSUME WalkInv, [Next]_vars
    PROVE  WalkInv'
<1>1. CASE UNCHANGED vars
  BY <1>1 DEF vars, WalkInv, TypeInv, TypeOK, Sound, StreamsOK, AtOK, PhaseOK,
              FailOK, Cause, Metadata, Top, Accounted, Present, WalkType, Stacks,
              FrameType, Kinds, Contents, Texts
<1>2. ASSUME NEW n \in Nodes, NEW content \in Contents(n), Change(n, content)
      PROVE  WalkInv'
  BY <1>2, ChangeStep
<1>3. CASE Entry
  BY <1>3, EntryStep DEF Entry
<1> QED
  BY <1>1, <1>2, <1>3, RequestStep, EndStep, StreamStep, LookStep, OpenStep,
     ReadStep DEF Next

THEOREM WalkInvariant == Spec => []WalkInv
<1> QED
  BY InitWalk, NextWalk, PTL DEF Spec

(* Every variable has its type.                                            *)
THEOREM TypeCorrect == Spec => []TypeOK
<1>1. WalkInv => TypeOK
  BY DEF WalkInv, TypeInv
<1> QED
  BY <1>1, WalkInvariant, PTL

(* Whatever the tree and whoever changes it, a search, a summary, a map or *)
(* a listing fails only where something was removed or replaced by a link  *)
(* while it was under way, where the system fails, or, a search, at a file *)
(* that cannot be read (fs.rs:348-370, bonus.rs:280-286, repo_map.rs:45,   *)
(* code_tools.rs:93).                                                      *)
THEOREM FailsForCause == Spec => []FailsOnlyForCause
<1>1. WalkInv => FailsOnlyForCause
  BY DEF WalkInv, Sound, FailOK, Cause, FailsOnlyForCause
<1> QED
  BY <1>1, WalkInvariant, PTL
-----------------------------------------------------------------------------
(* The tree.  Above is computed from the root down; names are in no loop,  *)
(* which gives induction from directories to what is in them.              *)

(* What holds of the root and, with a directory, of what is in it.         *)
LEMMA Descent ==
    ASSUME NEW T, Root \in T, \A n \in Nodes : Parent[n] \in T => n \in T
    PROVE  Nodes \cup {Root} \subseteq T
<1> SUFFICES ASSUME Nodes \ T # {} PROVE FALSE
  OBVIOUS
<1>1. PICK n \in Nodes \ T : Parent[n] \notin Nodes \ T
  <2>1. Nodes \ T \in (SUBSET Nodes) \ {{}}
    OBVIOUS
  <2> QED BY <2>1, TreeAssumption
<1>2. Parent[n] \in T
  BY <1>1, TreeAssumption
<1> QED BY <1>1, <1>2

Places == Nodes \cup {Root}

(* The smallest set with n and the directories of its names.               *)
Closed(S) == \A k \in S \ {Root} : Parent[k] \in S

Least(n) == {m \in Places : \A S \in SUBSET Places : n \in S /\ Closed(S) => m \in S}

LEMMA ParentType == \A n \in Nodes : n # Root /\ Parent[n] \in Places
BY TreeAssumption DEF Places

LEMMA LeastStep ==
    ASSUME NEW n \in Nodes
    PROVE  Least(n) = {n} \cup Least(Parent[n])
<1>1. n \in Places /\ n # Root /\ Parent[n] \in Places
  BY ParentType DEF Places
<1>2. Least(Parent[n]) \subseteq Least(n)
  BY <1>1 DEF Least, Closed
<1>3. n \in Least(n)
  BY <1>1 DEF Least
<1>4. ASSUME NEW m \in Least(n), m # n
      PROVE  m \in Least(Parent[n])
  <2>1. SUFFICES ASSUME NEW S \in SUBSET Places, Parent[n] \in S, Closed(S)
                 PROVE  m \in S
    BY <1>4 DEF Least
  <2>2. S \cup {n} \in SUBSET Places /\ Closed(S \cup {n})
    BY <1>1, <2>1 DEF Closed
  <2>3. m \in S \cup {n}
    BY <1>4, <2>2 DEF Least
  <2> QED BY <1>4, <2>3
<1> QED BY <1>2, <1>3, <1>4

LEMMA LeastRoot == Least(Root) = {Root}
<1>1. Root \in Places /\ {Root} \in SUBSET Places /\ Closed({Root})
  BY DEF Places, Closed
<1> QED BY <1>1 DEF Least

(* The directories of a name, one after the other.                         *)
LEMMA AboveStep ==
    /\ Above[Root] = {Root}
    /\ \A n \in Nodes : Above[n] = {n} \cup Above[Parent[n]]
<1> DEFINE P(f) == f = [n \in Nodes \cup {Root} |->
                          IF n = Root THEN {Root} ELSE {n} \cup f[Parent[n]]]
           g == [n \in Nodes \cup {Root} |-> Least(n)]
<1>1. P(g)
  <2>1. \A n \in Nodes \cup {Root} :
           Least(n) = IF n = Root THEN {Root} ELSE {n} \cup g[Parent[n]]
    BY LeastStep, LeastRoot, ParentType DEF Places
  <2> QED BY <2>1
<1>2. Above = CHOOSE f : P(f)
  BY DEF Above
<1> HIDE DEF g
<1>3. P(Above)
  <2> HIDE DEF P
  <2> QED BY <1>1, <1>2
<1>4. ASSUME NEW n \in Nodes \cup {Root}
      PROVE  Above[n] = IF n = Root THEN {Root} ELSE {n} \cup Above[Parent[n]]
  BY <1>3
<1> QED BY <1>4, ParentType

LEMMA AboveType ==
    ASSUME NEW n \in Places
    PROVE  /\ Above[n] \subseteq Places /\ n \in Above[n] /\ Root \in Above[n]
           /\ IsFiniteSet(Above[n])
<1> DEFINE T == {k \in Places : /\ Above[k] \subseteq Places /\ k \in Above[k]
                                /\ Root \in Above[k]}
<1>1. Root \in T
  BY AboveStep DEF Places
<1>2. ASSUME NEW k \in Nodes, Parent[k] \in T PROVE k \in T
  BY <1>2, AboveStep DEF Places
<1>3. IsFiniteSet(Places)
  BY TreeAssumption, FS_AddElement DEF Places
<1>4. n \in T
  <2> HIDE DEF T
  <2> QED BY <1>1, <1>2, Descent DEF Places
<1> QED BY <1>3, <1>4, FS_Subset

(* What is above a directory of a name is above the name.                  *)
LEMMA AboveAbove ==
    ASSUME NEW n \in Places, NEW m \in Above[n]
    PROVE  m \in Places /\ Above[m] \subseteq Above[n]
<1> DEFINE T == {k \in Places : \A a \in Above[k] : Above[a] \subseteq Above[k]}
<1>1. Root \in T
  BY AboveStep DEF Places
<1>2. ASSUME NEW k \in Nodes, Parent[k] \in T PROVE k \in T
  BY <1>2, AboveStep DEF Places
<1>3. n \in T
  <2> HIDE DEF T
  <2> QED BY <1>1, <1>2, Descent DEF Places
<1> QED BY <1>3, AboveType

(* No name is above the directory it is in.                                *)
LEMMA NoLoop ==
    ASSUME NEW n \in Nodes
    PROVE  n \notin Above[Parent[n]]
<1> DEFINE S == {k \in Nodes : k \in Above[Parent[k]]}
<1> SUFFICES ASSUME S # {} PROVE FALSE
  OBVIOUS
<1>1. PICK k \in S : Parent[k] \notin S
  <2>1. S \in (SUBSET Nodes) \ {{}}
    OBVIOUS
  <2> HIDE DEF S
  <2> QED BY <2>1, TreeAssumption
<1>2. PICK p \in Places : p = Parent[k]
  BY <1>1, ParentType
<1>3. k \in Nodes /\ k \in Above[p] /\ k # Root
  BY <1>1, <1>2, ParentType
<1>4. p \in Nodes
  BY <1>3, AboveStep DEF Places
<1>5. p \notin Above[Parent[p]]
  BY <1>1, <1>2, <1>4
<1>6. k # p
  BY <1>1, <1>2
<1>7. k \in Above[Parent[p]] /\ Parent[p] \in Places
  BY <1>3, <1>4, <1>6, AboveStep, ParentType
<1>8. p \in Above[k]
  BY <1>2, <1>3, AboveStep, AboveType
<1> QED BY <1>5, <1>7, <1>8, AboveAbove

(* Between a directory and a name in it, at any depth, is the entry of the *)
(* directory that leads there.                                             *)
LEMMA EntryBetween ==
    ASSUME NEW n \in Places, NEW a \in Above[n], a # n
    PROVE  \E m \in Above[n] \cap Nodes : Parent[m] = a
<1> DEFINE T == {k \in Places : \A b \in Above[k] : b # k =>
                   \E m \in Above[k] \cap Nodes : Parent[m] = b}
<1>1. Root \in T
  BY AboveStep DEF Places
<1>2. ASSUME NEW k \in Nodes, Parent[k] \in T PROVE k \in T
  <2> SUFFICES ASSUME NEW b \in Above[k], b # k
               PROVE  \E m \in Above[k] \cap Nodes : Parent[m] = b
    BY DEF Places
  <2>1. b \in Above[Parent[k]] /\ Above[Parent[k]] \subseteq Above[k] /\ k \in Above[k]
    BY AboveStep
  <2>2. CASE b = Parent[k]
    BY <2>1, <2>2
  <2>3. CASE b # Parent[k]
    BY <1>2, <2>1, <2>3
  <2> QED BY <2>2, <2>3
<1>3. n \in T
  <2> HIDE DEF T
  <2> QED BY <1>1, <1>2, Descent DEF Places
<1> QED BY <1>3

(* Two that are above one name are above each other.                       *)
LEMMA AboveIsChain ==
    ASSUME NEW n \in Places, NEW a \in Above[n], NEW b \in Above[n]
    PROVE  a \in Above[b] \/ b \in Above[a]
<1> DEFINE T == {k \in Places :
                   \A c, d \in Above[k] : c \in Above[d] \/ d \in Above[c]}
<1>1. Root \in T
  BY AboveStep DEF Places
<1>2. ASSUME NEW k \in Nodes, Parent[k] \in T PROVE k \in T
  <2> SUFFICES ASSUME NEW c \in Above[k], NEW d \in Above[k]
               PROVE  c \in Above[d] \/ d \in Above[c]
    BY DEF Places
  <2>1. Above[k] = {k} \cup Above[Parent[k]]
    BY AboveStep
  <2> QED BY <1>2, <2>1
<1>3. n \in T
  <2> HIDE DEF T
  <2> QED BY <1>1, <1>2, Descent DEF Places
<1> QED BY <1>3

(* Only directories have something in them.                                *)
LEMMA AboveIsDirectory ==
    ASSUME NEW n \in Places, NEW a \in Above[n] \cap Nodes, a # n
    PROVE  Forms[a] = {"dir"}
<1>1. PICK m \in Nodes : Parent[m] = a
  BY EntryBetween
<1> QED BY <1>1, TreeAssumption
-----------------------------------------------------------------------------
(* Sums over finite sets.                                                  *)

(* The least number of a set; what follows is induction with it.           *)
LEMMA LeastNumber ==
    ASSUME NEW T \in SUBSET Nat, T # {}
    PROVE  \E n \in T : \A m \in T : n <= m
<1>1. PICK n \in T : \A m \in T : ~(<<m, n>> \in OpToRel(<, Nat))
  BY NatLessThanWellFounded, WFMin
<1>2. \A m \in T : ~(m < n)
  BY <1>1 DEF OpToRel
<1> QED BY <1>2

(* A set with 0 and with the successor of each of its numbers has them all.*)
LEMMA Induction ==
    ASSUME NEW T, 0 \in T, \A n \in Nat : n \in T => n + 1 \in T
    PROVE  Nat \subseteq T
<1> SUFFICES ASSUME Nat \ T # {} PROVE FALSE
  OBVIOUS
<1>1. PICK n \in Nat \ T : \A m \in Nat \ T : n <= m
  BY LeastNumber
<1>2. n # 0 /\ n - 1 \in Nat
  BY <1>1
<1>3. n - 1 \in T
  BY <1>1, <1>2
<1> QED BY <1>1, <1>2, <1>3

(* The element that MapThenSumSet takes first.                             *)
Pick(s) == CHOOSE x \in s : TRUE

LEMMA Picked == ASSUME NEW s, s # {} PROVE Pick(s) \in s
BY DEF Pick

(* it adds the numbers f[x] over each subset of S, as MapThenSumSet does.  *)
IsSum(it, f, S) ==
    it = [s \in SUBSET S |-> IF s = {} THEN 0
                                       ELSE f[Pick(s)] + it[s \ {Pick(s)}]]

(* Taking the element that is picked away leaves a smaller set.            *)
LEMMA Smaller ==
    ASSUME NEW S, IsFiniteSet(S), NEW s \in SUBSET S, s # {}
    PROVE  /\ Pick(s) \in s /\ s \ {Pick(s)} \in SUBSET S
           /\ IsFiniteSet(s) /\ Cardinality(s) \in Nat
           /\ Cardinality(s \ {Pick(s)}) = Cardinality(s) - 1
<1>1. IsFiniteSet(s)
  BY FS_Subset
<1> QED
  BY <1>1, Picked, FS_RemoveElement, FS_CardinalityType

(* There is such a function, over every finite set.                       *)
LEMMA SumExists ==
    ASSUME NEW S, IsFiniteSet(S), NEW f, \A x \in S : f[x] \in Nat
    PROVE  \E it : IsSum(it, f, S)
<1> DEFINE Level(n) == {s \in SUBSET S : Cardinality(s) <= n}
           Part(it, n) ==
             /\ it \in [Level(n) -> Nat]
             /\ \A s \in Level(n) :
                  it[s] = IF s = {} THEN 0 ELSE f[Pick(s)] + it[s \ {Pick(s)}]
           T == {n \in Nat : \E it : Part(it, n)}
<1>1. 0 \in T
  <2> DEFINE it == [s \in Level(0) |-> 0]
  <2>1. \A s \in Level(0) : s = {}
    <3> SUFFICES ASSUME NEW s \in Level(0), s # {} PROVE FALSE
      OBVIOUS
    <3>1. Cardinality(s) \in Nat /\ Cardinality(s \ {Pick(s)}) \in Nat
          /\ Cardinality(s \ {Pick(s)}) = Cardinality(s) - 1
      BY Smaller, FS_Subset, FS_CardinalityType
    <3> QED BY <3>1
  <2>2. Part(it, 0)
    BY <2>1
  <2> QED BY <2>2
<1>2. ASSUME NEW n \in Nat, n \in T
      PROVE  n + 1 \in T
  <2>1. PICK it : Part(it, n)
    BY <1>2
  <2> DEFINE value(s) == IF s = {} THEN 0 ELSE f[Pick(s)] + it[s \ {Pick(s)}]
             jt == [s \in Level(n + 1) |-> value(s)]
  <2>2. ASSUME NEW s \in Level(n + 1), s # {}
        PROVE  s \ {Pick(s)} \in Level(n) /\ Pick(s) \in S
    BY <2>2, Smaller
  <2>3. \A s \in Level(n + 1) : value(s) \in Nat
    BY <2>1, <2>2
  <2>4. \A s \in Level(n) : s \in Level(n + 1) /\ it[s] = value(s)
    <3>1. \A s \in Level(n) : Cardinality(s) \in Nat
      BY FS_Subset, FS_CardinalityType
    <3> QED BY <2>1, <3>1
  <2>5. \A s \in Level(n) : jt[s] = it[s]
    BY <2>4
  <2>6. \A s \in Level(n + 1) :
           jt[s] = IF s = {} THEN 0 ELSE f[Pick(s)] + jt[s \ {Pick(s)}]
    BY <2>2, <2>5
  <2>7. Part(jt, n + 1)
    <3>1. jt \in [Level(n + 1) -> Nat]
      BY <2>3
    <3> HIDE DEF jt, Level
    <3> QED BY <2>6, <3>1
  <2> HIDE DEF Part
  <2> QED BY <2>7
<1> HIDE DEF T
<1>3. Cardinality(S) \in T
  BY <1>1, <1>2, Induction, FS_CardinalityType
<1>4. PICK it : Part(it, Cardinality(S))
  BY <1>3 DEF T
<1>5. Level(Cardinality(S)) = SUBSET S
  BY FS_Subset
<1>6. IsSum(it, f, S)
  BY <1>4, <1>5 DEF IsSum
<1> QED BY <1>6

(* Two sums agree wherever their numbers do.                               *)
LEMMA SumsAgree ==
    ASSUME NEW S, NEW U, NEW f, NEW g, NEW it, NEW jt,
           IsSum(it, f, S), IsSum(jt, g, U),
           NEW V, IsFiniteSet(V), V \subseteq S, V \subseteq U,
           \A x \in V : f[x] \in Nat /\ g[x] = f[x]
    PROVE  \A s \in SUBSET V : it[s] \in Nat /\ jt[s] = it[s]
<1> DEFINE T == {n \in Nat : \A s \in SUBSET V : Cardinality(s) = n =>
                                it[s] \in Nat /\ jt[s] = it[s]}
<1>0. \A s \in SUBSET V :
        /\ it[s] = IF s = {} THEN 0 ELSE f[Pick(s)] + it[s \ {Pick(s)}]
        /\ jt[s] = IF s = {} THEN 0 ELSE g[Pick(s)] + jt[s \ {Pick(s)}]
  <2>1. \A s \in SUBSET S :
          it[s] = IF s = {} THEN 0 ELSE f[Pick(s)] + it[s \ {Pick(s)}]
    BY DEF IsSum
  <2>2. \A s \in SUBSET U :
          jt[s] = IF s = {} THEN 0 ELSE g[Pick(s)] + jt[s \ {Pick(s)}]
    BY DEF IsSum
  <2> QED BY <2>1, <2>2
<1>1. \A s \in SUBSET V : s # {} =>
        /\ Pick(s) \in V /\ s \ {Pick(s)} \in SUBSET V
        /\ Cardinality(s) \in Nat /\ Cardinality(s \ {Pick(s)}) = Cardinality(s) - 1
        /\ Cardinality(s) # 0
  <2> SUFFICES ASSUME NEW s \in SUBSET V, s # {}
               PROVE  /\ Pick(s) \in V /\ s \ {Pick(s)} \in SUBSET V
                      /\ Cardinality(s) \in Nat
                      /\ Cardinality(s \ {Pick(s)}) = Cardinality(s) - 1
                      /\ Cardinality(s) # 0
    OBVIOUS
  <2>1. /\ Pick(s) \in s /\ s \ {Pick(s)} \in SUBSET V
        /\ Cardinality(s) \in Nat
        /\ Cardinality(s \ {Pick(s)}) = Cardinality(s) - 1
    BY Smaller
  <2>2. Cardinality(s \ {Pick(s)}) \in Nat
    BY <2>1, FS_Subset, FS_CardinalityType
  <2> QED BY <2>1, <2>2
<1>2. 0 \in T
  <2>1. \A s \in SUBSET V : Cardinality(s) = 0 => s = {}
    BY <1>1
  <2>2. it[{}] = 0 /\ jt[{}] = 0
    BY <1>0
  <2> QED BY <2>1, <2>2
<1>3. ASSUME NEW n \in Nat, n \in T
      PROVE  n + 1 \in T
  <2> SUFFICES ASSUME NEW s \in SUBSET V, Cardinality(s) = n + 1, s # {}
               PROVE  it[s] \in Nat /\ jt[s] = it[s]
    BY <1>0
  <2> DEFINE t == s \ {Pick(s)}
  <2>1. t \in SUBSET V /\ Cardinality(t) = n
    BY <1>1
  <2>2. it[t] \in Nat /\ jt[t] = it[t]
    BY <1>3, <2>1
  <2>3. /\ it[s] = f[Pick(s)] + it[t] /\ jt[s] = g[Pick(s)] + jt[t]
        /\ f[Pick(s)] \in Nat /\ g[Pick(s)] = f[Pick(s)]
    BY <1>0, <1>1
  <2> HIDE DEF t
  <2> QED BY <2>2, <2>3
<1> HIDE DEF T
<1>4. \A s \in SUBSET V : Cardinality(s) \in T
  BY <1>2, <1>3, Induction, FS_Subset, FS_CardinalityType
<1> QED BY <1>4 DEF T

(* Which element is picked does not matter: any other one adds its number. *)
LEMMA SumInsert ==
    ASSUME NEW S, IsFiniteSet(S), NEW f, \A x \in S : f[x] \in Nat,
           NEW it, IsSum(it, f, S)
    PROVE  \A s \in SUBSET S : \A x \in S \ s : it[s \cup {x}] = it[s] + f[x]
<1> DEFINE T == {n \in Nat : \A s \in SUBSET S : Cardinality(s) = n =>
                   \A x \in S \ s : it[s \cup {x}] = it[s] + f[x]}
<1>0. /\ \A s \in SUBSET S : it[s] \in Nat
      /\ \A s \in SUBSET S :
           it[s] = IF s = {} THEN 0 ELSE f[Pick(s)] + it[s \ {Pick(s)}]
  <2>1. \A s \in SUBSET S :
           it[s] = IF s = {} THEN 0 ELSE f[Pick(s)] + it[s \ {Pick(s)}]
    BY DEF IsSum
  <2>2. \A s \in SUBSET S : it[s] \in Nat
    BY SumsAgree
  <2> QED BY <2>1, <2>2
<1>2. ASSUME NEW n \in Nat, \A m \in 0..(n - 1) : m \in T
      PROVE  n \in T
  <2> SUFFICES ASSUME NEW s \in SUBSET S, Cardinality(s) = n, NEW x \in S \ s
               PROVE  it[s \cup {x}] = it[s] + f[x]
    OBVIOUS
  <2> DEFINE p == Pick(s \cup {x})
  <2>1. p \in s \cup {x} /\ s \cup {x} \in SUBSET S /\ s \cup {x} # {}
    BY Picked
  <2>2. it[s \cup {x}] = f[p] + it[(s \cup {x}) \ {p}]
    BY <1>0, <2>1
  <2> HIDE DEF p
  <2>3. CASE p = x
    <3>1. (s \cup {x}) \ {p} = s
      BY <2>3
    <3>2. it[s] \in Nat /\ f[x] \in Nat
      BY <1>0
    <3>3. it[s \cup {x}] = f[x] + it[s]
      BY <2>2, <2>3, <3>1
    <3> QED BY <3>2, <3>3
  <2>4. CASE p # x
    <3> DEFINE t == s \ {p}
    <3>1. /\ p \in s /\ t \in SUBSET S /\ p \in S \ t /\ x \in S \ t
          /\ (s \cup {x}) \ {p} = t \cup {x} /\ t \cup {p} = s
      BY <2>1, <2>4
    <3>2. IsFiniteSet(s) /\ IsFiniteSet(t)
      BY <3>1, FS_Subset
    <3>3. Cardinality(t) = n - 1 /\ Cardinality(t) \in Nat
      BY <3>1, <3>2, FS_RemoveElement, FS_CardinalityType
    <3> HIDE DEF t
    <3>4. n - 1 \in T
      BY <1>2, <3>3
    <3>5. it[t \cup {x}] = it[t] + f[x] /\ it[t \cup {p}] = it[t] + f[p]
      BY <3>1, <3>3, <3>4
    <3>6. it[t] \in Nat /\ f[x] \in Nat /\ f[p] \in Nat
      BY <1>0, <3>1
    <3> QED BY <2>2, <3>1, <3>5, <3>6
  <2> QED BY <2>3, <2>4
<1> HIDE DEF T
<1>3. \A n \in Nat : n \in T
  <2> DEFINE U == {n \in Nat : \A m \in 0..(n - 1) : m \in T}
  <2>1. 0 \in U
    OBVIOUS
  <2>2. ASSUME NEW n \in Nat, n \in U PROVE n + 1 \in U
    BY <1>2, <2>2
  <2> HIDE DEF U
  <2>3. Nat \subseteq U
    BY <2>1, <2>2, Induction
  <2> QED BY <1>2, <2>3 DEF U
<1>4. \A s \in SUBSET S : Cardinality(s) \in T
  BY <1>3, FS_Subset, FS_CardinalityType
<1> QED BY <1>4 DEF T

(* Elements with the number 0 add nothing.                                 *)
LEMMA SumOfRest ==
    ASSUME NEW S, IsFiniteSet(S), NEW f, \A x \in S : f[x] \in Nat,
           NEW it, IsSum(it, f, S), NEW s \in SUBSET S,
           \A x \in S \ s : f[x] = 0
    PROVE  it[S] = it[s]
<1> DEFINE Whole(u) == it[S] = it[u]
           T == {n \in Nat : \A u \in SUBSET S :
                   s \subseteq u => (Cardinality(S \ u) = n => Whole(u))}
<1>0. \A u \in SUBSET S : IsFiniteSet(S \ u) /\ Cardinality(S \ u) \in Nat
  BY FS_Subset, FS_CardinalityType
<1>1. 0 \in T
  <2>1. ASSUME NEW u \in SUBSET S, Cardinality(S \ u) = 0 PROVE u = S
    <3>1. S \ u = {}
      BY <1>0, <2>1, FS_EmptySet
    <3> QED BY <3>1
  <2> QED BY <2>1
<1>2. ASSUME NEW n \in Nat, n \in T
      PROVE  n + 1 \in T
  <2>0. ASSUME NEW u \in SUBSET S, s \subseteq u, Cardinality(S \ u) = n + 1
        PROVE  Whole(u)
    <3>1. PICK x \in S \ u : TRUE
      <4>1. Cardinality(S \ u) # 0 /\ Cardinality({}) = 0
        BY <2>0, FS_EmptySet
      <4> QED BY <4>1
    <3> DEFINE v == u \cup {x}
    <3>2. v \in SUBSET S /\ s \subseteq v /\ S \ v = (S \ u) \ {x}
      BY <2>0, <3>1
    <3>3. Cardinality((S \ u) \ {x}) = Cardinality(S \ u) - 1
      BY <1>0, <3>1, FS_RemoveElement
    <3>4. it[v] = it[u] + f[x] /\ f[x] = 0
      BY <2>0, <3>1, SumInsert
    <3>5. it[u] \in Nat
      BY SumsAgree
    <3>6. Cardinality(S \ v) = n
      BY <2>0, <3>2, <3>3
    <3> HIDE DEF v
    <3>7. it[S] = it[v]
      BY <1>2, <3>2, <3>6
    <3> QED BY <3>4, <3>5, <3>7
  <2> HIDE DEF Whole
  <2> QED BY <2>0
<1> HIDE DEF T, Whole
<1>3. Cardinality(S \ s) \in T
  BY <1>0, <1>1, <1>2, Induction
<1> QED BY <1>3 DEF T, Whole

(* The sum of the numbers that f has on a set of names.                    *)
Tally(f, S) == (CHOOSE it : IsSum(it, f, Nodes))[S]

LEMMA TallyFacts ==
    ASSUME NEW f, \A n \in Nodes : f[n] \in Nat
    PROVE  /\ Tally(f, {}) = 0
           /\ \A S \in SUBSET Nodes : Tally(f, S) \in Nat
           /\ \A S \in SUBSET Nodes : \A n \in Nodes \ S :
                Tally(f, S \cup {n}) = Tally(f, S) + f[n]
           /\ \A S \in SUBSET Nodes : (\A n \in Nodes \ S : f[n] = 0) =>
                Tally(f, Nodes) = Tally(f, S)
<1>1. IsFiniteSet(Nodes)
  BY TreeAssumption
<1>2. PICK it : it = (CHOOSE jt : IsSum(jt, f, Nodes))
  OBVIOUS
<1>3. IsSum(it, f, Nodes)
  BY <1>1, <1>2, SumExists
<1>4. \A S : Tally(f, S) = it[S]
  BY <1>2 DEF Tally
<1>5. it[{}] = 0
  BY <1>3 DEF IsSum
<1>6. \A S \in SUBSET Nodes : it[S] \in Nat
  BY <1>1, <1>3, SumsAgree
<1>7. ASSUME NEW S \in SUBSET Nodes, NEW n \in Nodes \ S
      PROVE  it[S \cup {n}] = it[S] + f[n]
  BY <1>1, <1>3, SumInsert
<1>8. \A S \in SUBSET Nodes : (\A n \in Nodes \ S : f[n] = 0) => it[Nodes] = it[S]
  BY <1>1, <1>3, SumOfRest
<1>9. \A S \in SUBSET Nodes : \A n \in Nodes \ S :
         Tally(f, S \cup {n}) = Tally(f, S) + f[n]
  <2>1. \A S, n : Tally(f, S \cup {n}) = it[S \cup {n}]
    BY <1>4
  <2> QED BY <1>4, <1>7, <2>1
<1>10. \A S \in SUBSET Nodes : (\A n \in Nodes \ S : f[n] = 0) =>
         Tally(f, Nodes) = Tally(f, S)
  BY <1>4, <1>8
<1> QED BY <1>4, <1>5, <1>6, <1>9, <1>10
-----------------------------------------------------------------------------
(* What a walk tells of a name, as AnswersAreWhole counts it.              *)

Told == [n \in Nodes |-> Weight(n)]

LEMMA ToldSum ==
    ASSUME \A n \in Nodes : Told[n] \in Nat
    PROVE  MapThenSumSet(Weight, Nodes) = Tally(Told, Nodes)
<1> DEFINE P(it) == it = [s \in SUBSET Nodes |->
                            IF s = {} THEN 0
                            ELSE Weight(CHOOSE x \in s : TRUE)
                                   + it[s \ {CHOOSE x \in s : TRUE}]]
<1>1. MapThenSumSet(Weight, Nodes) = (CHOOSE it : P(it))[Nodes]
  BY DEF MapThenSumSet, MapThenFoldSet
<1>2. ASSUME NEW it PROVE P(it) <=> IsSum(it, Told, Nodes)
  <2>1. \A s \in SUBSET Nodes : s # {} => Told[Pick(s)] = Weight(Pick(s))
    BY Picked DEF Told
  <2> QED BY <2>1 DEF IsSum, Pick
<1> HIDE DEF P
<1>3. IsFiniteSet(Nodes)
  BY TreeAssumption
<1>4. \E it : IsSum(it, Told, Nodes)
  BY <1>3, SumExists
<1>5. PICK it : P(it) /\ MapThenSumSet(Weight, Nodes) = it[Nodes]
  BY <1>1, <1>2, <1>4
<1>6. PICK jt : IsSum(jt, Told, Nodes) /\ Tally(Told, Nodes) = jt[Nodes]
  BY <1>4 DEF Tally
<1>7. \A s \in SUBSET Nodes : jt[s] = it[s]
  BY <1>2, <1>3, <1>5, <1>6, SumsAgree
<1> QED BY <1>5, <1>6, <1>7

LEMMA ToldType ==
    ASSUME TypeInv, walk.kind \in Kinds
    PROVE  \A n \in Nodes : Told[n] \in Nat
<1> SUFFICES ASSUME NEW n \in Nodes PROVE Weight(n) \in Nat
  BY DEF Told
<1>1. \A t \in Texts : Hits[t] \in Nat
  BY TreeAssumption
<1> QED BY <1>1 DEF Weight, Kinds

(* Only what is there and in the scope of the walk is told.                *)
LEMMA ToldOnly ==
    ASSUME NEW n \in Nodes, Told[n] > 0
    PROVE  /\ Present(n) /\ InScope(n)
           /\ walk.kind \in {"search", "references"} =>
                tree[n] \in Texts \ Large /\ Told[n] = Hits[tree[n]]
           /\ walk.kind = "map" => tree[n] \in Files
<1>1. Weight(n) > 0 /\ Told[n] = Weight(n)
  BY DEF Told
<1>2. Present(n) /\ InScope(n)
  <2>1. ASSUME ~Present(n) \/ ~InScope(n) PROVE Weight(n) = 0
    BY <2>1 DEF Weight
  <2> QED BY <1>1, <2>1
<1>3. CASE walk.kind \in {"search", "references"}
  <2>1. Weight(n) = IF tree[n] \in Texts \ Large THEN Hits[tree[n]] ELSE 0
    BY <1>2, <1>3 DEF Weight
  <2> QED BY <1>1, <1>2, <1>3, <2>1
<1>4. CASE walk.kind = "map"
  <2>1. Weight(n) = IF tree[n] \in Files THEN 1 ELSE 0
    BY <1>2, <1>4 DEF Weight
  <2> QED BY <1>1, <1>2, <1>4, <2>1
<1> QED BY <1>2, <1>3, <1>4
-----------------------------------------------------------------------------
(* What is still to come.                                                  *)

(* Whatever is there is in a directory that is there.                      *)
TreeOK == \A n \in Nodes : Present(n) => Present(Parent[n])

(* A name that the walk may meet in the directory it entered i-th.         *)
InPlace(x, i) ==
    /\ walk.target \in Above[x] /\ x \notin Above[walk.target]
    /\ walk.kind \in {"references", "map"} =>
         ((Above[x] \ {x}) \ Above[walk.target]) \cap Generated = {}
    /\ walk.kind = "summary" => Cardinality(Above[x] \ Above[walk.target]) = i
    /\ walk.kind = "list" => Parent[x] = walk.target

InFrame(frame, i) ==
    /\ \A x \in frame.may : InPlace(x, i)
    /\ \A x \in Children(frame.dir) : InPlace(x, i)
    /\ \A x \in frame.must : Parent[x] = frame.dir /\ Present(x)

FramesOK(w) ==
    /\ \A i \in 1..Len(w.stack) : InFrame(w.stack[i], i)
    /\ walk.kind = "summary" =>
         walk.target = Root /\ Len(w.stack) <= walk.depth + 1

(* A stream has yet to return the name, or a directory that leads to it.   *)
Coming(w, n) ==
    \E i \in 1..Len(w.stack) : w.stack[i].must \cap Above[n] # {}

(* In a tree that nobody changes a name is met once: nothing that a stream *)
(* may return is above another such name, or above what was told.          *)
Untold(w) ==
    /\ \A i, j \in 1..Len(w.stack) :
         \A x \in w.stack[i].may, y \in w.stack[j].may :
           x \in Above[y] => i = j /\ x = y
    /\ \A i \in 1..Len(w.stack) :
         \A x \in w.stack[i].may, y \in w.found : x \notin Above[y]

Exact(w) == w.count = Tally(Told, w.found) /\ Untold(w)

Counted == {"summary", "map"}

(* A walk between two entries.                                             *)
Settled(w) ==
    /\ FramesOK(w) /\ walk.kind \in Kinds
    /\ walk.kind \in Counted => w.count <= Limit[walk.kind]
    /\ w.truncated => /\ w.count = Limit[walk.kind]
                      /\ w.stack # <<>> => walk.kind = "summary"
    /\ ~w.truncated =>
         \A n \in steady : Told[n] > 0 => n \in w.found \/ Coming(w, n)
    /\ ~w.truncated /\ steady = Nodes => Exact(w)

(* Where the name is that the walk looks at, opens or reads.               *)
AtPlace(w) ==
    \/ /\ w.at = walk.target /\ w.stack = <<>>
       /\ w.pc = "look" => walk.kind # "list"
    \/ /\ w.at \in Nodes /\ InPlace(w.at, Len(w.stack))
       /\ w.pc = "open" => walk.kind # "list"
       /\ walk.kind \in {"references", "map"} => w.at \notin Generated

(* It is not told yet, unless it is a directory about to be opened.        *)
AtUntold(w) ==
    /\ \A i \in 1..Len(w.stack) : \A x \in w.stack[i].may :
         x \notin Above[w.at] /\ w.at \notin Above[x]
    /\ \A y \in w.found : w.at \in Above[y] => w.pc = "open" /\ y = w.at

(* It leads to the name.                                                   *)
Leads(w, n) == w.at \in Above[n] /\ (w.pc = "open" => w.at # n)

(* A walk that is busy with one entry.                                     *)
Busy(w) ==
    /\ FramesOK(w) /\ walk.kind \in Kinds /\ AtPlace(w) /\ ~w.truncated
    /\ walk.kind \in Counted => /\ w.count <= Limit[walk.kind]
                                /\ w.pc = "look" => w.count < Limit[walk.kind]
    /\ walk.kind = "summary" /\ w.pc = "open" => Len(w.stack) <= walk.depth
    /\ w.pc = "read" => /\ w.at \in Nodes /\ Forms[w.at] # {"dir"}
                        /\ walk.kind \in {"search", "references"}
                        /\ w.at \in steady => tree[w.at] \notin Large \cup {"link"}
    /\ \A n \in steady :
         Told[n] > 0 => n \in w.found \/ Coming(w, n) \/ Leads(w, n)
    /\ steady = Nodes => Exact(w) /\ AtUntold(w)

Kept(w) ==
    /\ w.pc \in {"reading", "done"} => Settled(w)
    /\ w.pc = "done" => w.stack = <<>>
    /\ w.pc \in Pending => Busy(w)

AnswerInv == WalkInv /\ TreeOK /\ Kept(walk)

(* The invariant says of an answer what it has to be.                      *)
LEMMA KeptIsWhole ==
    ASSUME AnswerInv
    PROVE  AnswersAreWhole
<1> SUFFICES ASSUME walk.pc = "done"
             PROVE  /\ ~walk.truncated =>
                         /\ \A n \in steady : Weight(n) > 0 => n \in walk.found
                         /\ steady = Nodes =>
                              walk.count = MapThenSumSet(Weight, Nodes)
                    /\ walk.truncated => walk.count = Limit[walk.kind]
  BY DEF AnswersAreWhole
<1>1. /\ Settled(walk) /\ walk.stack = <<>> /\ walk.kind \in Kinds /\ TypeInv
      /\ steady \subseteq Nodes /\ walk.found \in SUBSET Nodes
  BY DEF AnswerInv, Kept, Settled, WalkInv, TypeInv, TypeOK, WalkType
<1>2. \A n : ~Coming(walk, n)
  BY <1>1 DEF Coming
<1>3. \A n \in Nodes : Told[n] \in Nat
  BY <1>1, ToldType
<1>4. \A n \in Nodes : Told[n] = Weight(n)
  BY DEF Told
<1>5. ASSUME ~walk.truncated
      PROVE  \A n \in steady : Weight(n) > 0 => n \in walk.found
  BY <1>1, <1>2, <1>4, <1>5 DEF Settled
<1>6. ASSUME ~walk.truncated, steady = Nodes
      PROVE  walk.count = MapThenSumSet(Weight, Nodes)
  <2>1. \A n \in Nodes \ walk.found : Told[n] = 0
    BY <1>3, <1>4, <1>5, <1>6
  <2>2. Tally(Told, Nodes) = Tally(Told, walk.found)
    BY <1>1, <1>3, <2>1, TallyFacts
  <2>3. walk.count = Tally(Told, walk.found)
    BY <1>1, <1>6 DEF Settled, Exact
  <2> QED BY <1>3, <2>2, <2>3, ToldSum
<1> QED BY <1>1, <1>5, <1>6 DEF Settled

-----------------------------------------------------------------------------
(* Lemmas about the tree and the scope.                                    *)

LEMMA PresentAbove ==
    ASSUME TreeOK, NEW n \in Places, Present(n)
    PROVE  \A m \in Above[n] : Present(m)
<1> DEFINE T == {k \in Places : Present(k) => \A m \in Above[k] : Present(m)}
<1>1. Root \in T
  BY AboveStep DEF Places
<1>2. ASSUME NEW k \in Nodes, Parent[k] \in T PROVE k \in T
  BY <1>2, AboveStep DEF Places, TreeOK
<1>3. n \in T
  <2> HIDE DEF T
  <2> QED BY <1>1, <1>2, Descent DEF Places
<1> QED BY <1>3

LEMMA AboveOrder ==
    ASSUME NEW n \in Places, NEW a \in Above[n], a # n
    PROVE  n \in Nodes /\ a \in Above[Parent[n]] /\ n \notin Above[a]
<1>1. n \in Nodes
  BY AboveStep DEF Places
<1>2. a \in Above[Parent[n]] /\ Parent[n] \in Places
  BY <1>1, AboveStep, ParentType
<1>3. Above[a] \subseteq Above[Parent[n]]
  BY <1>2, AboveAbove
<1> QED BY <1>1, <1>2, <1>3, NoLoop

(* A name in the scope is below the target.                                *)
LEMMA ScopeBelow ==
    ASSUME NEW n \in Nodes, InScope(n), walk.kind \in Kinds,
           walk.kind = "summary" => walk.target = Root
    PROVE  walk.target \in Above[n]
<1>1. n \in Places /\ Parent[n] \in Places
  BY ParentType DEF Places
<1>2. Root \in Above[n]
  BY <1>1, AboveType
<1>3. Parent[n] \in Above[n]
  BY <1>1, AboveStep, AboveType
<1>4. CASE walk.kind = "summary"
  BY <1>2, <1>4
<1>5. CASE walk.kind = "list"
  <2>1. Parent[n] = walk.target
    BY <1>5 DEF InScope
  <2> QED BY <1>3, <2>1
<1>6. CASE walk.kind \in {"search", "references", "map"}
  BY <1>6 DEF InScope
<1> QED BY <1>4, <1>5, <1>6 DEF Kinds

(* The entries of a directory in its place are in theirs.                  *)
LEMMA ChildPlace ==
    ASSUME NEW w \in WalkType, w.pc = "open", AtPlace(w),
           walk.target \in Places, NEW x \in Children(w.at)
    PROVE  InPlace(x, Len(w.stack) + 1)
<1> DEFINE a == w.at
           t == walk.target
<1>1. /\ x \in Nodes /\ Parent[x] = a /\ a \in Places /\ x \in Places
      /\ Len(w.stack) \in Nat
  BY DEF Children, WalkType, Places, Stacks
<1>2. Above[x] = {x} \cup Above[a]
  BY <1>1, AboveStep
<1>3. x \notin Above[a]
  BY <1>1, NoLoop
<1>4. t \in Above[a]
  BY <1>1, AboveType DEF AtPlace, InPlace
<1>5. x \notin Above[t]
  BY <1>1, <1>3, <1>4, AboveAbove
<1>6. (Above[x] \ {x}) \ Above[t] = Above[a] \ Above[t]
  BY <1>2, <1>3
<1>7. /\ a = t /\ w.stack = <<>>
      \/ /\ a \in Nodes /\ InPlace(a, Len(w.stack)) /\ walk.kind # "list"
         /\ walk.kind \in {"references", "map"} => a \notin Generated
  BY DEF AtPlace
<1>8. walk.kind \in {"references", "map"} => (Above[a] \ Above[t]) \cap Generated = {}
  BY <1>7 DEF InPlace
<1>9. walk.kind = "summary" =>
        Cardinality(Above[x] \ Above[t]) = Len(w.stack) + 1
  <2>1. /\ IsFiniteSet(Above[a] \ Above[t]) /\ x \notin Above[a] \ Above[t]
        /\ Above[x] \ Above[t] = (Above[a] \ Above[t]) \cup {x}
    BY <1>1, <1>2, <1>3, <1>5, AboveType, FS_Subset
  <2>2. Cardinality(Above[x] \ Above[t]) = Cardinality(Above[a] \ Above[t]) + 1
    BY <2>1, FS_AddElement
  <2>3. walk.kind = "summary" => Cardinality(Above[a] \ Above[t]) = Len(w.stack)
    <3>1. CASE a = t /\ w.stack = <<>>
      <4>1. Above[a] \ Above[t] = {} /\ Len(w.stack) = 0
        BY <3>1
      <4> QED BY <4>1, FS_EmptySet
    <3> QED BY <1>7, <3>1 DEF InPlace
  <2> QED BY <2>2, <2>3
<1>10. walk.kind = "list" => Parent[x] = t
  BY <1>1, <1>7
<1> QED BY <1>2, <1>4, <1>5, <1>6, <1>8, <1>9, <1>10 DEF InPlace

(* What is in its place is in the scope.                                   *)
LEMMA PlaceInScope ==
    ASSUME NEW w \in WalkType, w.pc \in {"look", "read"}, AtPlace(w), FramesOK(w),
           walk.target \in Places, walk.kind \in Kinds, w.at \in Nodes,
           w.pc = "read" => walk.kind \in {"search", "references"}
    PROVE  InScope(w.at)
<1> DEFINE a == w.at
           t == walk.target
<1>1. a \in Places /\ a \in Above[a] /\ Len(w.stack) \in Nat
  BY AboveType DEF Places, WalkType, Stacks
<1>2. CASE a = t /\ w.stack = <<>> /\ (w.pc = "look" => walk.kind # "list")
  <2>1. Above[a] \ Above[t] = {} /\ walk.kind # "list"
    BY <1>2
  <2>2. walk.kind # "summary"
    BY <1>2, TreeAssumption DEF FramesOK
  <2>3. walk.kind \in {"search", "references", "map"}
    BY <2>1, <2>2 DEF Kinds
  <2>4. t \in Above[a]
    BY <1>1, <1>2
  <2> QED BY <2>1, <2>3, <2>4 DEF InScope
<1>3. CASE /\ InPlace(a, Len(w.stack))
           /\ walk.kind \in {"references", "map"} => a \notin Generated
  <2>1. CASE walk.kind \in {"search", "references", "map"}
    <3>1. walk.kind \in {"references", "map"} =>
            (Above[a] \ Above[t]) \cap Generated = {}
      BY <1>3 DEF InPlace
    <3>2. t \in Above[a]
      BY <1>3 DEF InPlace
    <3> QED BY <2>1, <3>1, <3>2 DEF InScope
  <2>2. CASE walk.kind = "summary"
    <3>1. Cardinality(Above[a] \ Above[t]) = Len(w.stack)
      BY <1>3, <2>2 DEF InPlace
    <3>2. Cardinality(Above[a] \ Above[t]) <= walk.depth + 1
      BY <2>2, <3>1 DEF FramesOK
    <3> QED BY <2>2, <3>2 DEF InScope
  <2>3. CASE walk.kind = "list"
    <3>1. Parent[a] = t
      BY <1>3, <2>3 DEF InPlace
    <3> QED BY <2>3, <3>1 DEF InScope
  <2> QED BY <2>1, <2>2, <2>3 DEF Kinds
<1> QED BY <1>2, <1>3 DEF AtPlace
-----------------------------------------------------------------------------
(* What is kept by the parts of a step.                                    *)

(* A step of the walk itself only has to leave a walk that is kept.        *)
LEMMA OwnKept ==
    ASSUME AnswerInv, [Next]_vars, UNCHANGED <<tree, steady, lost, changes>>,
           walk'.kind = walk.kind, walk'.target = walk.target,
           walk'.depth = walk.depth, Kept(walk')
    PROVE  AnswerInv'
<1>1. WalkInv' /\ TreeOK'
  BY NextWalk DEF AnswerInv, TreeOK, Present
<1>2. \A n : InScope(n)' <=> InScope(n)
  BY DEF InScope
<1>3. \A n : Weight(n)' = Weight(n)
  BY <1>2 DEF Weight, Present, Texts, Files
<1>4. Told' = Told
  BY <1>3 DEF Told
<1>5. \A x, i : InPlace(x, i)' <=> InPlace(x, i)
  BY DEF InPlace
<1>6. FramesOK(walk)' <=> FramesOK(walk')
  BY <1>5 DEF FramesOK, InFrame, Present, Children
<1>7. Settled(walk') => Settled(walk)'
  BY <1>4, <1>6 DEF Settled, Exact, Untold, Coming, Counted, Kinds
<1>8. AtPlace(walk') <=> AtPlace(walk)'
  BY <1>5 DEF AtPlace
<1>9. Busy(walk') => Busy(walk)'
  BY <1>4, <1>6, <1>8
     DEF Busy, Exact, Untold, AtUntold, Coming, Leads, Counted, Kinds
<1> QED BY <1>1, <1>7, <1>9 DEF AnswerInv, Kept, Pending

LEMMA SettledSame ==
    ASSUME NEW w, NEW v, v.stack = w.stack, v.count = w.count,
           v.found = w.found, v.truncated = w.truncated, Settled(w)
    PROVE  Settled(v)
BY DEF Settled, FramesOK, Coming, Exact, Untold

LEMMA ContinueKept ==
    ASSUME NEW w \in WalkType, Settled(w)
    PROVE  Kept(Continue(w))
<1> DEFINE v == Continue(w)
<1>1. /\ v.stack = w.stack /\ v.count = w.count /\ v.found = w.found
      /\ v.truncated = w.truncated /\ v.pc \in {"done", "reading"}
      /\ v.pc = "done" => w.stack = <<>>
  BY DEF Continue, WalkType
<1> HIDE DEF v
<1>2. Settled(v)
  BY <1>1, SettledSame
<1>3. Kept(v)
  BY <1>1, <1>2 DEF Kept, Pending
<1> QED BY <1>3 DEF v

LEMMA FailKept ==
    ASSUME NEW w \in WalkType
    PROVE  Kept(Fail(w))
BY FailKeeps DEF Kept, Pending

(* A walk that is cut short has reached its limit.                         *)
LEMMA CutShortKept ==
    ASSUME NEW w \in WalkType, walk.kind \in Kinds \ {"summary"},
           w.count = Limit[walk.kind]
    PROVE  Kept(CutShort(w))
<1> DEFINE v == CutShort(w)
<1>1. /\ v.stack = <<>> /\ v.count = w.count /\ v.pc = "done" /\ v.truncated = TRUE
  BY DEF CutShort, WalkType
<1>2. Limit[walk.kind] \in Nat
  BY TreeAssumption
<1> HIDE DEF v
<1>3. FramesOK(v)
  BY <1>1 DEF FramesOK
<1>4. Settled(v)
  BY <1>1, <1>2, <1>3 DEF Settled
<1>5. Kept(v)
  BY <1>1, <1>4 DEF Kept, Pending
<1> QED BY <1>5 DEF v

(* A walk whose streams return less.                                       *)
Fewer(v, w) ==
    /\ Len(v.stack) \in 0..Len(w.stack)
    /\ \A i \in 1..Len(v.stack) :
         /\ v.stack[i].dir = w.stack[i].dir
         /\ v.stack[i].may \subseteq w.stack[i].may
         /\ v.stack[i].must \subseteq w.stack[i].must

LEMMA FewerFrames ==
    ASSUME WalkInv, NEW w \in WalkType, NEW v, Fewer(v, w), FramesOK(w)
    PROVE  FramesOK(v)
<1>1. walk.depth \in Nat
  BY TreeAssumption DEF WalkInv, Sound, WalkType
<1>2. /\ Len(w.stack) \in Nat /\ Len(v.stack) \in Nat
      /\ Len(v.stack) <= Len(w.stack)
  BY DEF WalkType, Stacks, Fewer
<1>3. \A i \in 1..Len(v.stack) : i \in 1..Len(w.stack)
  BY <1>2
<1>4. \A i \in 1..Len(v.stack) : InFrame(v.stack[i], i)
  BY <1>3 DEF Fewer, FramesOK, InFrame
<1>5. walk.kind = "summary" =>
        walk.target = Root /\ Len(w.stack) <= walk.depth + 1
  BY DEF FramesOK
<1>6. walk.kind = "summary" => Len(v.stack) <= walk.depth + 1
  BY <1>1, <1>2, <1>5
<1> QED BY <1>4, <1>5, <1>6 DEF FramesOK

LEMMA FewerUntold ==
    ASSUME NEW w \in WalkType, NEW v, Fewer(v, w), Untold(w), v.found = w.found
    PROVE  Untold(v)
<1>1. \A i \in 1..Len(v.stack) :
        i \in 1..Len(w.stack) /\ v.stack[i].may \subseteq w.stack[i].may
  BY DEF WalkType, Stacks, Fewer
<1> QED BY <1>1 DEF Untold

(* A name that leads nowhere new is done with.                             *)
LEMMA BusySettles ==
    ASSUME NEW w \in WalkType, Busy(w),
           \A n \in steady : Told[n] > 0 /\ Leads(w, n) => n \in w.found
    PROVE  Settled(w)
BY DEF Busy, Settled

(* A name is told once, and adds its number.                               *)
LEMMA TellsOnce ==
    ASSUME WalkInv, NEW w \in WalkType, w.at \in Nodes, w.pc \in {"look", "read"},
           Busy(w), steady = Nodes,
           NEW v, v.stack = w.stack, v.at = w.at,
           v.count = w.count + Told[w.at], v.found = w.found \cup {w.at}
    PROVE  Exact(v) /\ (v.pc = "open" => AtUntold(v))
<1> DEFINE a == w.at
<1>1. Exact(w) /\ AtUntold(w) /\ walk.kind \in Kinds /\ TypeInv
  BY DEF Busy, WalkInv
<1>2. a \in Above[a]
  BY AboveType DEF Places
<1>3. a \notin w.found /\ w.found \in SUBSET Nodes
  BY <1>1, <1>2 DEF AtUntold, WalkType
<1>4. \A n \in Nodes : Told[n] \in Nat
  BY <1>1, ToldType
<1>5. Tally(Told, w.found \cup {a}) = Tally(Told, w.found) + Told[a]
  BY <1>3, <1>4, TallyFacts
<1>6. v.count = Tally(Told, v.found)
  BY <1>1, <1>5 DEF Exact
<1>7. Untold(v)
  BY <1>1 DEF Exact, Untold, AtUntold
<1>8. v.pc = "open" => AtUntold(v)
  BY <1>1 DEF AtUntold
<1> QED BY <1>6, <1>7, <1>8 DEF Exact

-----------------------------------------------------------------------------
(* The steps once more.                                                    *)

(* A returned entry leaves the others of its directory.                    *)
LEMMA RestFrames ==
    ASSUME WalkInv, NEW n \in Nodes, Returned(n)
    PROVE  \E v \in WalkType :
             /\ v = Rest(n) /\ Fewer(v, walk)
             /\ v.kind = walk.kind /\ v.target = walk.target
             /\ v.depth = walk.depth /\ v.at = walk.at /\ v.pc = "reading"
             /\ v.count = walk.count /\ v.found = walk.found
             /\ v.truncated = walk.truncated
             /\ Len(v.stack) = Len(walk.stack) /\ v.stack # <<>>
             /\ \A i \in 1..Len(walk.stack) :
                  /\ walk.stack[i].must \subseteq v.stack[i].must
                       \cup (IF i = Len(walk.stack) THEN {n} ELSE {})
                  /\ i = Len(walk.stack) => n \notin v.stack[i].may
<1> DEFINE l == Len(walk.stack)
           f == [walk.stack[l] EXCEPT !.may = @ \ {n}, !.must = @ \ {n}]
           s == [walk.stack EXCEPT ![l] = f]
<1>1. walk \in WalkType /\ walk.stack \in Stacks /\ l \in Nat \ {0}
      /\ walk.pc = "reading" /\ walk.stack # <<>> /\ TypeInv
  BY DEF WalkInv, Sound, PhaseOK, Returned, WalkType, Stacks
<1>2. walk.stack[l] \in FrameType
  BY <1>1 DEF Stacks
<1>3. /\ f \in FrameType /\ f.dir = walk.stack[l].dir
      /\ f.may = walk.stack[l].may \ {n} /\ f.must = walk.stack[l].must \ {n}
  BY <1>2 DEF FrameType
<1>4. s \in Stacks /\ Len(s) = l /\ \A i \in 1..l : s[i] = IF i = l THEN f ELSE walk.stack[i]
  <2> HIDE DEF f
  <2>1. walk.stack \in Seq(FrameType) /\ l \in 1..Len(walk.stack)
    BY <1>1 DEF Stacks
  <2> QED
    BY <2>1, <1>3, ExceptSeq DEF Stacks
<1>5. Rest(n) = [walk EXCEPT !.stack = s]
  BY <1>1 DEF Rest, Top, WalkType
<1> HIDE DEF s, f
<1>6. PICK v : v = Rest(n)
  OBVIOUS
<1>7. /\ v \in WalkType /\ v.stack = s
      /\ v.kind = walk.kind /\ v.target = walk.target
      /\ v.depth = walk.depth /\ v.at = walk.at /\ v.pc = "reading"
      /\ v.count = walk.count /\ v.found = walk.found
      /\ v.truncated = walk.truncated
  BY <1>1, <1>4, <1>5, <1>6 DEF WalkType
<1>8. s # <<>>
  BY <1>1, <1>4
<1>9. Fewer(v, walk)
  BY <1>1, <1>3, <1>4, <1>7 DEF Fewer
<1>10. \A i \in 1..l : /\ walk.stack[i].must \subseteq s[i].must
                            \cup (IF i = l THEN {n} ELSE {})
                       /\ i = l => n \notin s[i].may
  BY <1>3, <1>4
<1> QED BY <1>4, <1>6, <1>7, <1>8, <1>9, <1>10

LEMMA EntryKept ==
    ASSUME AnswerInv, NEW n \in Nodes,
           SummaryBreaks(n) \/ ScanSkips(n) \/ ScanEnds(n) \/ TakeEntry(n)
    PROVE  AnswerInv'
<1> DEFINE l == Len(walk.stack)
<1>1. Returned(n) /\ UNCHANGED <<tree, steady, lost, changes>>
  BY DEF SummaryBreaks, ScanSkips, ScanEnds, TakeEntry, Returned
<1>2. /\ WalkInv /\ walk \in WalkType /\ walk.pc = "reading" /\ walk.stack # <<>>
      /\ Settled(walk) /\ l \in Nat \ {0} /\ n \in walk.stack[l].may
      /\ walk.count \in Nat /\ walk.kind \in Kinds /\ steady \subseteq Nodes
  BY <1>1 DEF AnswerInv, WalkInv, TypeInv, TypeOK, Sound, PhaseOK, Kept, Settled,
              Returned, Top, WalkType, Stacks
<1>3. PICK v \in WalkType :
        /\ v = Rest(n) /\ Fewer(v, walk)
        /\ v.kind = walk.kind /\ v.target = walk.target
        /\ v.depth = walk.depth /\ v.at = walk.at /\ v.pc = "reading"
        /\ v.count = walk.count /\ v.found = walk.found
        /\ v.truncated = walk.truncated
        /\ Len(v.stack) = l /\ v.stack # <<>>
        /\ \A i \in 1..l :
             /\ walk.stack[i].must \subseteq v.stack[i].must
                  \cup (IF i = l THEN {n} ELSE {})
             /\ i = l => n \notin v.stack[i].may
  BY <1>1, <1>2, RestFrames
<1>4. FramesOK(walk) /\ FramesOK(v)
  BY <1>2, <1>3, FewerFrames DEF Settled
<1>5. InPlace(n, l)
  BY <1>2, <1>4 DEF FramesOK, InFrame
<1>6. Limit[walk.kind] \in Nat /\ [Next]_vars
  BY <1>2, TreeAssumption DEF Next, Entry
<1>7. ASSUME NEW m \in Nodes, Coming(walk, m)
      PROVE  Coming(v, m) \/ n \in Above[m]
  BY <1>2, <1>3, <1>7 DEF Coming
<1>8. CASE SummaryBreaks(n)
  <2>1. PICK u : u = [walk EXCEPT !.truncated = TRUE, !.stack = Below(@)]
    OBVIOUS
  <2>2. walk.stack \in Stacks
    BY <1>2 DEF WalkType
  <2>3. /\ Below(walk.stack) \in Stacks /\ Len(Below(walk.stack)) = l - 1
        /\ \A i \in 1..(l - 1) : Below(walk.stack)[i] = walk.stack[i]
    BY <1>2, <2>2, BelowStack
  <2>4. PICK s \in Stacks : s = Below(walk.stack)
    BY <2>3
  <2>5. /\ u \in WalkType /\ u.truncated = TRUE /\ u.stack = s
        /\ u.count = walk.count /\ u.kind = walk.kind /\ u.target = walk.target
        /\ u.depth = walk.depth
    BY <1>2, <2>1, <2>4 DEF WalkType
  <2>6. Fewer(u, walk)
    BY <1>2, <2>3, <2>4, <2>5 DEF Fewer
  <2>7. walk.kind = "summary" /\ walk.count >= Limit[walk.kind]
    BY <1>8 DEF SummaryBreaks, Full
  <2>8. walk.count = Limit[walk.kind]
    BY <1>2, <1>6, <2>7 DEF Settled, Counted
  <2>9. Settled(u)
    BY <1>2, <1>4, <2>5, <2>6, <2>7, <2>8, FewerFrames DEF Settled
  <2>10. walk' = Continue(u)
    BY <1>8, <2>1 DEF SummaryBreaks
  <2>11. walk'.kind = walk.kind /\ walk'.target = walk.target
         /\ walk'.depth = walk.depth
    BY <2>5, <2>10 DEF Continue, WalkType
  <2> QED BY <1>1, <1>6, <2>5, <2>9, <2>10, <2>11, ContinueKept, OwnKept
<1>9. CASE ScanSkips(n)
  <2>1. walk' = v /\ walk.kind \in {"references", "map"} /\ n \in Generated
    BY <1>3, <1>9 DEF ScanSkips
  <2>2. ~walk.truncated
    BY <1>2, <2>1 DEF Settled
  <2>3. ASSUME NEW m \in steady, Told[m] > 0
        PROVE  n \notin Above[m]
    <3>1. InScope(m)
      BY <1>2, <2>3, ToldOnly
    <3>2. (Above[m] \ Above[walk.target]) \cap Generated = {}
      BY <2>1, <3>1 DEF InScope
    <3>3. n \notin Above[walk.target]
      BY <1>5 DEF InPlace
    <3> QED BY <2>1, <3>2, <3>3
  <2>4. \A m \in steady : Told[m] > 0 => m \in v.found \/ Coming(v, m)
    BY <1>2, <1>3, <1>7, <2>2, <2>3 DEF Settled
  <2>5. steady = Nodes => Exact(v)
    BY <1>2, <1>3, <2>2, FewerUntold DEF Settled, Exact
  <2>6. Settled(v)
    BY <1>2, <1>3, <1>4, <2>2, <2>4, <2>5 DEF Settled
  <2>7. Kept(v)
    BY <1>3, <2>6 DEF Kept, Pending
  <2> QED BY <1>1, <1>3, <1>6, <2>1, <2>7, OwnKept
<1>10. CASE ScanEnds(n)
  <2>1. walk' = CutShort(v) /\ walk.kind = "map" /\ walk.count >= Limit[walk.kind]
    BY <1>3, <1>10 DEF ScanEnds, Full
  <2>2. v.count = Limit[walk.kind]
    BY <1>2, <1>3, <1>6, <2>1 DEF Settled, Counted
  <2>3. Kept(walk')
    BY <1>2, <2>1, <2>2, CutShortKept
  <2>4. walk'.kind = walk.kind /\ walk'.target = walk.target
        /\ walk'.depth = walk.depth
    BY <1>3, <2>1 DEF CutShort, WalkType
  <2> QED BY <1>1, <1>6, <2>3, <2>4, OwnKept
<1>11. CASE TakeEntry(n)
  <2>1. PICK u : u = [v EXCEPT !.at = n, !.pc = "look"]
    OBVIOUS
  <2>2. /\ u \in WalkType /\ u.at = n /\ u.pc = "look" /\ u.stack = v.stack
        /\ u.kind = walk.kind /\ u.target = walk.target /\ u.depth = walk.depth
        /\ u.count = walk.count /\ u.found = walk.found
        /\ u.truncated = walk.truncated
    BY <1>3, <2>1 DEF WalkType
  <2>3. /\ walk' = u
        /\ walk.kind \in {"references", "map"} => n \notin Generated
        /\ walk.kind \in Counted => ~(walk.count >= Limit[walk.kind])
    BY <1>3, <1>11, <2>1 DEF TakeEntry, Full, Counted
  <2>4. ~walk.truncated
    <3> SUFFICES ASSUME walk.truncated PROVE FALSE
      OBVIOUS
    <3>1. walk.kind = "summary" /\ walk.count = Limit[walk.kind]
      BY <1>2 DEF Settled
    <3> QED BY <1>6, <2>3, <3>1 DEF Counted
  <2>5. walk.kind \in Counted => walk.count < Limit[walk.kind]
    BY <1>2, <1>6, <2>3
  <2>6. AtPlace(u)
    BY <1>3, <1>5, <2>2, <2>3 DEF AtPlace
  <2>7. FramesOK(u)
    BY <1>4, <2>2 DEF FramesOK
  <2>8. \A m \in steady :
          Told[m] > 0 => m \in u.found \/ Coming(u, m) \/ Leads(u, m)
    <3>1. \A m : Coming(v, m) => Coming(u, m)
      BY <2>2 DEF Coming
    <3> QED BY <1>2, <1>7, <2>2, <2>4, <3>1 DEF Settled, Leads
  <2>9. ASSUME steady = Nodes
        PROVE  Exact(u) /\ AtUntold(u)
    <3>1. Exact(walk) /\ Untold(walk)
      BY <1>2, <2>4, <2>9 DEF Settled, Exact
    <3>2. Untold(v)
      BY <1>2, <1>3, <3>1, FewerUntold
    <3>3. Untold(u)
      BY <1>3, <2>2, <3>2 DEF Untold
    <3>4. \A y \in walk.found : n \notin Above[y]
      BY <1>2, <3>1 DEF Untold
    <3>5. ASSUME NEW i \in 1..l, NEW x \in v.stack[i].may
          PROVE  x \notin Above[n] /\ n \notin Above[x]
      <4>1. x \in walk.stack[i].may /\ (i = l => x # n) /\ l \in 1..l
        BY <1>2, <1>3, <3>5 DEF Fewer
      <4> QED BY <1>2, <3>1, <4>1 DEF Untold
    <3> QED BY <1>3, <2>2, <3>1, <3>3, <3>4, <3>5 DEF Exact, AtUntold
  <2>10. Busy(u)
    BY <1>2, <2>2, <2>4, <2>5, <2>6, <2>7, <2>8, <2>9 DEF Busy, Settled
  <2>11. Kept(u)
    BY <2>2, <2>10 DEF Kept
  <2> QED BY <1>1, <1>6, <2>2, <2>3, <2>11, OwnKept
<1> QED BY <1>8, <1>9, <1>10, <1>11

LEMMA EndKept ==
    ASSUME AnswerInv, EndOfDirectory
    PROVE  AnswerInv'
<1> DEFINE l == Len(walk.stack)
<1>1. /\ WalkInv /\ walk \in WalkType /\ walk.pc = "reading" /\ walk.stack # <<>>
      /\ Settled(walk) /\ l \in Nat \ {0} /\ walk.stack \in Stacks
      /\ walk.stack[l].must = {} /\ UNCHANGED <<tree, steady, lost, changes>>
  BY DEF AnswerInv, WalkInv, Sound, PhaseOK, Kept, EndOfDirectory, Top, WalkType,
         Stacks
<1>2. /\ Below(walk.stack) \in Stacks /\ Len(Below(walk.stack)) = l - 1
      /\ \A i \in 1..(l - 1) : Below(walk.stack)[i] = walk.stack[i]
  BY <1>1, BelowStack
<1>3. PICK u : u = [walk EXCEPT !.stack = Below(@)]
  OBVIOUS
<1>4. PICK s \in Stacks : s = Below(walk.stack)
  BY <1>2
<1>5. /\ u \in WalkType /\ u.stack = s /\ u.truncated = walk.truncated
      /\ u.count = walk.count /\ u.kind = walk.kind /\ u.target = walk.target
      /\ u.depth = walk.depth /\ u.found = walk.found
  BY <1>1, <1>3, <1>4 DEF WalkType
<1>6. Fewer(u, walk)
  BY <1>1, <1>2, <1>4, <1>5 DEF Fewer
<1>7. FramesOK(u)
  BY <1>1, <1>6, FewerFrames DEF Settled
<1>8. \A m : Coming(walk, m) => Coming(u, m)
  BY <1>1, <1>2, <1>4, <1>5 DEF Coming
<1>9. Untold(walk) => Untold(u)
  BY <1>1, <1>5, <1>6, FewerUntold
<1>10. Settled(u)
  BY <1>1, <1>5, <1>7, <1>8, <1>9 DEF Settled, Exact
<1>11. walk' = Continue(u) /\ [Next]_vars
  BY <1>3 DEF EndOfDirectory, Next
<1>12. walk'.kind = walk.kind /\ walk'.target = walk.target
       /\ walk'.depth = walk.depth
  BY <1>5, <1>11 DEF Continue, WalkType
<1> QED BY <1>1, <1>5, <1>10, <1>11, <1>12, ContinueKept, OwnKept

(* Something is only below what is a directory now, if it is there.        *)
LEMMA LeadsByDirectory ==
    ASSUME TypeInv, TreeOK, NEW a \in Places, NEW n \in Nodes, Present(n),
           a \in Above[n], a # n
    PROVE  Metadata(a) = "dir"
<1>1. CASE a = Root
  BY <1>1 DEF Metadata
<1>2. CASE a \in Nodes /\ a # Root
  <2>1. Forms[a] = {"dir"}
    BY <1>2, AboveIsDirectory DEF Places
  <2>2. Present(a)
    BY PresentAbove DEF Places
  <2>3. tree[a] \in {"none", "dir"} /\ tree[a] # "none"
    BY <1>2, <2>1, <2>2 DEF TypeInv, TypeOK, Contents, Present
  <2> QED BY <1>2, <2>3 DEF Metadata
<1> QED BY <1>1, <1>2 DEF Places

(* What is known when a name is looked at.                                 *)
LEMMA LookFacts ==
    ASSUME AnswerInv, walk.pc \in {"look", "read"}
    PROVE  /\ WalkInv /\ TypeInv /\ walk \in WalkType /\ Busy(walk)
           /\ walk.kind \in Kinds /\ ~walk.truncated /\ FramesOK(walk)
           /\ walk.at \in Places /\ walk.target \in Places /\ steady \subseteq Nodes
           /\ \A n \in Nodes : Told[n] > 0 /\ walk.at \in Above[n] /\ walk.at # n =>
                Metadata(walk.at) = "dir"
<1>1. /\ WalkInv /\ TypeInv /\ walk \in WalkType /\ Busy(walk) /\ TreeOK
      /\ walk.kind \in Kinds /\ ~walk.truncated /\ FramesOK(walk)
      /\ walk.at \in Places /\ walk.target \in Places /\ steady \subseteq Nodes
  BY DEF AnswerInv, WalkInv, TypeInv, TypeOK, Kept, Pending, Busy, WalkType, Places
<1>2. ASSUME NEW n \in Nodes, Told[n] > 0, walk.at \in Above[n], walk.at # n
      PROVE  Metadata(walk.at) = "dir"
  BY <1>1, <1>2, ToldOnly, LeadsByDirectory
<1> QED BY <1>1, <1>2

(* A name is told with the number it has to be told with.                  *)
LEMMA TellsKept ==
    ASSUME AnswerInv, walk.pc \in {"look", "read"}, walk.at \in Nodes,
           NEW v \in WalkType, v.stack = walk.stack, v.at = walk.at,
           v.truncated = walk.truncated, v.found = walk.found \cup {walk.at},
           steady = Nodes => v.count = walk.count + Told[walk.at],
           walk.kind \in Counted => v.count <= Limit[walk.kind],
           \A n \in steady : Told[n] > 0 /\ walk.at \in Above[n] /\ walk.at # n =>
             v.pc = "open",
           v.pc = "open" => walk.kind # "list" /\ Len(walk.stack) <= walk.depth
    PROVE  /\ v.pc # "open" => Settled(v)
           /\ v.pc = "open" => Busy(v)
<1>1. /\ WalkInv /\ walk \in WalkType /\ Busy(walk) /\ walk.kind \in Kinds
      /\ ~walk.truncated /\ FramesOK(walk) /\ steady \subseteq Nodes
  BY LookFacts
<1>2. FramesOK(v)
  BY <1>1 DEF FramesOK
<1>3. steady = Nodes => Exact(v) /\ (v.pc = "open" => AtUntold(v))
  BY <1>1, TellsOnce
<1>4. \A n \in steady : Told[n] > 0 =>
        n \in v.found \/ Coming(v, n) \/ (walk.at \in Above[n] /\ walk.at # n)
  <2>1. \A n : Coming(walk, n) => Coming(v, n)
    BY DEF Coming
  <2> QED BY <1>1, <2>1 DEF Busy, Leads
<1>5. ASSUME v.pc # "open"
      PROVE  Settled(v)
  BY <1>1, <1>2, <1>3, <1>4, <1>5 DEF Settled
<1>6. ASSUME v.pc = "open"
      PROVE  Busy(v)
  <2>1. AtPlace(walk) /\ Counted \subseteq Kinds
    BY <1>1 DEF Busy, Counted, Kinds
  <2>2. AtPlace(v)
    BY <1>6, <2>1 DEF AtPlace
  <2> QED BY <1>1, <1>2, <1>3, <1>4, <1>6, <2>2 DEF Busy, Leads
<1> QED BY <1>5, <1>6

LEMMA LookKept ==
    ASSUME AnswerInv, Look
    PROVE  AnswerInv'
<1> DEFINE a == walk.at
           content == Metadata(a)
<1>1. walk.pc = "look" /\ UNCHANGED <<tree, steady, lost, changes>> /\ [Next]_vars
  BY DEF Look, LookFails, SearchLooks, MapLooks, SummaryLooks, ListLooks, Looks,
         Next
<1>2. /\ WalkInv /\ TypeInv /\ walk \in WalkType /\ Busy(walk)
      /\ walk.kind \in Kinds /\ ~walk.truncated /\ FramesOK(walk)
      /\ a \in Places /\ walk.target \in Places /\ steady \subseteq Nodes
      /\ \A n \in Nodes : Told[n] > 0 /\ a \in Above[n] /\ a # n => content = "dir"
      /\ walk.count \in Nat /\ Limit[walk.kind] \in Nat
  BY <1>1, LookFacts, TreeAssumption DEF WalkType
<1>3. a \in Nodes =>
        /\ content = tree[a] /\ a # Root /\ content \in Contents(a)
        /\ content # "none" => Present(a) /\ InScope(a)
  <2>1. a \in Nodes => content = tree[a] /\ a # Root /\ content \in Contents(a)
    BY <1>2, TreeAssumption DEF Metadata, TypeInv, TypeOK
  <2>2. AtPlace(walk)
    BY <1>2 DEF Busy
  <2>3. a \in Nodes => InScope(a)
    BY <1>1, <1>2, <2>2, PlaceInScope
  <2> QED BY <2>1, <2>3 DEF Present
<1>4. a \notin Nodes => a = Root /\ content = "dir"
  BY <1>2 DEF Places, Metadata
<1>5. ASSUME NEW v \in WalkType, walk' = v, v.kind = walk.kind,
             v.target = walk.target, v.depth = walk.depth, Kept(v)
      PROVE  AnswerInv'
  BY <1>1, <1>5, OwnKept
<1>6. ASSUME walk' = Continue(walk), Settled(walk)
      PROVE  AnswerInv'
  <2>1. Continue(walk) \in WalkType /\ Kept(Continue(walk))
    BY <1>2, <1>6, ContinueKept, ContinueKeeps
  <2>2. walk'.kind = walk.kind /\ walk'.target = walk.target
        /\ walk'.depth = walk.depth
    BY <1>2, <1>6 DEF Continue, WalkType
  <2> QED BY <1>5, <1>6, <2>1, <2>2
<1>7. PICK u : u = Count(walk, a)
  OBVIOUS
<1>8. a \in Nodes =>
        /\ u \in WalkType /\ u.stack = walk.stack /\ u.at = a /\ u.pc = "look"
        /\ u.kind = walk.kind /\ u.target = walk.target /\ u.depth = walk.depth
        /\ u.found = walk.found \cup {a} /\ u.count = walk.count + 1
        /\ u.truncated = walk.truncated
  <2>1. a \in Nodes => u \in WalkType
    BY <1>2, <1>7, CountKeeps
  <2> QED BY <1>1, <1>2, <1>7, <2>1 DEF Count, WalkType
<1>9. walk.kind \in Counted => walk.count + 1 <= Limit[walk.kind]
  BY <1>1, <1>2 DEF Busy
<1>10. ASSUME a \in Nodes, walk' = Continue(u), Told[a] = 1,
              \A n \in steady : ~(Told[n] > 0 /\ a \in Above[n] /\ a # n)
       PROVE  AnswerInv'
  <2>1. Settled(u)
    BY <1>1, <1>8, <1>9, <1>10, TellsKept
  <2>2. Continue(u) \in WalkType /\ Kept(Continue(u))
    BY <1>8, <1>10, <2>1, ContinueKept, ContinueKeeps
  <2>3. walk'.kind = walk.kind /\ walk'.target = walk.target
        /\ walk'.depth = walk.depth
    BY <1>8, <1>10 DEF Continue, WalkType
  <2> QED BY <1>5, <1>10, <2>2, <2>3
<1>11. ASSUME Enters, content = "dir", walk.kind \in {"search", "references", "map"}
       PROVE  AnswerInv'
  <2>1. PICK v : v = [walk EXCEPT !.pc = "open"]
    OBVIOUS
  <2>2. /\ v \in WalkType /\ v.pc = "open" /\ v.at = a /\ v.stack = walk.stack
        /\ v.kind = walk.kind /\ v.target = walk.target /\ v.depth = walk.depth
        /\ v.found = walk.found /\ v.count = walk.count
        /\ v.truncated = walk.truncated
    BY <1>2, <2>1 DEF WalkType
  <2>3. ASSUME NEW n \in steady, Told[n] > 0
        PROVE  a # n
    <3> SUFFICES ASSUME a = n PROVE FALSE
      OBVIOUS
    <3>1. tree[n] = "dir" /\ n \in Nodes
      BY <1>2, <1>3, <1>11
    <3>2. "dir" \notin Texts /\ "dir" \notin Files
      BY TreeAssumption DEF Files
    <3> QED BY <1>11, <2>3, <3>1, <3>2, ToldOnly
  <2>4. AtPlace(v)
    BY <1>2, <1>11, <2>2 DEF Busy, AtPlace
  <2>5. FramesOK(v)
    BY <1>2, <2>2 DEF FramesOK
  <2>6. \A n \in steady :
          Told[n] > 0 => n \in v.found \/ Coming(v, n) \/ Leads(v, n)
    BY <1>2, <2>2, <2>3 DEF Busy, Coming, Leads
  <2>7. steady = Nodes => Exact(v) /\ AtUntold(v)
    BY <1>1, <1>2, <2>2 DEF Busy, Exact, Untold, AtUntold
  <2>8. walk.kind \in Counted => v.count <= Limit[walk.kind]
    BY <1>2, <2>2 DEF Busy
  <2>9. Busy(v)
    BY <1>2, <1>11, <2>2, <2>4, <2>5, <2>6, <2>7, <2>8 DEF Busy
  <2>10. Kept(v)
    BY <2>2, <2>9 DEF Kept
  <2> QED BY <1>5, <1>11, <2>1, <2>2, <2>10 DEF Enters
<1>12. CASE LookFails
  <2>1. walk' = Fail(walk)
    BY <1>12 DEF LookFails
  <2>2. walk'.kind = walk.kind /\ walk'.target = walk.target
        /\ walk'.depth = walk.depth
    BY <1>2, <2>1 DEF Fail, WalkType
  <2> QED BY <1>2, <1>5, <2>1, <2>2, FailKept, FailKeeps
<1>13. ASSUME SearchLooks(content)
       PROVE  AnswerInv'
  <2>1. content # "none" /\ walk.kind \in {"search", "references"}
    BY <1>13 DEF SearchLooks
  <2>2. CASE content = "dir"
    <3>1. Enters
      BY <1>13, <2>2, TreeAssumption DEF SearchLooks, Files
    <3> QED BY <1>11, <2>1, <2>2, <3>1
  <2>3. CASE content # "dir" /\ content \in Files \ Large
    <3>1. PICK v : v = [walk EXCEPT !.pc = "read"]
      OBVIOUS
    <3>2. walk' = v
      BY <1>13, <2>3, <3>1 DEF SearchLooks
    <3>3. /\ v \in WalkType /\ v.pc = "read" /\ v.at = a /\ v.stack = walk.stack
          /\ v.kind = walk.kind /\ v.target = walk.target /\ v.depth = walk.depth
          /\ v.found = walk.found /\ v.count = walk.count
          /\ v.truncated = walk.truncated
      BY <1>2, <3>1 DEF WalkType
    <3>4. a \in Nodes /\ content = tree[a] /\ content \in Contents(a)
      BY <1>3, <1>4, <2>3
    <3>5. Forms[a] # {"dir"}
      BY <2>1, <2>3, <3>4 DEF Contents
    <3>6. content \notin Large \cup {"link"}
      BY <2>3, TreeAssumption DEF Files
    <3>7. AtPlace(v)
      BY <1>1, <1>2, <3>3 DEF Busy, AtPlace
    <3>8. FramesOK(v)
      BY <1>2, <3>3 DEF FramesOK
    <3>9. \A n \in steady :
            Told[n] > 0 => n \in v.found \/ Coming(v, n) \/ Leads(v, n)
      BY <1>1, <1>2, <3>3 DEF Busy, Coming, Leads
    <3>10. steady = Nodes => Exact(v) /\ AtUntold(v)
      BY <1>1, <1>2, <3>3 DEF Busy, Exact, Untold, AtUntold
    <3>11. Busy(v)
      BY <1>2, <2>1, <3>3, <3>4, <3>5, <3>6, <3>7, <3>8, <3>9, <3>10
         DEF Busy, Counted
    <3>12. Kept(v)
      BY <3>3, <3>11 DEF Kept
    <3> QED BY <1>5, <3>2, <3>3, <3>12
  <2>4. CASE content \notin {"dir"} \cup (Files \ Large)
    <3>1. walk' = Continue(walk)
      BY <1>13, <2>4 DEF SearchLooks
    <3>2. ASSUME NEW n \in steady, Told[n] > 0, Leads(walk, n)
          PROVE  FALSE
      <4>1. a = n
        BY <1>2, <2>4, <3>2 DEF Leads
      <4> QED BY <1>2, <1>3, <2>1, <2>4, <3>2, <4>1, ToldOnly DEF Files
    <3>3. Settled(walk)
      BY <1>2, <3>2, BusySettles
    <3> QED BY <1>6, <3>1, <3>3
  <2> QED BY <2>2, <2>3, <2>4
<1>14. ASSUME MapLooks(content)
       PROVE  AnswerInv'
  <2>1. content # "none" /\ walk.kind = "map"
    BY <1>14 DEF MapLooks
  <2>2. CASE content = "dir"
    <3>1. Enters
      BY <1>14, <2>2, TreeAssumption DEF MapLooks, Files
    <3> QED BY <1>11, <2>1, <2>2, <3>1
  <2>3. CASE content # "dir" /\ content \in Files
    <3>1. walk' = Continue(u)
      BY <1>7, <1>14, <2>3 DEF MapLooks
    <3>2. a \in Nodes /\ content = tree[a] /\ content \in Contents(a)
          /\ Present(a) /\ InScope(a)
      BY <1>3, <1>4, <2>1, <2>3
    <3>3. Told[a] = 1
      BY <2>1, <2>3, <3>2 DEF Told, Weight
    <3> QED BY <1>2, <1>10, <2>3, <3>1, <3>2, <3>3
  <2>4. CASE content \notin {"dir"} \cup Files
    <3>1. walk' = Continue(walk)
      BY <1>14, <2>4 DEF MapLooks
    <3>2. ASSUME NEW n \in steady, Told[n] > 0, Leads(walk, n)
          PROVE  FALSE
      <4>1. a = n
        BY <1>2, <2>4, <3>2 DEF Leads
      <4>2. n \in Nodes /\ tree[n] \in Files
        BY <1>2, <2>1, <3>2, ToldOnly
      <4> QED BY <1>3, <2>4, <4>1, <4>2
    <3>3. Settled(walk)
      BY <1>2, <3>2, BusySettles
    <3> QED BY <1>6, <3>1, <3>3
  <2> QED BY <2>2, <2>3, <2>4
<1>15. ASSUME SummaryLooks(content)
       PROVE  AnswerInv'
  <2>1. content # "none" /\ walk.kind = "summary" /\ a \in Nodes
    BY <1>1, <1>2, <1>15 DEF SummaryLooks, WalkInv, Sound, PhaseOK
  <2>2. Told[a] = 1
    BY <1>3, <2>1 DEF Told, Weight
  <2>3. CASE content = "dir" /\ Len(walk.stack) <= walk.depth
    <3>1. PICK v : v = [u EXCEPT !.pc = "open"]
      OBVIOUS
    <3>2. walk' = v
      BY <1>7, <1>15, <2>3, <3>1 DEF SummaryLooks
    <3>3. /\ v \in WalkType /\ v.pc = "open" /\ v.at = a /\ v.stack = walk.stack
          /\ v.kind = walk.kind /\ v.target = walk.target /\ v.depth = walk.depth
          /\ v.found = walk.found \cup {a} /\ v.count = walk.count + 1
          /\ v.truncated = walk.truncated
      BY <1>8, <2>1, <3>1 DEF WalkType
    <3>4. Busy(v)
      BY <1>1, <1>9, <2>1, <2>2, <2>3, <3>3, TellsKept
    <3>5. Kept(v)
      BY <3>3, <3>4 DEF Kept
    <3> QED BY <1>5, <3>2, <3>3, <3>5
  <2>4. CASE ~(content = "dir" /\ Len(walk.stack) <= walk.depth)
    <3>1. walk' = Continue(u)
      BY <1>7, <1>15, <2>4 DEF SummaryLooks
    <3>2. ASSUME NEW n \in steady, Told[n] > 0, a \in Above[n], a # n
          PROVE  FALSE
      <4>1. n \in Nodes /\ n \in Places /\ walk.target = Root
        BY <1>2, <2>1, <3>2 DEF Places, FramesOK
      <4>2. ~(Len(walk.stack) <= walk.depth)
        BY <1>2, <2>4, <3>2, <4>1
      <4>3. InScope(n)
        BY <3>2, <4>1, ToldOnly
      <4>4. Cardinality(Above[n] \ Above[Root]) <= walk.depth + 1
        BY <2>1, <4>1, <4>3 DEF InScope
      <4>5. n \notin Above[a] /\ Above[a] \subseteq Above[n] /\ n \in Above[n]
        BY <3>2, <4>1, AboveOrder, AboveAbove, AboveType
      <4>6. Above[Root] = {Root} /\ n # Root
        BY <4>1, AboveStep, TreeAssumption
      <4>7. InPlace(a, Len(walk.stack))
        BY <1>1, <1>2, <2>1, <4>1, TreeAssumption DEF Busy, AtPlace
      <4>8. Cardinality(Above[a] \ Above[Root]) = Len(walk.stack)
        BY <2>1, <4>1, <4>7 DEF InPlace
      <4> DEFINE low == Above[a] \ Above[Root]
                 high == Above[n] \ Above[Root]
      <4>9. IsFiniteSet(low) /\ IsFiniteSet(high)
            /\ n \notin low /\ low \cup {n} \subseteq high
        BY <1>2, <4>1, <4>5, <4>6, AboveType, FS_Subset
      <4>10. Cardinality(low \cup {n}) = Len(walk.stack) + 1
        BY <4>8, <4>9, FS_AddElement
      <4>11. Cardinality(low \cup {n}) <= Cardinality(high)
             /\ Cardinality(high) \in Nat
        <5> HIDE DEF low, high
        <5> QED BY <4>9, FS_Subset, FS_CardinalityType
      <4>12. Len(walk.stack) \in Nat /\ walk.depth \in Nat
        BY <1>2, TreeAssumption DEF WalkType, Stacks
      <4> QED BY <4>2, <4>4, <4>10, <4>11, <4>12
    <3> QED BY <1>10, <2>1, <2>2, <3>1, <3>2
  <2> QED BY <2>3, <2>4
<1>16. ASSUME ListLooks(content)
       PROVE  AnswerInv'
  <2>1. content # "none" /\ walk.kind = "list" /\ a \in Nodes /\ walk' = Continue(u)
    BY <1>1, <1>2, <1>7, <1>16 DEF ListLooks, WalkInv, Sound, PhaseOK
  <2>2. Told[a] = 1
    BY <1>3, <2>1 DEF Told, Weight
  <2>3. ASSUME NEW n \in steady, Told[n] > 0, a \in Above[n], a # n
        PROVE  FALSE
    <3>1. n \in Nodes /\ n \in Places
      BY <1>2, <2>3 DEF Places
    <3>2. Parent[n] = walk.target
      BY <2>1, <2>3, <3>1, ToldOnly DEF InScope
    <3>3. a \in Above[walk.target]
      BY <2>3, <3>1, <3>2, AboveOrder
    <3>4. InPlace(a, Len(walk.stack))
      BY <1>1, <1>2, <2>1 DEF Busy, AtPlace
    <3> QED BY <3>3, <3>4 DEF InPlace
  <2> QED BY <1>10, <2>1, <2>2, <2>3
<1> QED BY <1>12, <1>13, <1>14, <1>15, <1>16 DEF Look

(* A directory that is opened has all its entries still to come, and they  *)
(* are what is led to by it.                                               *)
LEMMA PushKept ==
    ASSUME AnswerInv, walk.pc = "open", Present(walk.at), NEW v \in WalkType,
           Len(v.stack) = Len(walk.stack) + 1,
           \A i \in 1..Len(walk.stack) : v.stack[i] = walk.stack[i],
           v.stack[Len(walk.stack) + 1] = Frame(walk.at),
           v.count = walk.count, v.found = walk.found,
           v.truncated = walk.truncated
    PROVE  Settled(v)
<1> DEFINE l == Len(walk.stack)
           a == walk.at
<1>1. /\ WalkInv /\ walk \in WalkType /\ Busy(walk) /\ walk.kind \in Kinds
      /\ ~walk.truncated /\ FramesOK(walk) /\ AtPlace(walk) /\ l \in Nat
      /\ a \in Places /\ walk.target \in Places /\ steady \subseteq Nodes
      /\ walk.depth \in Nat /\ TreeOK
  BY TreeAssumption
     DEF AnswerInv, WalkInv, TypeInv, TypeOK, Kept, Pending, Busy, WalkType,
         Places, Stacks
<1>2. \A i \in 1..Len(v.stack) : i \in 1..l \/ i = l + 1
  BY <1>1
<1>3. /\ Frame(a).dir = a
      /\ Frame(a).may = Entries(a) /\ Frame(a).must = Entries(a)
      /\ Entries(a) \subseteq Children(a)
      /\ \A x \in Entries(a) : x \in Nodes /\ Parent[x] = a /\ Present(x)
  BY DEF Frame, Entries, Children
<1>4. \A x \in Children(a) : InPlace(x, l + 1)
  BY <1>1, ChildPlace
<1>5. InFrame(v.stack[l + 1], l + 1)
  BY <1>3, <1>4 DEF InFrame
<1>6. FramesOK(v)
  <2>1. \A i \in 1..Len(v.stack) : InFrame(v.stack[i], i)
    BY <1>1, <1>2, <1>5 DEF FramesOK
  <2>2. walk.kind = "summary" =>
          walk.target = Root /\ Len(v.stack) <= walk.depth + 1
    BY <1>1 DEF FramesOK, Busy
  <2> QED BY <2>1, <2>2 DEF FramesOK
<1>7. ASSUME NEW n \in steady, Told[n] > 0, Leads(walk, n)
      PROVE  Coming(v, n)
  <2>1. n \in Nodes /\ n \in Places /\ a \in Above[n] /\ a # n /\ Present(n)
    BY <1>1, <1>7, ToldOnly DEF Leads, Places
  <2>2. PICK m \in Above[n] \cap Nodes : Parent[m] = a
    BY <2>1, EntryBetween
  <2>3. Present(m)
    BY <1>1, <2>1, <2>2, PresentAbove
  <2>4. m \in v.stack[l + 1].must
    BY <1>3, <2>2, <2>3 DEF Entries, Children
  <2>5. l + 1 \in 1..Len(v.stack)
    BY <1>1
  <2> QED BY <2>2, <2>4, <2>5 DEF Coming
<1>8. \A n \in steady : Told[n] > 0 => n \in v.found \/ Coming(v, n)
  <2>1. \A n : Coming(walk, n) => Coming(v, n)
    <3>1. \A i \in 1..l : i \in 1..Len(v.stack)
      BY <1>1
    <3> QED BY <3>1 DEF Coming
  <2> QED BY <1>1, <1>7, <2>1 DEF Busy
<1>9. ASSUME steady = Nodes
      PROVE  Exact(v)
  <2>1. Exact(walk) /\ Untold(walk) /\ AtUntold(walk)
    BY <1>1, <1>9 DEF Busy, Exact
  <2>2. ASSUME NEW x \in Entries(a)
        PROVE  /\ x \in Nodes /\ Above[x] = {x} \cup Above[a]
               /\ x \notin Above[a] /\ a \in Above[x]
    BY <1>1, <1>3, <2>2, AboveStep, AboveType, NoLoop
  <2>3. walk.found \subseteq Nodes
        /\ \A i \in 1..l : walk.stack[i].may \subseteq Nodes
    <3>1. \A i \in 1..l : walk.stack[i] \in FrameType
      BY <1>1 DEF WalkType, Stacks
    <3> QED BY <1>1, <3>1 DEF WalkType, FrameType
  <2>4. ASSUME NEW x \in Entries(a), NEW i \in 1..l, NEW y \in walk.stack[i].may
        PROVE  x \notin Above[y] /\ y \notin Above[x]
    <3>1. y \notin Above[a] /\ a \notin Above[y] /\ y \in Nodes /\ y \in Places
      BY <2>1, <2>3 DEF AtUntold, Places
    <3>2. x \in Above[y] => a \in Above[y]
      BY <2>2, <3>1, AboveAbove
    <3>3. a \in Above[x]
      BY <2>2
    <3>4. y # x
      BY <3>1, <3>3
    <3> QED BY <2>2, <3>1, <3>2, <3>4
  <2>5. ASSUME NEW x \in Entries(a), NEW y \in walk.found
        PROVE  x \notin Above[y]
    <3> SUFFICES ASSUME x \in Above[y] PROVE FALSE
      OBVIOUS
    <3>1. y \in Places
      BY <2>3 DEF Places
    <3>2. a \in Above[y]
      BY <2>2, <3>1, AboveAbove
    <3>3. y = a
      BY <2>1, <3>2 DEF AtUntold
    <3> QED BY <2>2, <3>3
  <2>6. ASSUME NEW x \in Entries(a), NEW y \in Entries(a), x \in Above[y]
        PROVE  x = y
    BY <2>2, <2>6
  <2>7. \A i \in 1..l : v.stack[i].may = walk.stack[i].may
    OBVIOUS
  <2>8. v.stack[l + 1].may = Entries(a)
    BY <1>3
  <2>9. ASSUME NEW i \in 1..Len(v.stack), NEW j \in 1..Len(v.stack),
               NEW x \in v.stack[i].may, NEW y \in v.stack[j].may, x \in Above[y]
        PROVE  i = j /\ x = y
    <3>1. CASE i \in 1..l /\ j \in 1..l
      BY <2>1, <2>7, <2>9, <3>1 DEF Untold
    <3>2. CASE i = l + 1 /\ j = l + 1
      BY <2>6, <2>8, <2>9, <3>2
    <3>3. CASE i = l + 1 /\ j \in 1..l
      BY <2>4, <2>7, <2>8, <2>9, <3>3
    <3>4. CASE i \in 1..l /\ j = l + 1
      BY <2>4, <2>7, <2>8, <2>9, <3>4
    <3> QED BY <1>2, <3>1, <3>2, <3>3, <3>4
  <2>10. ASSUME NEW i \in 1..Len(v.stack), NEW x \in v.stack[i].may,
                NEW y \in v.found
         PROVE  x \notin Above[y]
    <3>1. CASE i \in 1..l
      BY <2>1, <2>7, <2>10, <3>1 DEF Untold
    <3>2. CASE i = l + 1
      BY <2>5, <2>8, <2>10, <3>2
    <3> QED BY <1>2, <3>1, <3>2
  <2>11. Untold(v)
    BY <2>9, <2>10 DEF Untold
  <2> QED BY <2>1, <2>11 DEF Exact
<1>10. walk.kind \in Counted => v.count <= Limit[walk.kind]
  BY <1>1 DEF Busy
<1> QED BY <1>1, <1>6, <1>8, <1>9, <1>10 DEF Settled

LEMMA OpenKept ==
    ASSUME AnswerInv, Open
    PROVE  AnswerInv'
<1>1. /\ WalkInv /\ walk \in WalkType /\ Busy(walk) /\ walk.kind \in Kinds
      /\ ~walk.truncated /\ FramesOK(walk) /\ walk.pc = "open"
      /\ walk.count \in Nat /\ [Next]_vars
      /\ UNCHANGED <<tree, steady, lost, changes>>
  BY DEF AnswerInv, WalkInv, Sound, Kept, Pending, Busy, WalkType, Open, Next
<1>2. ASSUME NEW v \in WalkType, walk' = v, v.kind = walk.kind,
             v.target = walk.target, v.depth = walk.depth, Kept(v)
      PROVE  AnswerInv'
  BY <1>1, <1>2, OwnKept
<1>3. CASE /\ walk.kind = "summary" /\ Full
           /\ walk' = Continue([walk EXCEPT !.truncated = TRUE])
  <2>1. PICK u : u = [walk EXCEPT !.truncated = TRUE]
    OBVIOUS
  <2>2. /\ u \in WalkType /\ u.truncated = TRUE /\ u.stack = walk.stack
        /\ u.count = walk.count /\ u.kind = walk.kind /\ u.target = walk.target
        /\ u.depth = walk.depth
    BY <1>1, <2>1 DEF WalkType
  <2>3. walk.count = Limit[walk.kind]
    BY <1>1, <1>3, TreeAssumption DEF Busy, Full, Counted
  <2>4. FramesOK(u)
    BY <1>1, <2>2 DEF FramesOK
  <2>5. Limit[walk.kind] \in Nat
    BY <1>1, TreeAssumption
  <2>6. Settled(u)
    BY <1>1, <1>3, <2>2, <2>3, <2>4, <2>5 DEF Settled
  <2>7. walk' = Continue(u)
    BY <1>3, <2>1
  <2>8. Continue(u) \in WalkType /\ Kept(Continue(u))
    BY <2>2, <2>6, ContinueKept, ContinueKeeps
  <2>9. walk'.kind = walk.kind /\ walk'.target = walk.target
        /\ walk'.depth = walk.depth
    BY <2>2, <2>7 DEF Continue, WalkType
  <2> QED BY <1>2, <2>7, <2>8, <2>9
<1>4. CASE walk' = Fail(walk)
  <2>1. walk' = Fail(walk)
    BY <1>4
  <2>2. walk'.kind = walk.kind /\ walk'.target = walk.target
        /\ walk'.depth = walk.depth
    BY <1>1, <2>1 DEF Fail, WalkType
  <2> QED BY <1>1, <1>2, <2>1, <2>2, FailKept, FailKeeps
<1>5. CASE /\ Present(walk.at)
           /\ walk' = [walk EXCEPT !.pc = "reading",
                                   !.stack = Append(@, Frame(walk.at))]
  <2> DEFINE stack == Append(walk.stack, Frame(walk.at))
  <2>1. PICK v : v = [walk EXCEPT !.pc = "reading", !.stack = stack]
    OBVIOUS
  <2>2. walk' = v
    BY <1>1, <1>5, <2>1 DEF WalkType
  <2>3. Frame(walk.at) \in FrameType /\ walk.stack \in Seq(FrameType)
        /\ Len(walk.stack) \in Nat
    BY <1>1, NewFrame DEF WalkType, Stacks
  <2>4. /\ stack \in Stacks /\ Len(stack) = Len(walk.stack) + 1
        /\ \A i \in 1..Len(walk.stack) : stack[i] = walk.stack[i]
        /\ stack[Len(walk.stack) + 1] = Frame(walk.at)
    BY <2>3, AppendProperties DEF Stacks
  <2> HIDE DEF stack
  <2>5. /\ v \in WalkType /\ v.pc = "reading" /\ v.stack = stack
        /\ v.kind = walk.kind /\ v.target = walk.target /\ v.depth = walk.depth
        /\ v.count = walk.count /\ v.found = walk.found
        /\ v.truncated = walk.truncated
    BY <1>1, <2>1, <2>4 DEF WalkType
  <2>6. Settled(v)
    BY <1>1, <1>5, <2>4, <2>5, PushKept
  <2>7. Kept(v)
    BY <2>5, <2>6 DEF Kept, Pending
  <2> QED BY <1>2, <2>2, <2>5, <2>7
<1> QED BY <1>3, <1>4, <1>5 DEF Open

LEMMA StreamKept ==
    ASSUME AnswerInv, StreamFails
    PROVE  AnswerInv'
<1>1. /\ walk \in WalkType /\ walk' = Fail(walk) /\ [Next]_vars
      /\ UNCHANGED <<tree, steady, lost, changes>>
  BY DEF AnswerInv, WalkInv, Sound, StreamFails, Next
<1>2. walk'.kind = walk.kind /\ walk'.target = walk.target
      /\ walk'.depth = walk.depth
  BY <1>1 DEF Fail, WalkType
<1> QED BY <1>1, <1>2, FailKept, OwnKept

(* The file is told with its matches, up to the limit.                     *)
LEMMA ReadKept ==
    ASSUME AnswerInv, Read
    PROVE  AnswerInv'
<1> DEFINE a == walk.at
<1>1. /\ walk.pc = "read" /\ [Next]_vars
      /\ UNCHANGED <<tree, steady, lost, changes>>
  BY DEF Read, Next
<1>2. /\ WalkInv /\ TypeInv /\ walk \in WalkType /\ Busy(walk)
      /\ walk.kind \in {"search", "references"} /\ ~walk.truncated
      /\ FramesOK(walk) /\ a \in Nodes /\ Forms[a] # {"dir"}
      /\ walk.target \in Places /\ steady \subseteq Nodes
      /\ a \in steady => tree[a] \notin Large \cup {"link"}
      /\ walk.count \in Nat /\ Limit[walk.kind] \in Nat
  BY <1>1, LookFacts, TreeAssumption DEF Busy, WalkType, Kinds
<1>3. ASSUME NEW n \in Nodes, Told[n] > 0, a \in Above[n]
      PROVE  a = n
  BY <1>2, <1>3, AboveIsDirectory DEF Places
<1>4. InScope(a)
  BY <1>1, <1>2, PlaceInScope DEF Busy, Kinds
<1>5. ASSUME NEW v \in WalkType, walk' = v, v.kind = walk.kind,
             v.target = walk.target, v.depth = walk.depth, Kept(v)
      PROVE  AnswerInv'
  BY <1>1, <1>5, OwnKept
<1>6. ASSUME NEW w \in WalkType, walk' = Continue(w), w.kind = walk.kind,
             w.target = walk.target, w.depth = walk.depth, Settled(w)
      PROVE  AnswerInv'
  <2>1. Continue(w) \in WalkType /\ Kept(Continue(w))
    BY <1>6, ContinueKept, ContinueKeeps
  <2>2. walk'.kind = walk.kind /\ walk'.target = walk.target
        /\ walk'.depth = walk.depth
    BY <1>6 DEF Continue, WalkType
  <2> QED BY <1>5, <1>6, <2>1, <2>2
<1>7. ASSUME a \in steady => Told[a] = 0
      PROVE  Settled(walk)
  <2>1. ASSUME NEW n \in steady, Told[n] > 0, Leads(walk, n)
        PROVE  FALSE
    <3>1. a = n
      BY <1>2, <1>3, <2>1 DEF Leads
    <3> QED BY <1>7, <2>1, <3>1
  <2> QED BY <1>2, <2>1, BusySettles
<1>8. PICK content \in Reading(a) :
        walk' = CASE content \in {"none", "sealed"} /\ walk.kind = "search" ->
                       Fail(walk)
                  [] content \in Texts -> Search(walk, a, Hits[content])
                  [] OTHER -> Continue(walk)
  BY DEF Read
<1>9. /\ content \in Texts => /\ content \notin {"none", "sealed"}
                              /\ Hits[content] \in Nat
      /\ a \in steady => tree[a] = content
      /\ content # "none" /\ a \in steady => Present(a)
  <2>1. a \in steady => tree[a] = content
    BY <1>2 DEF Reading
  <2> QED BY <1>2, <2>1, TreeAssumption DEF Present
<1>10. CASE content \in {"none", "sealed"} /\ walk.kind = "search"
  <2>1. walk' = Fail(walk)
    BY <1>8, <1>9, <1>10
  <2>2. walk'.kind = walk.kind /\ walk'.target = walk.target
        /\ walk'.depth = walk.depth
    BY <1>2, <2>1 DEF Fail, WalkType
  <2> QED BY <1>2, <1>5, <2>1, <2>2, FailKept, FailKeeps
<1>11. CASE content \in Texts
  <2>1. walk' = Search(walk, a, Hits[content])
    BY <1>8, <1>9, <1>11
  <2>2. a \in steady => Told[a] = Hits[content]
    <3>1. a \in steady => Weight(a) = Hits[content]
      BY <1>2, <1>4, <1>9, <1>11 DEF Weight
    <3> QED BY <1>2, <3>1 DEF Told
  <2>3. CASE Hits[content] = 0
    <3>1. walk' = Continue(walk)
      BY <2>1, <2>3 DEF Search
    <3> QED BY <1>2, <1>6, <1>7, <2>2, <2>3, <3>1
  <2>4. CASE Hits[content] # 0
    <3> DEFINE c == walk.count + Hits[content]
               f == walk.found \cup {a}
    <3>1. PICK u : u = [walk EXCEPT !.count = c, !.found = f]
      OBVIOUS
    <3>2. c \in Nat /\ f \in SUBSET Nodes
      BY <1>2, <1>9, <1>11 DEF WalkType
    <3> HIDE DEF c, f
    <3>3. /\ u \in WalkType /\ u.count = c /\ u.found = f /\ u.at = a
          /\ u.stack = walk.stack /\ u.pc = "read" /\ u.kind = walk.kind
          /\ u.target = walk.target /\ u.depth = walk.depth
          /\ u.truncated = walk.truncated
      BY <1>1, <1>2, <3>1, <3>2 DEF WalkType
    <3>4. walk' = IF c < Limit[walk.kind] THEN Continue(u)
                  ELSE CutShort([u EXCEPT !.count = Limit[walk.kind]])
      <4>1. Search(walk, a, Hits[content]) =
              IF u.count < Limit[u.kind] THEN Continue(u)
              ELSE CutShort([u EXCEPT !.count = Limit[u.kind]])
        BY <2>4, <3>1 DEF Search, c, f
      <4> QED BY <2>1, <3>3, <4>1
    <3>5. CASE c < Limit[walk.kind]
      <4>1. walk.kind \notin Counted
        BY <1>2 DEF Counted
      <4>2. steady = Nodes => u.count = walk.count + Told[walk.at]
        BY <1>2, <2>2, <3>3 DEF c
      <4>3. \A n \in steady :
              ~(Told[n] > 0 /\ walk.at \in Above[n] /\ walk.at # n)
        BY <1>2, <1>3
      <4>4. u.found = walk.found \cup {walk.at}
        BY <3>3 DEF f
      <4>5. Settled(u)
        BY <1>1, <1>2, <3>3, <4>1, <4>2, <4>3, <4>4, TellsKept
      <4> QED BY <1>6, <3>3, <3>4, <3>5, <4>5
    <3>6. CASE ~(c < Limit[walk.kind])
      <4>1. PICK t : t = [u EXCEPT !.count = Limit[walk.kind]]
        OBVIOUS
      <4>2. /\ t \in WalkType /\ t.count = Limit[walk.kind] /\ t.kind = walk.kind
            /\ t.target = walk.target /\ t.depth = walk.depth
        BY <1>2, <3>3, <4>1 DEF WalkType
      <4>3. walk' = CutShort(t)
        BY <3>4, <3>6, <4>1
      <4>4. CutShort(t) \in WalkType /\ Kept(CutShort(t))
        BY <1>2, <4>2, CutShortEnds, CutShortKept DEF Kinds
      <4>5. walk'.kind = walk.kind /\ walk'.target = walk.target
            /\ walk'.depth = walk.depth
        BY <4>2, <4>3 DEF CutShort, WalkType
      <4> QED BY <1>5, <4>3, <4>4, <4>5
    <3> QED BY <3>5, <3>6
  <2> QED BY <2>3, <2>4
<1>12. CASE /\ content \notin Texts
            /\ ~(content \in {"none", "sealed"} /\ walk.kind = "search")
  <2>1. walk' = Continue(walk)
    BY <1>8, <1>12
  <2>2. a \in steady => Told[a] = 0
    <3>1. a \in steady => Weight(a) = 0
      BY <1>2, <1>9, <1>12 DEF Weight
    <3> QED BY <1>2, <3>1 DEF Told
  <2> QED BY <1>2, <1>6, <1>7, <2>1, <2>2
<1> QED BY <1>10, <1>11, <1>12

(* A walk that begins has all of its scope before it.                      *)
LEMMA StartKept ==
    ASSUME AnswerInv, NEW kind \in Kinds, NEW target \in Nodes \cup {Root},
           NEW depth \in 0..MaxDepth, NEW pc \in {"look", "open", "refused"},
           pc = "look" => kind \notin {"summary", "list"},
           pc = "open" => kind \in {"summary", "list"},
           kind = "summary" => target = Root,
           Start(kind, target, depth, pc), WalkInv'
    PROVE  AnswerInv'
<1>1. /\ walk'.kind = kind /\ walk'.target = target /\ walk'.at = target
      /\ walk'.depth = depth /\ walk'.pc = pc /\ walk'.stack = <<>>
      /\ walk'.count = 0 /\ walk'.found = {} /\ walk'.truncated = FALSE
      /\ steady' = Nodes /\ UNCHANGED tree
  BY DEF Start, NoWalk
<1>2. TreeOK' /\ TypeInv'
  BY <1>1 DEF AnswerInv, TreeOK, Present, WalkInv
<1>3. /\ Len(walk'.stack) = 0 /\ depth \in Nat /\ Limit[kind] \in Nat \ {0}
      /\ target \in Places
  BY <1>1, TreeAssumption DEF Places
<1>4. CASE pc = "refused"
  BY <1>1, <1>2, <1>4 DEF AnswerInv, Kept, Pending
<1>5. CASE pc # "refused"
  <2>1. FramesOK(walk)'
    BY <1>1, <1>3 DEF FramesOK
  <2>2. AtPlace(walk)'
    BY <1>1 DEF AtPlace
  <2>3. ASSUME NEW n \in Nodes, Told'[n] > 0
        PROVE  Leads(walk, n)'
    <3>1. InScope(n)'
      <4>1. Weight(n)' > 0
        BY <2>3 DEF Told
      <4>2. ~InScope(n)' => Weight(n)' = 0
        BY DEF Weight
      <4> QED BY <4>1, <4>2
    <3>2. n \in Places /\ Parent[n] \in Places /\ n # Root
      BY ParentType DEF Places
    <3>3. CASE kind = "summary"
      <4>1. target \in Above[n] /\ target # n
        BY <1>5, <3>2, <3>3, AboveType
      <4> QED BY <1>1, <4>1 DEF Leads
    <3>4. CASE kind = "list"
      <4>1. Parent[n] = target
        BY <1>1, <3>1, <3>4 DEF InScope
      <4>2. target \in Above[n] /\ target # n
        BY <3>2, <4>1, AboveStep, AboveType, NoLoop
      <4> QED BY <1>1, <4>2 DEF Leads
    <3>5. CASE kind \in {"search", "references", "map"}
      <4>1. target \in Above[n]
        BY <1>1, <3>1, <3>5 DEF InScope
      <4> QED BY <1>1, <1>5, <3>5, <4>1 DEF Leads
    <3> QED BY <3>3, <3>4, <3>5 DEF Kinds
  <2>4. Exact(walk)' /\ AtUntold(walk)'
    <3>1. \A n \in Nodes : Told'[n] \in Nat
      <4>1. \A t \in Texts : Hits[t] \in Nat
        BY TreeAssumption
      <4>2. \A n \in Nodes : Weight(n)' \in Nat
        BY <1>1, <4>1 DEF Weight, Kinds
      <4> QED BY <4>2 DEF Told
    <3>2. Tally(Told', {}) = 0
      BY <3>1, TallyFacts
    <3>3. (Tally(Told, walk.found))' = Tally(Told', {})
      BY <1>1
    <3> QED BY <1>1, <1>3, <3>2, <3>3 DEF Exact, Untold, AtUntold
  <2>5. Busy(walk)'
    BY <1>1, <1>3, <1>5, <2>1, <2>2, <2>3, <2>4 DEF Busy, Counted, Kinds
  <2>6. Kept(walk)'
    BY <1>1, <1>5, <2>5 DEF Kept, Pending
  <2> QED BY <1>2, <2>6 DEF AnswerInv
<1> QED BY <1>4, <1>5

LEMMA RequestKept ==
    ASSUME AnswerInv, Request
    PROVE  AnswerInv'
<1>1. WalkInv' /\ Targets \subseteq Nodes \cup {Root} /\ 0 \in 0..MaxDepth
  BY RequestStep, TreeAssumption DEF AnswerInv
<1>2. ASSUME NEW target \in Targets, SearchFiles(target)
      PROVE  AnswerInv'
  <2>1. Start("search", target, 0, IF Present(target) THEN "look" ELSE "refused")
    BY <1>2 DEF SearchFiles
  <2> QED BY <1>1, <2>1, StartKept DEF Kinds
<1>3. ASSUME NEW target \in Targets, CodeReferences(target)
      PROVE  AnswerInv'
  <2>1. Start("references", target, 0,
              IF Present(target) THEN "look" ELSE "refused")
    BY <1>3 DEF CodeReferences
  <2> QED BY <1>1, <2>1, StartKept DEF Kinds
<1>4. ASSUME NEW target \in Targets, ListDirectory(target)
      PROVE  AnswerInv'
  <2>1. Start("list", target, 0,
              IF Metadata(target) = "dir" THEN "open" ELSE "refused")
    BY <1>4 DEF ListDirectory
  <2> QED BY <1>1, <2>1, StartKept DEF Kinds
<1>5. ASSUME NEW depth \in 0..MaxDepth, TreeSummary(depth)
      PROVE  AnswerInv'
  <2>1. Start("summary", Root, depth, "open")
    BY <1>5 DEF TreeSummary
  <2> QED BY <1>1, <2>1, StartKept DEF Kinds
<1>6. ASSUME RepositoryMap
      PROVE  AnswerInv'
  <2>1. Start("map", Root, 0, "look")
    BY <1>6 DEF RepositoryMap
  <2> QED BY <1>1, <2>1, StartKept DEF Kinds
<1> QED BY <1>2, <1>3, <1>4, <1>5, <1>6 DEF Request

(* An entry that comes or goes takes no other from the streams, and what   *)
(* has something in it neither comes nor goes.                             *)
LEMMA ChangeStreams ==
    ASSUME AnswerInv, NEW n \in Nodes, NEW content \in Contents(n),
           Change(n, content)
    PROVE  /\ Len(walk'.stack) = Len(walk.stack)
           /\ \A i \in 1..Len(walk.stack) :
                LET old == walk.stack[i]  new == walk'.stack[i]
                IN  /\ \/ new.dir = old.dir
                       \/ new.dir = Gone /\ old.dir = n /\ old.must = {}
                    /\ new.may \subseteq
                         old.may \cup (IF Parent[n] = old.dir THEN {n} ELSE {})
                    /\ new.must \subseteq old.must /\ old.must \ {n} \subseteq new.must
                    /\ n \in new.must => tree[n] # "none" /\ content # "none"
           /\ walk'.kind = walk.kind /\ walk'.target = walk.target
           /\ walk'.depth = walk.depth /\ walk'.pc = walk.pc /\ walk'.at = walk.at
           /\ walk'.count = walk.count /\ walk'.found = walk.found
           /\ walk'.truncated = walk.truncated
           /\ tree[n] = "none" \/ content = "none" =>
                \A m \in Nodes : m # n /\ Present(m) => n \notin Above[m]
<1>1. /\ walk \in WalkType /\ walk.stack \in Seq(FrameType)
      /\ Len(walk.stack) \in Nat /\ DOMAIN walk.stack = 1..Len(walk.stack)
      /\ \A i \in 1..Len(walk.stack) : walk.stack[i] \in FrameType
      /\ TreeOK /\ walk.pc \in {"look", "open", "read", "reading"} /\ n # Root
  BY ParentType DEF AnswerInv, WalkInv, Sound, WalkType, Stacks, Change
<1>2. FramesOK(walk)
  BY <1>1 DEF AnswerInv, Kept, Pending, Settled, Busy
<1>3. ASSUME NEW m \in Nodes, Present(m), Parent[m] = n
      PROVE  tree[n] # "none" /\ content # "none"
  <2>1. Present(n)
    BY <1>1, <1>3 DEF TreeOK
  <2>2. m \in Entries(n)
    BY <1>3 DEF Entries, Children
  <2> QED BY <1>1, <2>1, <2>2 DEF Present, Change
<1>4. ASSUME tree[n] = "none" \/ content = "none",
             NEW m \in Nodes, m # n, Present(m), n \in Above[m]
      PROVE  FALSE
  <2>1. m \in Places
    BY DEF Places
  <2>2. PICK k \in Above[m] \cap Nodes : Parent[k] = n
    BY <1>4, <2>1, EntryBetween
  <2>3. Present(k)
    BY <1>1, <1>4, <2>1, <2>2, PresentAbove
  <2> QED BY <1>3, <1>4, <2>2, <2>3
<1>5. CASE walk' = walk /\ tree[n] # "none" /\ content # "none"
  BY <1>1, <1>5
<1>6. CASE /\ tree[n] = "none" \/ content = "none"
           /\ walk' = [walk EXCEPT !.stack = [i \in DOMAIN @ |-> Seen(@[i], n)]]
  <2> DEFINE s == [i \in DOMAIN walk.stack |-> Seen(walk.stack[i], n)]
  <2>1. ASSUME NEW i \in 1..Len(walk.stack)
        PROVE  LET old == walk.stack[i]  new == Seen(old, n)
               IN  /\ new \in FrameType
                   /\ \/ new.dir = old.dir
                      \/ new.dir = Gone /\ old.dir = n /\ old.must = {}
                   /\ new.may \subseteq
                        old.may \cup (IF Parent[n] = old.dir THEN {n} ELSE {})
                   /\ new.must = old.must \ {n}
    <3>1. PICK old \in FrameType : old = walk.stack[i]
      BY <1>1
    <3>2. \A x \in old.must : Parent[x] = old.dir /\ Present(x) /\ x \in Nodes
      BY <1>2, <3>1 DEF FramesOK, InFrame, FrameType
    <3>3. old.dir = n => old.must = {}
      BY <1>3, <1>6, <3>2
    <3>4. PICK new : new = Seen(old, n)
      OBVIOUS
    <3>5. /\ new.dir = (IF old.dir = n THEN Gone ELSE old.dir)
          /\ new.may = (IF tree[n] = "none" /\ Parent[n] = old.dir
                          THEN old.may \cup {n} ELSE old.may)
          /\ new.must = old.must \ {n}
      BY <3>1, <3>4 DEF Seen, FrameType
    <3>6. new \in FrameType
      BY <3>4, SeenFrame
    <3> QED BY <3>1, <3>3, <3>4, <3>5, <3>6
  <2>2. s \in [1..Len(walk.stack) -> FrameType]
    BY <1>1, <2>1
  <2>3. s \in Stacks /\ Len(s) = Len(walk.stack)
    <3>1. s \in Seq(FrameType)
      <4> HIDE DEF s
      <4> QED BY <1>1, <2>2, SeqDef
    <3>2. DOMAIN s = 1..Len(walk.stack)
      BY <2>2
    <3> HIDE DEF s
    <3> QED BY <1>1, <3>1, <3>2 DEF Stacks
  <2>4. \A i \in 1..Len(walk.stack) : s[i] = Seen(walk.stack[i], n)
    BY <1>1
  <2>5. walk' = [walk EXCEPT !.stack = s]
    BY <1>6
  <2> HIDE DEF s
  <2>6. /\ walk'.stack = s /\ walk'.kind = walk.kind /\ walk'.target = walk.target
        /\ walk'.depth = walk.depth /\ walk'.pc = walk.pc /\ walk'.at = walk.at
        /\ walk'.count = walk.count /\ walk'.found = walk.found
        /\ walk'.truncated = walk.truncated
    BY <1>1, <2>5 DEF WalkType
  <2>7. ASSUME NEW i \in 1..Len(walk.stack)
        PROVE  LET old == walk.stack[i]  new == walk'.stack[i]
               IN  /\ \/ new.dir = old.dir
                      \/ new.dir = Gone /\ old.dir = n /\ old.must = {}
                   /\ new.may \subseteq
                        old.may \cup (IF Parent[n] = old.dir THEN {n} ELSE {})
                   /\ new.must = old.must \ {n}
    BY <2>1, <2>4, <2>6
  <2> QED BY <1>4, <1>6, <2>3, <2>6, <2>7
<1>7. \/ walk' = walk /\ tree[n] # "none" /\ content # "none"
      \/ /\ tree[n] = "none" \/ content = "none"
         /\ walk' = [walk EXCEPT !.stack = [i \in DOMAIN @ |-> Seen(@[i], n)]]
  BY DEF Change
<1> QED BY <1>5, <1>6, <1>7

(* A change of the tree takes nothing that was there all the time from     *)
(* what is still to come.                                                  *)
LEMMA ChangeKept ==
    ASSUME AnswerInv, NEW n \in Nodes, NEW content \in Contents(n),
           Change(n, content)
    PROVE  AnswerInv'
<1> DEFINE l == Len(walk.stack)
<1>1. /\ WalkInv' /\ TypeInv /\ TreeOK /\ l \in Nat /\ steady \subseteq Nodes
      /\ walk.pc \in {"look", "open", "read", "reading"} /\ n # Root
      /\ steady' = steady \ {n} /\ n \notin steady' /\ steady' # Nodes
      /\ IF content = "none" THEN Entries(n) = {} ELSE Present(Parent[n])
  <2>1. WalkInv' /\ WalkInv /\ TypeInv /\ TreeOK /\ n # Root
    BY ChangeStep, ParentType DEF AnswerInv, WalkInv
  <2>2. walk.stack \in Stacks /\ steady \subseteq Nodes
    BY <2>1 DEF TypeInv, TypeOK, WalkType
  <2>3. /\ walk.pc \in {"look", "open", "read", "reading"}
        /\ steady' = steady \ {n}
        /\ IF content = "none" THEN Entries(n) = {} ELSE Present(Parent[n])
    BY DEF Change
  <2> QED BY <2>1, <2>2, <2>3 DEF Stacks
<1>2. /\ \A m \in Nodes : tree'[m] = IF m = n THEN content ELSE tree[m]
      /\ \A m \in Places : m # n => (Present(m)' <=> Present(m))
      /\ Present(n)' <=> content # "none"
  <2>1. \A m \in Nodes : tree'[m] = IF m = n THEN content ELSE tree[m]
    BY <1>1 DEF Change, TypeInv
  <2> QED BY <1>1, <2>1 DEF Present, Places
<1>3. /\ Len(walk'.stack) = l
      /\ \A i \in 1..l :
           LET old == walk.stack[i]  new == walk'.stack[i]
           IN  /\ \/ new.dir = old.dir
                  \/ new.dir = Gone /\ old.dir = n /\ old.must = {}
               /\ new.may \subseteq
                    old.may \cup (IF Parent[n] = old.dir THEN {n} ELSE {})
               /\ new.must \subseteq old.must /\ old.must \ {n} \subseteq new.must
               /\ n \in new.must => tree[n] # "none" /\ content # "none"
      /\ walk'.kind = walk.kind /\ walk'.target = walk.target
      /\ walk'.depth = walk.depth /\ walk'.pc = walk.pc /\ walk'.at = walk.at
      /\ walk'.count = walk.count /\ walk'.found = walk.found
      /\ walk'.truncated = walk.truncated
      /\ tree[n] = "none" \/ content = "none" =>
           \A m \in Nodes : m # n /\ Present(m) => n \notin Above[m]
  BY ChangeStreams
<1>4. TreeOK'
  <2> SUFFICES ASSUME NEW m \in Nodes, Present(m)' PROVE Present(Parent[m])'
    BY DEF TreeOK
  <2>1. Parent[m] \in Places
    BY ParentType
  <2>2. CASE m = n
    <3>1. content # "none" /\ Present(Parent[n])
      BY <1>1, <1>2, <2>2
    <3>2. Parent[n] # n
      BY <2>1, <2>2, NoLoop, AboveType
    <3> QED BY <1>2, <2>1, <2>2, <3>1, <3>2
  <2>3. CASE m # n
    <3>1. Present(m) /\ Present(Parent[m])
      BY <1>1, <1>2, <2>3 DEF TreeOK, Places
    <3>2. CASE Parent[m] = n
      <4>1. m \in Entries(n)
        BY <3>1, <3>2 DEF Entries, Children
      <4> QED BY <1>1, <1>2, <3>2, <4>1
    <3> QED BY <1>2, <2>1, <3>1, <3>2
  <2> QED BY <2>2, <2>3
<1>5. \A m \in steady' : m \in steady /\ m \in Nodes /\ m # n /\ Told'[m] = Told[m]
  <2> SUFFICES ASSUME NEW m \in steady'
               PROVE  m \in steady /\ m \in Nodes /\ m # n /\ Told'[m] = Told[m]
    OBVIOUS
  <2>1. m \in steady /\ m \in Nodes /\ m # n
    BY <1>1
  <2>2. tree'[m] = tree[m]
    BY <1>2, <2>1
  <2>3. InScope(m)' <=> InScope(m)
    BY <1>3 DEF InScope
  <2>4. Weight(m)' = Weight(m)
    BY <1>3, <2>2, <2>3 DEF Weight, Present, Texts, Files
  <2> QED BY <2>1, <2>4 DEF Told
<1>6. \A x, i : InPlace(x, i)' <=> InPlace(x, i)
  BY <1>3 DEF InPlace
<1>7. \A x \in Children(Gone) : FALSE
  <2>1. \A x \in Nodes : Parent[x] # Gone
    BY TreeAssumption
  <2> QED BY <2>1 DEF Children
<1>8. FramesOK(walk) => FramesOK(walk)'
  <2> SUFFICES ASSUME FramesOK(walk), NEW i \in 1..l
               PROVE  InFrame(walk.stack[i], i)'
    BY <1>3 DEF FramesOK
  <2>1. PICK old : old = walk.stack[i]
    OBVIOUS
  <2>2. PICK new : new = walk'.stack[i]
    OBVIOUS
  <2>3. /\ \/ new.dir = old.dir
           \/ new.dir = Gone /\ old.dir = n /\ old.must = {}
        /\ new.may \subseteq
             old.may \cup (IF Parent[n] = old.dir THEN {n} ELSE {})
        /\ new.must \subseteq old.must
        /\ n \in new.must => tree[n] # "none" /\ content # "none"
    BY <1>3, <2>1, <2>2
  <2>4. /\ \A x \in old.may : InPlace(x, i)
        /\ \A x \in Children(old.dir) : InPlace(x, i)
        /\ \A x \in old.must : Parent[x] = old.dir /\ Present(x)
    BY <2>1 DEF FramesOK, InFrame
  <2>5. old.must \subseteq Nodes
    <3>1. walk.stack[i] \in FrameType
      BY <1>1 DEF TypeInv, TypeOK, WalkType, Stacks
    <3> QED BY <2>1, <3>1 DEF FrameType
  <2>6. \A x \in new.may : InPlace(x, i)'
    BY <1>6, <2>3, <2>4 DEF Children
  <2>7. \A x \in Children(new.dir) : InPlace(x, i)'
    BY <1>6, <1>7, <2>3, <2>4
  <2>8. \A x \in new.must : Parent[x] = new.dir /\ Present(x)'
    BY <1>2, <2>3, <2>4, <2>5 DEF Places
  <2> QED BY <2>2, <2>6, <2>7, <2>8 DEF InFrame, Children
<1>9. ASSUME NEW m \in steady', Told'[m] > 0, Coming(walk, m)
      PROVE  Coming(walk, m)'
  <2>1. m \in Nodes /\ m # n /\ Present(m)
    BY <1>5, <1>9, ToldOnly
  <2>2. PICK i \in 1..l : walk.stack[i].must \cap Above[m] # {}
    BY <1>9 DEF Coming
  <2>3. PICK x \in walk.stack[i].must : x \in Above[m]
    BY <2>2
  <2>4. x \in walk'.stack[i].must
    <3>1. CASE x # n
      BY <1>3, <2>3, <3>1
    <3>2. CASE x = n
      <4>1. tree[n] # "none" /\ content # "none"
        BY <1>3, <2>1, <2>3, <3>2
      <4>2. walk' = walk
        BY <4>1 DEF Change
      <4> QED BY <2>3, <4>2
    <3> QED BY <3>1, <3>2
  <2> QED BY <1>3, <2>3, <2>4 DEF Coming
<1>10. ASSUME walk.pc = "reading"
       PROVE  Settled(walk)'
  <2>1. Settled(walk)
    BY <1>10 DEF AnswerInv, Kept
  <2>2. walk.stack = <<>> => walk'.stack = <<>>
    <3>1. walk'.stack \in Seq(FrameType)
      BY <1>1 DEF WalkInv, TypeInv, TypeOK, WalkType, Stacks
    <3> QED BY <1>3, <3>1
  <2>3. \A m \in steady' : ~walk'.truncated /\ Told'[m] > 0 =>
           m \in walk'.found \/ Coming(walk, m)'
    BY <1>3, <1>5, <1>9, <2>1 DEF Settled
  <2> QED BY <1>1, <1>3, <1>8, <2>1, <2>2, <2>3 DEF Settled, Counted, Kinds
<1>11. ASSUME walk.pc \in Pending
       PROVE  Busy(walk)'
  <2>1. Busy(walk)
    BY <1>11 DEF AnswerInv, Kept
  <2>2. AtPlace(walk)'
    <3>1. walk.stack = <<>> => walk'.stack = <<>>
      <4>1. walk'.stack \in Seq(FrameType)
        BY <1>1 DEF WalkInv, TypeInv, TypeOK, WalkType, Stacks
      <4> QED BY <1>3, <4>1
    <3> QED BY <1>3, <1>6, <2>1, <3>1 DEF Busy, AtPlace
  <2>3. \A m \in steady' : Told'[m] > 0 =>
           m \in walk'.found \/ Coming(walk, m)' \/ Leads(walk, m)'
    BY <1>3, <1>5, <1>9, <2>1 DEF Busy, Leads
  <2>4. walk.at \in steady' => tree'[walk.at] = tree[walk.at]
    BY <1>2, <1>5
  <2> QED BY <1>1, <1>3, <1>5, <1>8, <2>1, <2>2, <2>3, <2>4
             DEF Busy, Counted, Kinds
<1> QED BY <1>1, <1>3, <1>4, <1>10, <1>11 DEF AnswerInv, Kept, Pending

-----------------------------------------------------------------------------
LEMMA InitAnswer ==
    ASSUME Init
    PROVE  AnswerInv
<1>1. WalkInv /\ walk.pc = "idle"
  BY InitWalk DEF Init, NoWalk
<1>2. TreeOK
  BY DEF Init, TreeOK
<1> QED BY <1>1, <1>2 DEF AnswerInv, Kept, Pending

LEMMA NextAnswer ==
    ASSUME AnswerInv, [Next]_vars
    PROVE  AnswerInv'
<1>1. CASE UNCHANGED vars
  <2>1. Kept(walk') /\ walk' = walk
    BY <1>1 DEF vars, AnswerInv
  <2> QED BY <1>1, <2>1, OwnKept DEF vars
<1>2. ASSUME NEW n \in Nodes, NEW content \in Contents(n), Change(n, content)
      PROVE  AnswerInv'
  BY <1>2, ChangeKept
<1>3. CASE Entry
  BY <1>3, EntryKept DEF Entry
<1> QED
  BY <1>1, <1>2, <1>3, RequestKept, EndKept, StreamKept, LookKept, OpenKept,
     ReadKept DEF Next

THEOREM AnswerInvariant == Spec => []AnswerInv
<1> QED
  BY InitAnswer, NextAnswer, PTL DEF Spec

(* Whatever the tree and whoever changes it, an answer that is not marked  *)
(* truncated has everything in its scope that was there all the time, each *)
(* counted once if nobody changed the tree, and one that is marked has as  *)
(* much as its limit allows (README.md:84, 104, 118; fs.rs:341,            *)
(* code_tools.rs:93, bonus.rs:268, repo_map.rs:44).                        *)
THEOREM NothingIsMissed == Spec => []AnswersAreWhole
<1> QED
  BY KeptIsWhole, AnswerInvariant, PTL
=============================================================================
