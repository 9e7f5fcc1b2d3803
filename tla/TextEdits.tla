------------------------------ MODULE TextEdits ------------------------------
(***************************************************************************)
(* The text algorithms of TuxBridge, as operators on sequences of          *)
(* characters: the line and exact edits of an edit plan                    *)
(* (src/src/code_tools.rs), the unique replacement of a patch              *)
(* (src/src/mutation.rs), and the positions and edits of language servers  *)
(* (src/src/lsp.rs).                                                       *)
(*                                                                         *)
(* An offset counts characters where the code counts bytes: the code only  *)
(* ever forms byte offsets of character boundaries, so the two order and   *)
(* identify positions alike.  UTF-16 code units do matter and are counted. *)
(***************************************************************************)
EXTENDS Naturals, FiniteSets, SequencesExt

CONSTANTS
    Chars,      \* the characters a text is made of
    NL, CR,     \* line feed and carriage return
    Units,      \* UTF-16 code units of a character
    Refused     \* no text: the edit is answered with an error

ASSUME CharsAssumption ==
    /\ {NL, CR} \subseteq Chars
    /\ Units \in [Chars -> {1, 2}]
    /\ Units[NL] = 1 /\ Units[CR] = 1

(* An error is neither an offset nor a text.                               *)
ASSUME RefusedAssumption == Refused \notin Nat \union Seq(Chars)

EndsWith(text, c) == text # <<>> /\ Last(text) = c

Without(text, c) == IF EndsWith(text, c) THEN Front(text) ELSE text

-----------------------------------------------------------------------------
(* Line edits.                                                             *)

(* split_inclusive('\n'): every line but the last ends in a line feed.     *)
SplitLines(text) ==
    FoldLeft(LAMBDA lines, c :
                IF lines = <<>> \/ EndsWith(Last(lines), NL)
                THEN Append(lines, <<c>>)
                ELSE Append(Front(lines), Append(Last(lines), c)),
             <<>>, text)

(* Mutant: the new text is not completed to a line.                        *)
Spliced_Bare(lines, from, to, new) ==
    FlattenSeq(SubSeq(lines, 1, from)) \o new
        \o FlattenSeq(SubSeq(lines, to + 1, Len(lines)))

(* The lines up to from, the new text, and the lines after to.             *)
Spliced(lines, from, to, new) ==
    LET break == IF /\ new # <<>> /\ ~EndsWith(new, NL)
                    /\ to < Len(lines)
                 THEN <<NL>> ELSE <<>>
    IN  FlattenSeq(SubSeq(lines, 1, from)) \o new \o break
            \o FlattenSeq(SubSeq(lines, to + 1, Len(lines)))

(* Lines are counted from 1, and the range includes both its ends.         *)
ReplaceLines(text, start, end, new) ==
    LET lines == SplitLines(text)
    IN  IF start = 0 \/ end < start \/ end > Len(lines) THEN Refused
        ELSE Spliced(lines, start - 1, end, new)

InsertLine(text, line, new, after) ==
    LET lines == SplitLines(text)
        index == IF after /\ line <= Len(lines) THEN line ELSE line - 1
    IN  IF line = 0 \/ (line > Len(lines) /\ line > 1) THEN Refused
        ELSE Spliced(lines, index, index, new)

-----------------------------------------------------------------------------
(* Exact replacement.                                                      *)

OccursAt(text, old, i) ==
    /\ i + Len(old) <= Len(text)
    /\ SubSeq(text, i + 1, i + Len(old)) = old

(* Mutant: the first match is the only one that is looked for.             *)
Matches_First(text, old) ==
    FoldLeft(LAMBDA found, i :
                IF found = <<>> /\ OccursAt(text, old, i)
                THEN Append(found, i) ELSE found,
             <<>>, [i \in 1..Len(text) |-> i - 1])

(* match_indices: after a match the scan goes on behind it.                *)
Matches(text, old) ==
    FoldLeft(LAMBDA found, i :
                IF /\ found = <<>> \/ Last(found) + Len(old) <= i
                   /\ OccursAt(text, old, i)
                THEN Append(found, i) ELSE found,
             <<>>, [i \in 1..Len(text) |-> i - 1])

Replaced(text, start, end, new) ==
    SubSeq(text, 1, start) \o new \o SubSeq(text, end + 1, Len(text))

UniqueReplace(text, old, new) ==
    LET found == Matches(text, old)
    IN  IF Len(found) # 1 THEN Refused
        ELSE Replaced(text, found[1], found[1] + Len(old), new)

-----------------------------------------------------------------------------
(* Positions.                                                              *)

Width(text) == FoldLeft(LAMBDA n, c : n + Units[c], 0, text)

LineFeeds(text) == Cardinality({i \in DOMAIN text : text[i] = NL})

(* agent_position_to_lsp: lines and columns count from 1, columns count    *)
(* characters; the end of the line includes its carriage return.           *)
AgentPositionToLsp(text, line, column) ==
    LET lines == SplitLines(text)
        ending == Without(lines[line], NL)
        source == IF ending = lines[line] THEN ending ELSE Without(ending, CR)
    IN  IF line = 0 \/ column = 0 \/ line > Len(lines) THEN Refused
        ELSE IF column - 1 > Len(source) THEN Refused
             ELSE [line |-> line - 1,
                   character |-> Width(SubSeq(source, 1, column - 1))]

(* Mutant: half of a surrogate pair is taken for the whole.                *)
LspPositionToOffset_Rounds(text, position) ==
    LET lines == SplitLines(text)
        line == position.line
        base == Len(FlattenSeq(SubSeq(lines, 1, line)))
        source == IF line < Len(lines) THEN Without(lines[line + 1], NL) ELSE <<>>
        fits == {k \in 0..Len(source) :
                   Width(SubSeq(source, 1, k))
                       \in {position.character, position.character + 1}}
    IN  IF line >= Len(lines) /\ line # LineFeeds(text) THEN Refused
        ELSE IF fits = {} THEN Refused
             ELSE base + (CHOOSE k \in fits : \A j \in fits : j <= k)

(* lsp_position_to_byte: lines count from 0, and the last one may be empty;*)
(* characters count code units and must not split a surrogate pair.        *)
LspPositionToOffset(text, position) ==
    LET lines == SplitLines(text)
        line == position.line
        base == Len(FlattenSeq(SubSeq(lines, 1, line)))
        source == IF line < Len(lines) THEN Without(lines[line + 1], NL) ELSE <<>>
        fits == {k \in 0..Len(source) :
                   Width(SubSeq(source, 1, k)) = position.character}
    IN  IF line >= Len(lines) /\ line # LineFeeds(text) THEN Refused
        ELSE IF fits = {} THEN Refused
             ELSE base + (CHOOSE k \in fits : TRUE)

-----------------------------------------------------------------------------
(* Text edits of a language server: [start, end, new], in any order.       *)

(* Mutant: edits that start together stay in the order of the server.      *)
Precedes_ByStart(edits, i, j) ==
    \/ edits[i].start > edits[j].start
    \/ edits[i].start = edits[j].start /\ i < j

(* The stable sort from the end of the text to its beginning.              *)
Precedes(edits, i, j) ==
    \/ edits[i].start > edits[j].start
    \/ edits[i].start = edits[j].start /\ edits[i].end > edits[j].end
    \/ /\ edits[i].start = edits[j].start /\ edits[i].end = edits[j].end
       /\ i < j

FromTheEnd(edits) ==
    LET place(i) == Cardinality({j \in DOMAIN edits : Precedes(edits, j, i)}) + 1
    IN  [n \in DOMAIN edits |-> edits[CHOOSE i \in DOMAIN edits : place(i) = n]]

(* Each edit is compared with its neighbour in the sorted list.            *)
Overlapping(sorted) ==
    \E n \in 1..Len(sorted) - 1 : sorted[n + 1].end > sorted[n].start

(* apply_text_edits, for ranges that have been converted to offsets.       *)
ApplyRanges(text, edits) ==
    LET sorted == FromTheEnd(edits)
    IN  IF Overlapping(sorted) THEN Refused
        ELSE FoldLeft(LAMBDA t, e : Replaced(t, e.start, e.end, e.new),
                      text, sorted)

(* apply_text_edits.                                                       *)
ApplyTextEdits(text, edits) ==
    LET at(p) == LspPositionToOffset(text, p)
        ranges == [i \in DOMAIN edits |->
                     [start |-> at(edits[i].start), end |-> at(edits[i].end),
                      new |-> edits[i].new]]
    IN  IF \/ \E i \in DOMAIN edits : Refused \in {ranges[i].start, ranges[i].end}
           \/ \E i \in DOMAIN edits : ranges[i].start > ranges[i].end
        THEN Refused
        ELSE ApplyRanges(text, ranges)
=============================================================================
