------------------------------ MODULE Document ------------------------------
(***************************************************************************)
(* A document under the edits that TuxBridge applies to texts: those of an *)
(* edit plan, one after the other (apply_edits in src/src/code_tools.rs),  *)
(* the patch of a file (src/src/mutation.rs), and the edits of a language  *)
(* server (src/src/lsp.rs).  Every short text is a state, so that the      *)
(* algorithms of TextEdits are compared with what they are meant to do at  *)
(* each of them.                                                           *)
(***************************************************************************)
EXTENDS TextEdits

CONSTANTS
    MaxLength,  \* bound of the document
    MaxNew,     \* bound of the text an edit looks for or puts in
    MaxEdited   \* bound of the documents on which edits are combined

ASSUME BoundsAssumption == {MaxLength, MaxNew, MaxEdited} \subseteq Nat

VARIABLE text

vars == <<text>>

TextsUpTo(n) == UNION {[1..k -> Chars] : k \in 0..n}

NewTexts == TextsUpTo(MaxNew)

Lines == SplitLines(text)

Edited(updated) ==
    /\ updated # Refused
    /\ Len(updated) <= MaxLength
    /\ text' = updated

LineStart(o) ==
    LET breaks == {i \in 1..o : text[i] = NL}
    IN  IF breaks = {} THEN 0 ELSE CHOOSE i \in breaks : \A j \in breaks : j <= i

(* The position that LSP gives the offset o of the document.               *)
PositionOf(o) ==
    [line |-> LineFeeds(SubSeq(text, 1, o)),
     character |-> Width(SubSeq(text, LineStart(o) + 1, o))]

-----------------------------------------------------------------------------
Init == text = <<>>

ReplaceExact ==
    \E old \in NewTexts \ {<<>>}, new \in NewTexts :
       Edited(UniqueReplace(text, old, new))

ReplaceLineRange ==
    \E start, end \in 0..Len(Lines) + 1, new \in NewTexts :
       Edited(ReplaceLines(text, start, end, new))

InsertBefore ==
    \E line \in 0..Len(Lines) + 1, new \in NewTexts :
       Edited(InsertLine(text, line, new, FALSE))

InsertAfter ==
    \E line \in 0..Len(Lines) + 1, new \in NewTexts :
       Edited(InsertLine(text, line, new, TRUE))

(* Any range of the document, in the positions of the protocol.            *)
ServerEdit ==
    \E start, end \in 0..Len(text), new \in TextsUpTo(1) :
       Edited(ApplyTextEdits(text, <<[start |-> PositionOf(start),
                                      end |-> PositionOf(end), new |-> new]>>))

Next ==
    ReplaceExact \/ ReplaceLineRange \/ InsertBefore \/ InsertAfter \/ ServerEdit

Spec == Init /\ [][Next]_vars

-----------------------------------------------------------------------------
(* Reference definitions                                                   *)

(* What comes of edits that are applied at once: at each offset the text   *)
(* inserted there, then what replaces the characters from there on.        *)
AppliedAtOnce(edits) ==
    LET at(o, inserts) ==
            {i \in DOMAIN edits : edits[i].start = o /\ (edits[i].end = o) = inserts}
        new(is) == IF is = {} THEN <<>> ELSE edits[CHOOSE i \in is : TRUE].new
        covered(o) == \E i \in DOMAIN edits :
                        edits[i].start < o /\ o <= edits[i].end
    IN  FlattenSeq([k \in 1..Len(text) + 1 |->
            new(at(k - 1, TRUE)) \o new(at(k - 1, FALSE))
                \o IF k > Len(text) \/ covered(k) THEN <<>> ELSE <<text[k]>>])

Overlap(edits) ==
    \E i, j \in DOMAIN edits :
       i # j /\ edits[i].start < edits[j].end /\ edits[j].start < edits[i].end

TwoInsertions(edits) ==
    \E i, j \in DOMAIN edits :
       /\ i # j /\ edits[i] = edits[j]
       /\ edits[i].start = edits[i].end

-----------------------------------------------------------------------------
(* Properties                                                              *)

(* CODING_ENVIRONMENT.md:49: a position of a server is taken for the one   *)
(* offset it means, and for none if it means none (half of a surrogate     *)
(* pair, beyond a line); and the position a server is given for a line and *)
(* a column of an agent means that line and that column.                   *)
PositionsRoundTrip ==
    /\ \A p \in [line : 0..Len(text) + 1, character : 0..2 * Len(text) + 1] :
          LET o == LspPositionToOffset(text, p)
          IN  IF \E q \in 0..Len(text) : PositionOf(q) = p
              THEN o \in 0..Len(text) /\ PositionOf(o) = p
              ELSE o = Refused
    /\ \A line, column \in 0..Len(text) + 2 :
          LET p == AgentPositionToLsp(text, line, column)
              o == LspPositionToOffset(text, p)
          IN  p # Refused => /\ LineFeeds(SubSeq(text, 1, o)) = line - 1
                             /\ o - LineStart(o) = column - 1

(* CODING_ENVIRONMENT.md:53: overlapping edits are rejected, and others,   *)
(* however the server orders them, have the effect of being applied at     *)
(* once.  (Of two insertions at one point the code puts the later first.)  *)
EditsApplyTogether ==
    LET offsets == 0..Len(text)
        some == {e \in [start : offsets, end : offsets, new : {<<NL>>, <<CR>>}] :
                   e.start <= e.end /\ (e.new = <<NL>>) = (e.start = e.end)}
    IN  Len(text) <= MaxEdited =>
        \A edits \in UNION {[1..k -> some] : k \in 2..3} :
           LET asked == [i \in DOMAIN edits |->
                           [start |-> PositionOf(edits[i].start),
                            end |-> PositionOf(edits[i].end),
                            new |-> edits[i].new]]
               updated == ApplyTextEdits(text, asked)
           IN  /\ Overlap(edits) <=> updated = Refused
               /\ (~Overlap(edits) /\ ~TwoInsertions(edits)) =>
                     updated = AppliedAtOnce(edits)

(* The lines outside a line edit stay as they are, and what comes between  *)
(* them is the new text: nothing is joined to it, at either end of a file  *)
(* with or without a final line feed (replace_lines, insert_line).  An     *)
(* insertion behind a last line without line feed is another matter.       *)
LinesOutsideStay ==
    \A new \in NewTexts :
       LET Keeps(updated, from, to) ==
              LET now == SplitLines(updated)
                  added == Len(SplitLines(new))
              IN  /\ Len(now) = from + added + Len(Lines) - to
                  /\ SubSeq(now, 1, from) = SubSeq(Lines, 1, from)
                  /\ SubSeq(now, from + added + 1, Len(now))
                        = SubSeq(Lines, to + 1, Len(Lines))
                  /\ IsPrefix(new, FlattenSeq(SubSeq(now, from + 1, from + added)))
       IN  /\ \A start, end \in 0..Len(Lines) + 1 :
                 LET updated == ReplaceLines(text, start, end, new)
                 IN  IF 1 <= start /\ start <= end /\ end <= Len(Lines)
                     THEN Keeps(updated, start - 1, end)
                     ELSE updated = Refused
           /\ \A line \in DOMAIN Lines :
                 /\ Keeps(InsertLine(text, line, new, FALSE), line - 1, line - 1)
                 /\ EndsWith(Lines[line], NL) =>
                       Keeps(InsertLine(text, line, new, TRUE), line, line)

(* An exact replacement changes the one place where the old text is, and   *)
(* is refused if there is none or if there are two (apply_unique_replace,  *)
(* replace_exact).  Places that overlap each other count as one.           *)
ReplacesTheOnlyMatch ==
    \A old \in NewTexts \ {<<>>}, new \in TextsUpTo(1) :
       LET places == {i \in 0..Len(text) : OccursAt(text, old, i)}
           updated == UniqueReplace(text, old, new)
       IN  /\ places = {} => updated = Refused
           /\ (\E i, j \in places : i + Len(old) <= j) => updated = Refused
           /\ \A i \in places : places = {i} =>
                 updated = SubSeq(text, 1, i) \o new
                              \o SubSeq(text, i + Len(old) + 1, Len(text))
=============================================================================
