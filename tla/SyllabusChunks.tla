--------------------------- MODULE SyllabusChunks --------------------------
(***************************************************************************)
(* How the text of a syllabus becomes chunks: its lines are gathered into  *)
(* sections under their headings, and the text of a section is cut into    *)
(* pieces that overlap a little.                                           *)
(*                                                                         *)
(* What a line looks like is its kind.  The text of a section is a         *)
(* sequence of words or phrases with their lengths, white space included:  *)
(* after each a sentence may end (stop) or a paragraph (para), and it may  *)
(* start with a small letter.                                              *)
(***************************************************************************)
EXTENDS Integers, FiniteSets, Sequences, SequencesExt

CONSTANTS
    Documents,   \* sequences of lines: kind, level and name
    Texts        \* sequences of phrases: length, ends and small

MAX_CHUNK_CHARS == 1300
TARGET_CHUNK_CHARS == 850
MIN_CHUNK_CHARS == 700
OVERLAP_CHARS == 125

LineKinds == {"navigation", "contents", "code", "title", "glued_title", "heading", "glued", "short", "sentence"}

\* No phrase is so long that a cut must fall inside it, and no section without text
\* is cut.
ASSUME ChunksAssumption ==
    /\ Documents \subseteq Seq([kind : LineKinds, level : Nat \ {0}, name : STRING])
    /\ Texts \subseteq Seq([length : 1 .. MAX_CHUNK_CHARS - MIN_CHUNK_CHARS, ends : SUBSET {"stop", "para"}, small : BOOLEAN])
    /\ <<>> \notin Texts

VARIABLES
    reading,    \* sections or chunks: what is under way; done
    lines,      \* the document
    line,       \* the next line
    title,      \* document_title, if it was found
    inContents, \* in_toc
    seenBody,
    path,       \* heading_path
    paragraphs, \* of the section under way: the lines with its text
    sections,   \* paths and paragraphs
    text,       \* the text of a section
    rest,       \* where what remains of it starts
    chunks      \* from where to where each goes

chunkVars == <<reading, lines, line, title, inContents, seenBody, path, paragraphs, sections, text, rest, chunks>>
sectionVars == <<lines, line, title, inContents, seenBody, path, paragraphs, sections>>

General == <<"General">>   \* DEFAULT_SECTION_TITLE

SectionsInit ==
    /\ reading = "sections" /\ lines \in Documents
    /\ line = 1 /\ title = {} /\ inContents = FALSE /\ seenBody = FALSE
    /\ path = General /\ paragraphs = <<>> /\ sections = <<>>
    /\ text = <<>> /\ rest = 1 /\ chunks = <<>>

PiecesInit ==
    /\ reading = "chunks" /\ text \in Texts
    /\ lines = <<>> /\ line = 1 /\ title = {} /\ inContents = FALSE /\ seenBody = FALSE
    /\ path = General /\ paragraphs = <<>> /\ sections = <<>>
    /\ rest = 1 /\ chunks = <<>>

---------------------------------------------------------------------------
(* split_into_sections.                                                    *)

Flushed == IF paragraphs = <<>> THEN sections ELSE Append(sections, [path |-> path, paragraphs |-> paragraphs])

\* _update_heading_path
Under(heading) ==
    IF heading.level = 1 THEN <<heading.name>>
    ELSE SubSeq(path, 1, IF heading.level - 1 < Len(path) THEN heading.level - 1 ELSE Len(path)) \o <<heading.name>>

\* _is_toc_entry: short lines and headings without a body.
Entry(l) == l.kind \in {"title", "heading", "short"}

\* What the table of contents hides.
Hidden(l) == inContents /\ Entry(l)

IsTitle(l) ==
    \/ l.kind \in {"title", "glued_title"} /\ title = {} /\ ~seenBody
    \/ l.kind \in {"title", "heading"} /\ title = {l.name}

ReadLine ==
    /\ reading = "sections" /\ line <= Len(lines)
    /\ line' = line + 1
    /\ LET l == lines[line]
           skipped == l.kind \in {"navigation", "contents", "code"} \/ Hidden(l)
           glued == l.kind \in {"glued", "glued_title"}
           startsSection == (l.kind = "heading" \/ glued \/ l.kind = "title") /\ title # {l.name}
       IN
       \/ /\ skipped
          /\ inContents' = (inContents \/ l.kind = "contents")
          /\ UNCHANGED <<title, seenBody, path, paragraphs, sections>>
       \/ /\ ~skipped /\ IsTitle(l)
          /\ inContents' = FALSE /\ title' = {l.name}
          /\ IF glued THEN seenBody' = TRUE /\ sections' = Flushed /\ path' = General /\ paragraphs' = <<line>>
             ELSE UNCHANGED <<seenBody, path, paragraphs, sections>>
       \/ /\ ~skipped /\ ~IsTitle(l) /\ startsSection
          /\ inContents' = FALSE /\ seenBody' = TRUE
          /\ sections' = Flushed
          /\ path' = Under(l)
          /\ paragraphs' = IF glued THEN <<line>> ELSE <<>>
          /\ UNCHANGED title
       \/ /\ ~skipped /\ ~IsTitle(l) /\ ~startsSection
          /\ inContents' = FALSE /\ seenBody' = TRUE
          /\ paragraphs' = Append(paragraphs, line)
          /\ UNCHANGED <<title, path, sections>>
    /\ UNCHANGED <<reading, lines, text, rest, chunks>>

\* A document of headings only is one section, of all its lines.
EndOfText ==
    /\ reading = "sections" /\ line > Len(lines)
    /\ reading' = "done"
    /\ sections' = IF Flushed = <<>> /\ lines # <<>>
                   THEN <<[path |-> General, paragraphs |-> [i \in DOMAIN lines |-> i]]>> ELSE Flushed
    /\ paragraphs' = <<>>
    /\ UNCHANGED <<lines, line, title, inContents, seenBody, path, text, rest, chunks>>

---------------------------------------------------------------------------
(* _chunk_section_text.  A place is the number of the phrase it is before. *)

\* The characters from one place to another.
Lengths == [i \in DOMAIN text |-> text[i].length]
Total(numbers) == FoldLeft(+, 0, numbers)
Chars(from, to) == Total(SubSeq(Lengths, from, to - 1))

End == Len(text) + 1

\* The places where a piece may end, by how far they are from its start.
Places(low, high, kind) ==
    {to \in rest + 1 .. Len(text) : Chars(rest, to) \in low .. high /\ kind \subseteq text[to - 1].ends}

LastOf(places) == CHOOSE p \in places : \A other \in places : other <= p
FirstOf(places) == CHOOSE p \in places : \A other \in places : p <= other

\* _find_paragraph_split and _find_sentence_split
Cut ==
    LET paras == Places(TARGET_CHUNK_CHARS - 200, MAX_CHUNK_CHARS, {"para"})
        stops == Places(TARGET_CHUNK_CHARS - 120, TARGET_CHUNK_CHARS + 80, {"stop"})
        spaces == Places(MIN_CHUNK_CHARS, MAX_CHUNK_CHARS, {})
    IN  LastOf(IF paras # {} THEN paras ELSE IF stops # {} THEN stops ELSE spaces)

\* The overlap; without a space in it, none.
BackFrom(cut) ==
    LET before == {p \in rest + 1 .. cut : Chars(p, cut) >= OVERLAP_CHARS} IN
    IF before = {} THEN cut ELSE LastOf(before)

\* Mutant: a continuation is put back to where its sentence began.
ContinuesAtSentence(cut) ==
    LET back == BackFrom(cut)
        starts == {p \in 1 .. back : p = 1 \/ "stop" \in text[p - 1].ends}
    IN  IF text[back].small THEN LastOf(starts) ELSE back

\* A continuation does not begin in the middle of a sentence: it begins after the
\* next one's end, or else where the piece was cut.
ContinuesAt(cut) ==
    LET back == BackFrom(cut)
        ends == {p \in back + 1 .. Len(text) : "stop" \in text[p - 1].ends}
    IN  IF ~text[back].small THEN back ELSE IF ends # {} THEN FirstOf(ends) ELSE cut

CutPiece ==
    /\ reading = "chunks" /\ Chars(rest, End) > MAX_CHUNK_CHARS
    /\ chunks' = Append(chunks, <<rest, Cut>>)
    /\ rest' = ContinuesAt(Cut)
    /\ UNCHANGED <<reading, text, sectionVars>>

LastPiece ==
    /\ reading = "chunks" /\ Chars(rest, End) <= MAX_CHUNK_CHARS
    /\ chunks' = Append(chunks, <<rest, End>>)
    /\ reading' = "done"
    /\ UNCHANGED <<text, rest, sectionVars>>

ChunkNext == ReadLine \/ EndOfText \/ CutPiece \/ LastPiece

ChunkSpec == (SectionsInit \/ PiecesInit) /\ [][ChunkNext]_chunkVars

---------------------------------------------------------------------------
(* Properties.                                                             *)

\* The lines that hold text: those of a contents block, up to the first line that
\* is not an entry, do not.
InContents(i) ==
    \E j \in 1 .. i - 1 :
        /\ lines[j].kind = "contents"
        /\ \A k \in j + 1 .. i : Entry(lines[k]) \/ lines[k].kind \in {"navigation", "contents", "code"}
BodyLines == {i \in DOMAIN lines : lines[i].kind \in {"glued", "glued_title", "short", "sentence"} /\ ~InContents(i)}
ListsInOrder(list, numbers) ==
    ToSet(list) = numbers /\ \A i, j \in DOMAIN list : i < j => list[i] < list[j]

\* Sections keep the text of the document, all of it and in its order, whatever
\* headings, titles and tables of contents stand between (split_into_sections).
SectionsKeepTheText ==
    reading = "done" /\ lines # <<>> =>
        ListsInOrder(FlattenSeq([i \in DOMAIN sections |-> sections[i].paragraphs]),
                     IF BodyLines = {} THEN DOMAIN lines ELSE BodyLines)

\* Cutting comes to an end: every piece is of the allowed length and starts after
\* the one before, whatever the overlap; and what is in no piece follows a cut
\* whose overlap began with a small letter (_chunk_section_text).
PiecesAdvance ==
    /\ \A i \in DOMAIN chunks : chunks[i][1] < chunks[i][2] /\ Chars(chunks[i][1], chunks[i][2]) <= MAX_CHUNK_CHARS
    /\ \A i \in 1 .. Len(chunks) - 1 :
        /\ chunks[i][1] < chunks[i + 1][1]
        /\ chunks[i + 1][1] > chunks[i][2] => \E p \in chunks[i][1] .. chunks[i][2] : text[p].small

ChunkSafety == SectionsKeepTheText /\ PiecesAdvance

\* The chunker preserves the policies of a syllabus: no text of a section is left
\* out of every chunk (syllabus_chunking.py, the module's docstring).
TextSurvives ==
    reading = "done" => \A i \in DOMAIN text : \E c \in DOMAIN chunks : i \in chunks[c][1] .. chunks[c][2] - 1

=============================================================================
