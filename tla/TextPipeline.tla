---------------------------- MODULE TextPipeline ----------------------------
(***************************************************************************)
(* From an upload to the prompt: transcripts are parsed into turns         *)
(* (services/knowledge/recordings.py), documents cut into overlapping      *)
(* chunks (chunker.py), and the best chunks for a query laid out for the   *)
(* assistant (retriever.py).  A character is a number, its place in the    *)
(* document; Space is any character a cut or a join may drop or add.       *)
(***************************************************************************)
EXTENDS Lists

Space == 0
Join(buf, spaces, piece) == buf \o [i \in 1..spaces |-> Space] \o piece
Flushed(out, buf) == IF buf = <<>> THEN out ELSE Append(out, buf)

-----------------------------------------------------------------------------
(* Chunks.  A paragraph is a sequence of sentences, a sentence a sequence  *)
(* of characters.                                                          *)

Text(sentences) == FoldLeft(LAMBDA buf, s : IF buf = <<>> THEN s ELSE Join(buf, 1, s), <<>>, sentences)
Whole(paragraphs) ==
    FoldLeft(LAMBDA buf, p : IF buf = <<>> THEN Text(p) ELSE Join(buf, 2, Text(p)), <<>>, paragraphs)

\* Pieces of max characters, the last one shorter.
HardCuts(sentence, max) ==
    [k \in 1 .. (Len(sentence) + max - 1) \div max |->
        SubSeq(sentence, (k - 1) * max + 1, IF k * max < Len(sentence) THEN k * max ELSE Len(sentence))]

\* One sentence more in a paragraph that is too long for a chunk.
AddSentence(state, sentence, max) ==
    IF Len(sentence) > max
    THEN [out |-> Flushed(state.out, state.buf) \o HardCuts(sentence, max), buf |-> <<>>]
    ELSE IF state.buf = <<>> THEN [state EXCEPT !.buf = sentence]
    ELSE IF Len(state.buf) + 1 + Len(sentence) <= max
    THEN [state EXCEPT !.buf = Join(state.buf, 1, sentence)]
    ELSE [out |-> Append(state.out, state.buf), buf |-> sentence]

_split_long(sentences, max) ==
    LET end == FoldLeft(LAMBDA st, s : AddSentence(st, s, max), [out |-> <<>>, buf |-> <<>>], sentences)
    IN  Flushed(end.out, end.buf)

\* Variant of AddParagraph for mutation: a long one does not flush what waits.
AddParagraphUnflushed(state, paragraph, max) ==
    LET para == Text(paragraph) IN
    IF Len(para) > max
    THEN [state EXCEPT !.out = state.out \o _split_long(paragraph, max)]
    ELSE IF state.buf = <<>> THEN [state EXCEPT !.buf = para]
    ELSE IF Len(state.buf) + 2 + Len(para) <= max
    THEN [state EXCEPT !.buf = Join(state.buf, 2, para)]
    ELSE [out |-> Flushed(state.out, state.buf), buf |-> para]

AddParagraph(state, paragraph, max) ==
    LET para == Text(paragraph) IN
    IF Len(para) > max
    THEN [out |-> Flushed(state.out, state.buf) \o _split_long(paragraph, max), buf |-> <<>>]
    ELSE IF state.buf = <<>> THEN [state EXCEPT !.buf = para]
    ELSE IF Len(state.buf) + 2 + Len(para) <= max
    THEN [state EXCEPT !.buf = Join(state.buf, 2, para)]
    ELSE [out |-> Flushed(state.out, state.buf), buf |-> para]

Tail_(chunk, n) == SubSeq(chunk, IF Len(chunk) > n THEN Len(chunk) - n + 1 ELSE 1, Len(chunk))

\* Each chunk but the first opens with the end of the one before it.
_add_overlap(chunks, overlap) ==
    [i \in DOMAIN chunks |->
        IF i = 1 THEN chunks[1] ELSE Join(Tail_(chunks[i - 1], overlap), 2, chunks[i])]

chunk_text(paragraphs, max, overlap) ==
    LET whole == Whole(paragraphs)
        end == FoldLeft(LAMBDA st, p : AddParagraph(st, p, max), [out |-> <<>>, buf |-> <<>>], paragraphs)
        chunks == Flushed(end.out, end.buf)
    IN  IF whole = <<>> THEN <<>>
        ELSE IF Len(whole) <= max THEN <<whole>>
        ELSE IF overlap > 0 /\ Len(chunks) > 1 THEN _add_overlap(chunks, overlap) ELSE chunks

-----------------------------------------------------------------------------
(* Transcripts.  A line is [kind, who, word]: "blank", "timecode", "note", *)
(* "index" (digits only), "voice" (a VTT tag and what is said), "tag" (a   *)
(* VTT tag alone), "named" (Who: ...) or "text"; word stands for what the  *)
(* line says.                                                              *)

Formats == {"vtt", "srt", "txt"}

\* The lines that end a turn in each format and say nothing in it.
Breaks == [vtt |-> {"blank", "timecode", "note"}, srt |-> {"blank", "timecode", "index"},
           txt |-> {"blank"}]

\* The lines that name their speaker, where the format is read for names at all.
Names == [vtt |-> {"voice", "tag"}, srt |-> {}, txt |-> {"named"}]

\* The lines that say nothing: of a VTT tag alone nothing is left.
Wordless == [Breaks EXCEPT !.vtt = @ \union {"tag"}]

EndTurn(st) ==
    IF st.words = <<>> THEN st
    ELSE [st EXCEPT !.turns = Append(st.turns, [speaker |-> st.speaker, text |-> st.words]),
                    !.words = <<>>]

\* Only the plain parser closes the turn before it takes the new name.
Renamed(st, line, fmt) ==
    [(IF fmt = "txt" THEN EndTurn(st) ELSE st) EXCEPT !.speaker = line.who]

ReadLine(st, line, fmt) ==
    IF line.kind \in Breaks[fmt] THEN EndTurn(st)
    ELSE LET named == IF line.kind \in Names[fmt] THEN Renamed(st, line, fmt) ELSE st
         IN  IF line.kind \in Wordless[fmt] THEN named
             ELSE [named EXCEPT !.words = Append(named.words, line.word)]

\* A VTT file's first line is its header.
Body(lines, fmt) == IF fmt = "vtt" THEN Tail(lines) ELSE lines

ParseTurns(lines, fmt) ==
    EndTurn(FoldLeft(LAMBDA st, l : ReadLine(st, l, fmt),
                     [turns |-> <<>>, words |-> <<>>, speaker |-> "Speaker"],
                     Body(lines, fmt))).turns

\* A JSON transcript is a list of "item" lines: an item that says nothing is left
\* out, one without a speaker gets the default name.
_parse_json(items) ==
    LET spoken == Where(items, LAMBDA it : it.word # "")
    IN  [i \in DOMAIN spoken |->
            [speaker |-> IF spoken[i].who = "" THEN "Speaker" ELSE spoken[i].who,
             text |-> <<spoken[i].word>>]]

\* The extension decides, else the first line does.
_detect_format(extension, lines) ==
    CASE extension \in {"vtt", "srt", "json"} -> extension
      [] extension \notin {"vtt", "srt", "json"} /\ lines[1].kind = "header" -> "vtt"
      [] extension \notin {"vtt", "srt", "json"} /\ lines[1].kind = "item" -> "json"
      [] extension \notin {"vtt", "srt", "json"} /\ lines[1].kind = "index" -> "srt"
      [] OTHER -> "txt"

parse_transcript(extension, lines) ==
    LET fmt == _detect_format(extension, lines)
    IN  [format |-> fmt, turns |-> IF fmt = "json" THEN _parse_json(lines) ELSE ParseTurns(lines, fmt)]

-----------------------------------------------------------------------------
(* Retrieval.  A chunk is [id, size, allowed, active, vector, keywords]:   *)
(* how long its block is, whether it is of a company asked for, and how it *)
(* scores by cosine ({} without an embedding) and by keyword, in           *)
(* hundredths.                                                             *)

Score(chunk, query_embedded) ==
    IF query_embedded /\ chunk.vector # {} THEN CHOOSE s \in chunk.vector : TRUE
    ELSE chunk.keywords

retrieve(chunks, query_embedded, top_k) ==
    LET rows == Where(chunks, LAMBDA c : c.allowed /\ c.active)
        scored == [i \in DOMAIN rows |-> [chunk |-> rows[i].id, size |-> rows[i].size,
                                          score |-> Score(rows[i], query_embedded)]]
    IN  FirstOf(ByScore(Where(scored, LAMBDA r : r.score > 0)), top_k)

\* Variant of Fits for mutation: the first block is held to the limit, too.
FitsAlways(lines, total, size, max) == total + size <= max

Fits(lines, total, size, max) == total + size <= max \/ lines = <<>>

\* One block more, unless one before it did not fit.
AddBlock(st, c, max) ==
    IF ~ st.open THEN st
    ELSE IF Fits(st.lines, st.total, c.size, max)
    THEN [st EXCEPT !.lines = Append(st.lines, c), !.total = st.total + c.size]
    ELSE [st EXCEPT !.open = FALSE]

\* Blocks from the best one on, until the first that does not fit any more.
format_chunks_for_prompt(found, max) ==
    FoldLeft(LAMBDA st, c : AddBlock(st, c, max),
             [lines |-> <<>>, total |-> 0, open |-> TRUE], found).lines

=============================================================================
