------------------------------ MODULE TextProofs ------------------------------
(***************************************************************************)
(* For any document, transcript, limit and overlap: nothing of it is lost, *)
(* moved or said by another (TextIsKept of module Calculations).  What a   *)
(* transcript's turns say so far, with the words that wait for their turn, *)
(* is what its lines said so far; what a document's chunks print so far,   *)
(* with the text that waits for its chunk, is what its paragraphs print so *)
(* far.  Each is an invariant of a fold, proved with module Folding.       *)
(* Texts are glued and grown by operators of their own (Glued, Longer):    *)
(* what the provers do not open they can match.                            *)
(***************************************************************************)
EXTENDS CalculationProofs, SequenceTheorems

-----------------------------------------------------------------------------
(* Texts in pieces                                                         *)

Joining == INSTANCE Folding WITH
    Op <- LAMBDA env, text, piece : text \o piece,
    Holds <- LAMBDA env, k, text : text \in Seq(env)

\* r lists the pieces joined so far.
Joined(pieces, n, S, r) ==
    /\ r \in [0..n -> Seq(S)]
    /\ r[0] = <<>>
    /\ \A k \in 1..n : r[k] = r[k - 1] \o pieces[k]

LEMMA FlattenJoins ==
    ASSUME NEW S, NEW n \in Nat, NEW pieces \in [1..n -> Seq(S)]
    PROVE  \E r : Joined(pieces, n, S, r) /\ FlattenSeq(pieces) = r[n]
<1>1. DOMAIN pieces = 1..n /\ Len(pieces) = n /\ \A k \in 1..n : pieces[k] \in Seq(S)
  OBVIOUS
<1>2. PICK q : Joining!Run(S, <<>>, n, pieces, q)
  BY <1>1, Joining!FoldRuns
<1>3. q[0] = <<>> /\ \A k \in 1..n : q[k] = q[k - 1] \o pieces[k]
  BY <1>2 DEF Joining!Run
<1>4. \A k \in 0..n : q[k] \in Seq(S)
  <2>1. <<>> \in Seq(S)
    OBVIOUS
  <2>2. \A k \in 1..n : \A x : x \in Seq(S) => x \o pieces[k] \in Seq(S)
    BY <1>1
  <2> QED
    BY <1>2, <2>1, <2>2, Joining!RunInduction
<1>5. PICK r : r = [k \in 0..n |-> q[k]]
  OBVIOUS
<1>6. \A k \in 0..n : r[k] = q[k]
  BY <1>5
<1>7. Joined(pieces, n, S, r)
  <2>1. r \in [0..n -> Seq(S)]
    BY <1>4, <1>5
  <2>2. 0 \in 0..n /\ \A k \in 1..n : k \in 0..n /\ k - 1 \in 0..n
    OBVIOUS
  <2> QED
    BY <1>3, <1>6, <2>1, <2>2 DEF Joined
<1>8. FlattenSeq(pieces) = r[n]
  <2>1. CASE n = 0
    <3>1. pieces = <<>>
      BY <1>1, <2>1
    <3> QED
      BY <1>1, <1>7, <2>1, <3>1 DEF FlattenSeq, Joined
  <2>2. CASE n # 0
    <3> DEFINE Unfolded(f) == [i \in 1..n |-> IF i = 1 THEN pieces[i] ELSE f[i - 1] \o pieces[i]]
               f0 == [i \in 1..n |-> r[i]]
    <3>1. f0 = Unfolded(f0)
      <4>1. ASSUME NEW i \in 1..n PROVE r[i] = IF i = 1 THEN pieces[i] ELSE f0[i - 1] \o pieces[i]
        <5>1. CASE i = 1
          <6>1. r[1] = r[0] \o pieces[1]
            <7>1. 1 \in 1..n /\ 1 - 1 = 0
              BY <2>2
            <7> QED
              BY <1>7, <7>1 DEF Joined
          <6>2. PICK p \in Seq(S) : p = pieces[1]
            BY <1>1, <5>1
          <6>3. <<>> \o p = p
            OBVIOUS
          <6> QED
            BY <1>7, <5>1, <6>1, <6>2, <6>3 DEF Joined
        <5>2. CASE i # 1
          <6>1. i - 1 \in 1..n
            BY <5>2
          <6>2. f0[i - 1] = r[i - 1]
            BY <6>1
          <6> HIDE DEF f0
          <6> QED
            BY <1>7, <5>2, <6>2 DEF Joined
        <5> QED
          BY <5>1, <5>2
      <4> QED
        BY <4>1
    <3>2. PICK f : f = (CHOOSE g : g = Unfolded(g)) /\ FlattenSeq(pieces) = f[n]
      BY <1>1, <2>2 DEF FlattenSeq
    <3> HIDE DEF f0, Unfolded
    <3>3. f = Unfolded(f)
      BY <3>1, <3>2
    <3>4. \A i \in 1..n : f[i] = IF i = 1 THEN pieces[i] ELSE f[i - 1] \o pieces[i]
      BY <3>3 DEF Unfolded
    <3> DEFINE T == {k \in Nat : k + 1 \in 1..n => f[k + 1] = r[k + 1]}
    <3>5. 0 \in T
      <4>1. f[1] = pieces[1]
        BY <2>2, <3>4
      <4>2. r[1] = pieces[1]
        <5>1. f0[1] = Unfolded(f0)[1]
          BY <3>1
        <5> QED
          BY <2>2, <5>1 DEF f0, Unfolded
      <4> QED
        BY <4>1, <4>2
    <3>6. ASSUME NEW k \in Nat, k \in T PROVE k + 1 \in T
      <4>1. SUFFICES ASSUME (k + 1) + 1 \in 1..n PROVE f[(k + 1) + 1] = r[(k + 1) + 1]
        OBVIOUS
      <4>2. PICK i \in 1..n : i = (k + 1) + 1 /\ i # 1 /\ i - 1 = k + 1 /\ k + 1 \in 1..n
        BY <4>1
      <4>3. f[i - 1] = r[i - 1]
        BY <3>6, <4>2
      <4>4. f[i] = f[i - 1] \o pieces[i]
        BY <3>4, <4>2
      <4>5. r[i] = r[i - 1] \o pieces[i]
        BY <1>7 DEF Joined
      <4>6. f[i] = r[i]
        BY <4>3, <4>4, <4>5
      <4> HIDE DEF T
      <4> QED
        BY <4>2, <4>6
    <3>7. Nat \subseteq T
      <4> HIDE DEF T
      <4> QED
        BY <3>5, <3>6, Joining!Induction
    <3>8. PICK k \in Nat : k + 1 = n /\ k + 1 \in 1..n
      BY <2>2
    <3>9. k \in T
      <4> HIDE DEF T
      <4> QED
        BY <3>7
    <3> QED
      BY <3>2, <3>8, <3>9
  <2> QED
    BY <2>1, <2>2
<1> QED
  BY <1>7, <1>8

AgreeOn(a, b, from, n) == \A k \in from..n : a[k] = b[k]

\* There is one way to join pieces.
LEMMA JoinedOneWay ==
    ASSUME NEW S, NEW n \in Nat, NEW pieces, NEW others, NEW m \in Nat, n <= m,
           AgreeOn(pieces, others, 1, n),
           NEW r, Joined(pieces, n, S, r), NEW q, Joined(others, m, S, q)
    PROVE  AgreeOn(r, q, 0, n)
<1> DEFINE T == {k \in Nat : k \in 0..n => r[k] = q[k]}
<1>1. 0 \in T
  BY DEF Joined
<1>2. ASSUME NEW k \in Nat, k \in T PROVE k + 1 \in T
  <2>1. SUFFICES ASSUME k + 1 \in 0..n PROVE r[k + 1] = q[k + 1]
    OBVIOUS
  <2>2. PICK i \in 1..n : i = k + 1 /\ i - 1 = k /\ i \in 1..m /\ k \in 0..n
    BY <2>1
  <2> QED
    BY <1>2, <2>2 DEF AgreeOn, Joined
<1>3. Nat \subseteq T
  <2> HIDE DEF T
  <2> QED
    BY <1>1, <1>2, Joining!Induction
<1> QED
  BY <1>3 DEF AgreeOn

LEMMA FlattenMore ==
    ASSUME NEW S, NEW pieces \in Seq(Seq(S)), NEW piece \in Seq(S)
    PROVE  /\ FlattenSeq(pieces) \in Seq(S)
           /\ FlattenSeq(Append(pieces, piece)) = FlattenSeq(pieces) \o piece
<1>1. PICK n \in Nat : n = Len(pieces) /\ pieces \in [1..n -> Seq(S)]
  OBVIOUS
<1>2. PICK more : more = Append(pieces, piece)
  OBVIOUS
<1>3. /\ more \in [1..(n + 1) -> Seq(S)] /\ more[n + 1] = piece
      /\ \A k \in 1..n : pieces[k] = more[k]
  <2>1. PICK T : T = Seq(S)
    OBVIOUS
  <2>2. pieces \in Seq(T) /\ piece \in T
    BY <2>1
  <2>3. /\ more \in Seq(T) /\ Len(more) = n + 1 /\ more[n + 1] = piece
        /\ \A k \in 1..n : pieces[k] = more[k]
    BY <1>1, <1>2, <2>2
  <2> QED
    BY <2>1, <2>3
<1>4. PICK r : Joined(pieces, n, S, r) /\ FlattenSeq(pieces) = r[n]
  BY <1>1, FlattenJoins
<1>5. PICK m \in Nat : m = n + 1 /\ n <= m
  BY <1>1
<1>6. PICK q : Joined(more, m, S, q) /\ FlattenSeq(more) = q[m]
  BY <1>3, <1>5, FlattenJoins
<1>7. r[n] = q[n]
  <2>1. n \in 0..n
    OBVIOUS
  <2>2. \A k \in 0..n : r[k] = q[k]
    <3>1. n <= m /\ AgreeOn(pieces, more, 1, n)
      BY <1>3, <1>5 DEF AgreeOn
    <3>2. Joined(pieces, n, S, r) /\ Joined(more, m, S, q)
      BY <1>4, <1>6
    <3>3. AgreeOn(r, q, 0, n)
      BY <3>1, <3>2, JoinedOneWay
    <3> QED
      BY <3>3 DEF AgreeOn
  <2> QED
    BY <2>1, <2>2
<1>8. m \in 1..m /\ m - 1 = n /\ more[m] = piece
  BY <1>3, <1>5
<1>9. q[m] = q[n] \o piece
  BY <1>6, <1>8 DEF Joined
<1>10. r[n] \in Seq(S)
  BY <1>4 DEF Joined
<1> QED
  BY <1>2, <1>4, <1>6, <1>7, <1>9, <1>10

-----------------------------------------------------------------------------
(* Transcripts (knowledge/recordings.py)                                   *)

\* The provers do not know of a string that it is one.
Speakers == STRING \union {"Speaker"}

Turns == [speaker: Speakers, text: Seq(Int)]

Readings == [turns: Seq(Turns), words: Seq(Int), speaker: Speakers]

TextsOf(turns) == [t \in DOMAIN turns |-> turns[t].text]

\* What was read so far, in its order.
SaidBy(st) == FlattenSeq(TextsOf(st.turns)) \o st.words

\* The words of each turn, and those that wait for theirs, have the speaker that who
\* names for them.
HeldBy(st, who) ==
    /\ \A t \in DOMAIN st.turns : \A w \in DOMAIN st.turns[t].text :
          st.turns[t].speaker = who[st.turns[t].text[w]]
    /\ \A w \in DOMAIN st.words : st.speaker = who[st.words[w]]

LEMMA SaidIsSeq ==
    ASSUME NEW st \in Readings
    PROVE  TextsOf(st.turns) \in Seq(Seq(Int)) /\ FlattenSeq(TextsOf(st.turns)) \in Seq(Int)
<1>1. PICK turns \in Seq(Turns) : turns = st.turns
  BY DEF Readings
<1>2. PICK n \in Nat : n = Len(turns) /\ DOMAIN turns = 1..n
  OBVIOUS
<1>3. \A t \in 1..n : turns[t].text \in Seq(Int)
  <2>1. \A t \in 1..n : turns[t] \in Turns
    BY <1>2
  <2> QED
    BY <2>1 DEF Turns
<1>4. PICK texts : texts = TextsOf(turns)
  OBVIOUS
<1>5. texts \in Seq(Seq(Int))
  BY <1>2, <1>3, <1>4 DEF TextsOf
<1>6. <<>> \in Seq(Int)
  OBVIOUS
<1>7. FlattenSeq(texts) \in Seq(Int)
  BY <1>5, <1>6, FlattenMore
<1> QED
  BY <1>1, <1>4, <1>5, <1>7

\* To end a turn neither loses nor moves a word.
LEMMA EndTurnKeeps ==
    ASSUME NEW st \in Readings, NEW who, NEW end, end = EndTurn(st)
    PROVE  /\ end \in Readings /\ end.words = <<>> /\ end.speaker = st.speaker
           /\ SaidBy(end) = SaidBy(st)
           /\ HeldBy(st, who) => HeldBy(end, who)
<1>1. PICK turns \in Seq(Turns), words \in Seq(Int), speaker \in Speakers :
         turns = st.turns /\ words = st.words /\ speaker = st.speaker
      /\ st = [turns |-> turns, words |-> words, speaker |-> speaker]
  BY DEF Readings
<1>2. CASE words = <<>>
  BY <1>1, <1>2 DEF EndTurn
<1>3. CASE words # <<>>
  <2>1. PICK turn \in Turns : turn = [speaker |-> speaker, text |-> words]
    BY DEF Turns
  <2>2. turn.speaker = speaker /\ turn.text = words
    BY <2>1
  <2>0. PICK more : more = Append(turns, turn)
    OBVIOUS
  <2>3. more = Append(turns, turn) /\ more \in Seq(Turns)
    BY <2>0
  <2>4. end.turns = more /\ end.words = <<>> /\ end.speaker = speaker
    BY <1>1, <1>3, <2>1, <2>3 DEF EndTurn
  <2>5. end = [turns |-> more, words |-> <<>>, speaker |-> speaker]
    BY <1>1, <1>3, <2>1, <2>3 DEF EndTurn
  <2>6. end \in Readings
    BY <2>3, <2>5 DEF Readings
  <2>7. PICK n \in Nat : n = Len(turns) /\ DOMAIN turns = 1..n
    OBVIOUS
  <2>8. /\ DOMAIN more = 1..(n + 1) /\ more[n + 1] = turn /\ \A t \in 1..n : more[t] = turns[t]
    BY <2>3, <2>7
  <2>9. PICK texts \in Seq(Seq(Int)) : texts = TextsOf(turns) /\ FlattenSeq(texts) \in Seq(Int)
    BY <1>1, SaidIsSeq
  <2>10. TextsOf(more) = Append(texts, words)
    <3>1. texts = [t \in 1..n |-> turns[t].text]
      BY <2>7, <2>9 DEF TextsOf
    <3>2. TextsOf(more) = [t \in 1..(n + 1) |-> IF t = n + 1 THEN words ELSE turns[t].text]
      <4>1. ASSUME NEW t \in 1..(n + 1)
            PROVE  more[t].text = IF t = n + 1 THEN words ELSE turns[t].text
        <5>1. t = n + 1 \/ t \in 1..n
          OBVIOUS
        <5> QED
          BY <2>2, <2>8, <5>1
      <4> QED
        BY <2>8, <4>1 DEF TextsOf
    <3>3. Append(texts, words) = [t \in 1..(n + 1) |-> IF t = n + 1 THEN words ELSE turns[t].text]
      BY <2>7, <2>9, <3>1
    <3> QED
      BY <3>2, <3>3
  <2>11. PICK flat \in Seq(Int) : flat = FlattenSeq(texts)
    BY <2>9
  <2>12. FlattenSeq(TextsOf(more)) = flat \o words
    BY <2>9, <2>10, <2>11, FlattenMore
  <2>13. SaidBy(end) = SaidBy(st)
    <3>1. SaidBy(end) = (flat \o words) \o <<>>
      BY <2>4, <2>12 DEF SaidBy
    <3>2. SaidBy(st) = flat \o words
      BY <1>1, <2>9, <2>11 DEF SaidBy
    <3>3. (flat \o words) \o <<>> = flat \o words
      OBVIOUS
    <3> QED
      BY <3>1, <3>2, <3>3
  <2>14. ASSUME HeldBy(st, who) PROVE HeldBy(end, who)
    <3>1. /\ \A t \in 1..n : \A w \in DOMAIN turns[t].text : turns[t].speaker = who[turns[t].text[w]]
          /\ \A w \in DOMAIN words : speaker = who[words[w]]
      BY <1>1, <2>7, <2>14 DEF HeldBy
    <3>2. ASSUME NEW t \in 1..(n + 1), NEW w \in DOMAIN more[t].text
          PROVE  more[t].speaker = who[more[t].text[w]]
      <4>1. CASE t = n + 1
        <5>1. more[t].speaker = speaker /\ more[t].text = words
          BY <2>2, <2>8, <4>1
        <5> QED
          BY <3>1, <3>2, <5>1
      <4>2. CASE t # n + 1
        <5>1. t \in 1..n
          BY <4>2
        <5>2. more[t] = turns[t]
          BY <2>8, <5>1
        <5> QED
          BY <3>1, <3>2, <5>1, <5>2
      <4> QED
        BY <4>1, <4>2
    <3>3. DOMAIN end.words = {}
      BY <2>4
    <3> QED
      BY <2>4, <2>8, <3>2, <3>3 DEF HeldBy
  <2> QED
    BY <1>1, <2>4, <2>6, <2>13, <2>14
<1> QED
  BY <1>2, <1>3

\* A word more is said last, by the one who speaks.
LEMMA WordAdded ==
    ASSUME NEW st \in Readings, NEW word \in Int, NEW who,
           NEW more, more = Append(st.words, word),
           NEW next, next.turns = st.turns, next.words = more, next.speaker = st.speaker
    PROVE  /\ SaidBy(next) = Append(SaidBy(st), word)
           /\ HeldBy(st, who) /\ st.speaker = who[word] => HeldBy(next, who)
<1>1. PICK turns \in Seq(Turns), words \in Seq(Int), speaker \in Speakers :
         turns = st.turns /\ words = st.words /\ speaker = st.speaker
      /\ st = [turns |-> turns, words |-> words, speaker |-> speaker]
  BY DEF Readings
<1>2. more = Append(words, word) /\ more \in Seq(Int)
  BY <1>1
<1>5. PICK flat \in Seq(Int) : flat = FlattenSeq(TextsOf(turns))
  BY <1>1, SaidIsSeq
<1>6. SaidBy(next) = flat \o more /\ SaidBy(st) = flat \o words
  <2>1. next.turns = turns /\ next.words = more
    BY <1>1
  <2>2. st.turns = turns /\ st.words = words
    BY <1>1
  <2>3. SaidBy(next) = flat \o more
    BY <1>5, <2>1 DEF SaidBy
  <2> QED
    BY <1>5, <2>2, <2>3 DEF SaidBy
<1>7. flat \o more = Append(flat \o words, word)
  BY <1>2
<1>8. ASSUME HeldBy(st, who), st.speaker = who[word] PROVE HeldBy(next, who)
  <2>0. Len(words) \in Nat /\ DOMAIN words = 1..Len(words)
    OBVIOUS
  <2>1. PICK n \in Nat : n = Len(words) /\ DOMAIN words = 1..n
    BY <2>0, Zenon
  <2>2. /\ DOMAIN more = 1..(n + 1) /\ more[n + 1] = word /\ \A w \in 1..n : more[w] = words[w]
    BY <1>2, <2>1
  <2>3. \A w \in 1..n : speaker = who[words[w]]
    BY <1>1, <1>8, <2>1 DEF HeldBy
  <2>4. ASSUME NEW w \in 1..(n + 1) PROVE speaker = who[more[w]]
    <3>1. w = n + 1 \/ w \in 1..n
      OBVIOUS
    <3> QED
      BY <1>1, <1>8, <2>2, <2>3, <3>1
  <2>5. next.turns = st.turns /\ next.words = more /\ next.speaker = speaker
    BY <1>1
  <2> QED
    BY <1>8, <2>2, <2>4, <2>5 DEF HeldBy
<1> QED
  BY <1>6, <1>7, <1>8

Moved(out, off) == [j \in DOMAIN out |-> out[j] + off]

\* Append, as a name that provers leave alone.
Longer(s, e) == Append(s, e)

LEMMA MovedMore ==
    ASSUME NEW out \in Seq(Int), NEW k \in Int, NEW off \in Int,
           NEW word, word = k + off
    PROVE  Moved(Longer(out, k), off) = Longer(Moved(out, off), word)
<1>1. PICK n \in Nat : n = Len(out) /\ DOMAIN out = 1..n
  OBVIOUS
<1>2. PICK moved : moved = Moved(out, off)
  OBVIOUS
<1>3. moved = [j \in 1..n |-> out[j] + off] /\ moved \in Seq(Int) /\ Len(moved) = n
  BY <1>1, <1>2 DEF Moved
<1>4. Append(moved, word) = [j \in 1..(n + 1) |-> IF j = n + 1 THEN k + off ELSE out[j] + off]
  BY <1>1, <1>3
<1>5. PICK more : more = Append(out, k)
  OBVIOUS
<1>6. DOMAIN more = 1..(n + 1) /\ \A j \in 1..(n + 1) : more[j] = IF j = n + 1 THEN k ELSE out[j]
  BY <1>1, <1>5
<1>7. Moved(more, off) = [j \in 1..(n + 1) |-> IF j = n + 1 THEN k + off ELSE out[j] + off]
  BY <1>6 DEF Moved
<1> QED
  BY <1>2, <1>4, <1>5, <1>7 DEF Longer

\* After k lines: what they say was said, off lines into the file, and outside VTT each
\* word is held by the speaker that who names for its line.
ReadSoFar(st, k, out, off, who, fmt) ==
    /\ st \in Readings
    /\ out \in Seq(Int)
    /\ SaidBy(st) = Moved(out, off)
    /\ fmt # "vtt" => HeldBy(st, who) /\ st.speaker = who[k]

\* Who speaks in line k, if the format is read for names: the one it names, else the one
\* of the line before.
Follows(who, k, line, fmt) ==
    /\ fmt = "txt" => who[k] = IF line.kind = "named" THEN line.who ELSE who[k - 1]
    /\ fmt = "srt" => who[k] = who[k - 1]

\* more lists one line more than out, if it says something.
Grown(out, k, line, fmt, more) ==
    more = IF line.kind \notin Wordless[fmt] THEN Append(out, k) ELSE out

LEMMA BreaksAreWordless ==
    ASSUME NEW fmt \in Formats, NEW kind
    PROVE  /\ kind \in Breaks[fmt] => kind \in Wordless[fmt]
           /\ kind \in Wordless[fmt] /\ kind \notin Breaks[fmt] => fmt = "vtt" /\ kind \in Names[fmt]
  BY DEF Formats, Breaks, Wordless, Names

LEMMA LineRead ==
    ASSUME NEW fmt \in Formats, NEW k \in Nat \ {0}, NEW off \in Int, fmt # "vtt" => off = 0,
           NEW line, line.word = k + off, line.who \in Speakers, NEW who, Follows(who, k, line, fmt),
           NEW st, NEW out, ReadSoFar(st, k - 1, out, off, who, fmt),
           NEW grown, Grown(out, k, line, fmt, grown)
    PROVE  ReadSoFar(ReadLine(st, line, fmt), k, grown, off, who, fmt)
<1>1. /\ st \in Readings /\ out \in Seq(Int) /\ SaidBy(st) = Moved(out, off)
      /\ fmt # "vtt" => HeldBy(st, who) /\ st.speaker = who[k - 1]
  BY DEF ReadSoFar
<1>2. PICK next : next = ReadLine(st, line, fmt)
  OBVIOUS
<1>3. PICK end : end = EndTurn(st)
  OBVIOUS
<1>4. /\ end \in Readings /\ end.words = <<>> /\ end.speaker = st.speaker
      /\ SaidBy(end) = Moved(out, off)
      /\ HeldBy(st, who) => HeldBy(end, who)
  BY <1>1, <1>3, EndTurnKeeps
<1>5. CASE line.kind \in Breaks[fmt]
  <2>1. next = end
    BY <1>2, <1>3, <1>5 DEF ReadLine
  <2>2. fmt # "vtt" => who[k] = who[k - 1]
    <3>1. fmt = "txt" => line.kind # "named"
      BY <1>5 DEF Breaks
    <3> QED
      BY <3>1 DEF Follows, Formats
  <2>3. ReadSoFar(end, k, out, off, who, fmt)
    BY <1>1, <1>4, <2>2 DEF ReadSoFar
  <2> QED
    BY <1>2, <1>5, <2>1, <2>3, BreaksAreWordless DEF Grown
<1>6. CASE line.kind \notin Wordless[fmt]
  <2>0. line.kind \notin Breaks[fmt]
    BY <1>6, BreaksAreWordless
  <2>1. PICK named : named = IF line.kind \in Names[fmt] THEN Renamed(st, line, fmt) ELSE st
    OBVIOUS
  <2>2. next = [named EXCEPT !.words = Append(named.words, line.word)]
    BY <1>2, <1>6, <2>0, <2>1 DEF ReadLine
  <2>3. /\ named \in Readings /\ SaidBy(named) = Moved(out, off)
        /\ fmt # "vtt" => HeldBy(named, who) /\ named.speaker = who[k]
    <3>1. CASE line.kind \notin Names[fmt]
      <4>1. named = st
        BY <2>1, <3>1
      <4>2. fmt # "vtt" => who[k] = who[k - 1]
        <5>1. fmt = "txt" => line.kind # "named"
          BY <3>1 DEF Names
        <5> QED
          BY <5>1 DEF Follows, Formats
      <4> QED
        BY <1>1, <4>1, <4>2
    <3>2. CASE line.kind \in Names[fmt] /\ fmt = "txt"
      <4>1. line.kind = "named"
        BY <3>2 DEF Names
      <4>2. named = [end EXCEPT !.speaker = line.who]
        BY <1>3, <2>1, <3>2 DEF Renamed
      <4>3. /\ named \in Readings /\ named.turns = end.turns /\ named.words = end.words
            /\ named.speaker = line.who
        BY <1>4, <4>2 DEF Readings
      <4>4. SaidBy(named) = Moved(out, off)
        BY <1>4, <4>3 DEF SaidBy
      <4>5. HeldBy(named, who)
        <5>1. HeldBy(end, who)
          BY <1>1, <1>4, <3>2
        <5>2. DOMAIN named.words = {}
          BY <1>4, <4>3
        <5> QED
          BY <4>3, <5>1, <5>2 DEF HeldBy
      <4>6. named.speaker = who[k]
        BY <3>2, <4>1, <4>3 DEF Follows
      <4> QED
        BY <4>3, <4>4, <4>5, <4>6
    <3>3. CASE line.kind \in Names[fmt] /\ fmt # "txt"
      <4>1. fmt = "vtt"
        BY <3>3 DEF Names, Formats
      <4>2. named = [st EXCEPT !.speaker = line.who]
        BY <2>1, <3>3 DEF Renamed
      <4>3. named \in Readings /\ named.turns = st.turns /\ named.words = st.words
        BY <1>1, <4>2 DEF Readings
      <4>4. SaidBy(named) = Moved(out, off)
        BY <1>1, <4>3 DEF SaidBy
      <4> QED
        BY <4>1, <4>3, <4>4
    <3> QED
      BY <3>1, <3>2, <3>3
  <2>4. next = [turns |-> named.turns, words |-> Append(named.words, line.word), speaker |-> named.speaker]
    <3>1. PICK turns, words, speaker : named = [turns |-> turns, words |-> words, speaker |-> speaker]
      BY <2>3 DEF Readings
    <3> QED
      BY <2>2, <3>1
  <2>5. PICK word \in Int : word = line.word /\ word = k + off
    OBVIOUS
  <2>6. /\ next \in Readings /\ next.speaker = named.speaker
        /\ SaidBy(next) = Append(Moved(out, off), word)
        /\ HeldBy(named, who) /\ named.speaker = who[word] => HeldBy(next, who)
    <3>1. PICK more : more = Append(named.words, word)
      OBVIOUS
    <3>2. next.turns = named.turns /\ next.words = more /\ next.speaker = named.speaker
      BY <2>4, <2>5, <3>1
    <3>3. /\ SaidBy(next) = Append(SaidBy(named), word)
          /\ HeldBy(named, who) /\ named.speaker = who[word] => HeldBy(next, who)
      BY <2>3, <3>1, <3>2, WordAdded
    <3>4. next \in Readings
      BY <2>3, <2>4, <2>5 DEF Readings
    <3> QED
      BY <2>3, <3>2, <3>3, <3>4
  <2>7. SaidBy(next) = Moved(Append(out, k), off)
    <3>0. PICK i \in Int : i = k /\ word = i + off
      BY <2>5
    <3>1. PICK more : more = Append(out, k) /\ more = Append(out, i)
      BY <3>0
    <3>2. Moved(Longer(out, i), off) = Longer(Moved(out, off), word)
      BY <1>1, <3>0, MovedMore
    <3>3. Moved(more, off) = Append(Moved(out, off), word)
      BY <3>1, <3>2 DEF Longer
    <3> QED
      BY <2>6, <3>1, <3>3
  <2>8. fmt # "vtt" => word = k
    BY <2>5
  <2>9. fmt # "vtt" => HeldBy(next, who) /\ next.speaker = who[k]
    BY <2>3, <2>6, <2>8
  <2>10. Append(out, k) \in Seq(Int)
    BY <1>1
  <2>11. ReadSoFar(next, k, Append(out, k), off, who, fmt)
    BY <2>6, <2>7, <2>9, <2>10 DEF ReadSoFar
  <2>12. grown = Append(out, k)
    BY <1>6 DEF Grown
  <2> QED
    BY <1>2, <2>11, <2>12
<1>7. CASE line.kind \in Wordless[fmt] /\ line.kind \notin Breaks[fmt]
  <2>1. fmt = "vtt" /\ line.kind \in Names[fmt]
    BY <1>7, BreaksAreWordless
  <2>2. next = [st EXCEPT !.speaker = line.who]
    BY <1>2, <1>7, <2>1 DEF ReadLine, Renamed
  <2>3. next \in Readings /\ next.turns = st.turns /\ next.words = st.words
    BY <1>1, <2>2 DEF Readings
  <2>4. SaidBy(next) = Moved(out, off)
    BY <1>1, <2>3 DEF SaidBy
  <2>5. ReadSoFar(next, k, out, off, who, fmt)
    BY <1>1, <2>1, <2>3, <2>4 DEF ReadSoFar
  <2> QED
    BY <1>2, <1>7, <2>5 DEF Grown
<1> QED
  BY <1>5, <1>6, <1>7

\* env is <<fmt, listed, off, who>>: listed[k] lists which of the first k lines say
\* something.
Reading == INSTANCE Folding WITH
    Op <- LAMBDA env, st, line : ReadLine(st, line, env[1]),
    Holds <- LAMBDA env, k, st : ReadSoFar(st, k, env[2][k], env[3], env[4], env[1])

NothingRead == [turns |-> <<>>, words |-> <<>>, speaker |-> "Speaker"]

LEMMA ReadingFold ==
    ASSUME NEW lines, NEW fmt, NEW listed, NEW off, NEW who
    PROVE  ParseTurns(lines, fmt)
              = EndTurn(Reading!Fold(<<fmt, listed, off, who>>, NothingRead, Body(lines, fmt))).turns
<1>1. <<fmt, listed, off, who>>[1] = fmt
  OBVIOUS
<1> QED
  BY <1>1 DEF ParseTurns, NothingRead, Reading!Fold, Reading!Highest, FoldLeft, MapThenFoldSet, Max

\* The lines of body are off lines into the file, and what they say is their number.
Reads(body, m, off, who, fmt) ==
    /\ DOMAIN body = 1..m
    /\ \A k \in 1..m : body[k].word = k + off /\ body[k].who \in Speakers /\ Follows(who, k, body[k], fmt)
    /\ fmt # "vtt" => off = 0 /\ who[0] = "Speaker"

\* Which of the first m lines say something.
Saying(body, m, fmt) == {k \in 1..m : body[k].kind \notin Wordless[fmt]}

LEMMA AllRead ==
    ASSUME NEW fmt \in Formats, NEW m \in Nat, NEW off \in Int, NEW who, NEW body,
           Reads(body, m, off, who, fmt),
           NEW I, I = Saying(body, m, fmt)
    PROVE  \E listed : ReadSoFar(Reading!Fold(<<fmt, listed, off, who>>, NothingRead, body), m,
                                 Places(m, I), off, who, fmt)
<1>0. /\ DOMAIN body = 1..m
      /\ \A k \in 1..m : body[k].word = k + off /\ body[k].who \in Speakers /\ Follows(who, k, body[k], fmt)
      /\ fmt # "vtt" => off = 0 /\ who[0] = "Speaker"
  BY DEF Reads
<1>1. PICK s : s = [i \in 1..m |-> i]
  OBVIOUS
<1>2. DOMAIN s = 1..m /\ \A k \in 1..m : s[k] = k
  BY <1>1
<1>3. PICK ienv : ienv = <<I>>
  OBVIOUS
<1>4. ienv[1] = I
  BY <1>3
<1>5. PICK p : Placing!Run(ienv, <<>>, m, s, p) /\ Placing!Fold(ienv, <<>>, s) = p[m]
  BY <1>2, Placing!FoldRuns
<1>6. p[0] = <<>> /\ \A k \in 1..m : p[k] = IF s[k] \in ienv[1] THEN Append(p[k - 1], s[k]) ELSE p[k - 1]
  BY <1>5 DEF Placing!Run
<1>7. Places(m, I) = p[m]
  BY <1>1, <1>3, <1>5, PlacesFold
<1>8. ASSUME NEW k \in 1..m PROVE Grown(p[k - 1], k, body[k], fmt, p[k])
  <2>1. k \in I <=> body[k].kind \notin Wordless[fmt]
    BY DEF Saying
  <2> QED
    BY <1>2, <1>4, <1>6, <2>1 DEF Grown
<1>9. PICK env : env = <<fmt, p, off, who>>
  OBVIOUS
<1>10. env[1] = fmt /\ env[2] = p /\ env[3] = off /\ env[4] = who
  BY <1>9
<1>11. ReadSoFar(NothingRead, 0, p[0], off, who, fmt)
  <2>1. NothingRead \in Readings /\ NothingRead.turns = <<>> /\ NothingRead.words = <<>>
    <3>1. NothingRead.turns = <<>> /\ NothingRead.words = <<>>
      BY DEF NothingRead
    <3>2. PICK turns, words, speaker : turns = <<>> /\ words = <<>> /\ speaker = "Speaker"
      OBVIOUS
    <3>3. turns \in Seq(Turns) /\ words \in Seq(Int) /\ speaker \in Speakers
      <4>1. <<>> \in Seq(Turns)
        OBVIOUS
      <4>2. <<>> \in Seq(Int)
        OBVIOUS
      <4>3. "Speaker" \in Speakers
        BY DEF Speakers
      <4> QED
        BY <3>2, <4>1, <4>2, <4>3, Zenon
    <3>4. NothingRead = [turns |-> turns, words |-> words, speaker |-> speaker]
      BY <3>2 DEF NothingRead
    <3> QED
      BY <3>1, <3>3, <3>4 DEF Readings
  <2>2. TextsOf(<<>>) = <<>>
    BY DEF TextsOf
  <2>3. FlattenSeq(<<>>) = <<>>
    BY DEF FlattenSeq
  <2>4. SaidBy(NothingRead) = <<>>
    <3>1. <<>> \o <<>> = <<>>
      OBVIOUS
    <3> QED
      BY <2>1, <2>2, <2>3, <3>1 DEF SaidBy
  <2>5. Moved(p[0], off) = <<>>
    BY <1>6 DEF Moved
  <2>6. p[0] \in Seq(Int)
    BY <1>6
  <2>7. HeldBy(NothingRead, who)
    <3>1. DOMAIN NothingRead.turns = {} /\ DOMAIN NothingRead.words = {}
      BY <2>1
    <3> QED
      BY <3>1 DEF HeldBy
  <2>8. NothingRead.speaker = "Speaker"
    BY DEF NothingRead
  <2> QED
    BY <1>0, <2>1, <2>4, <2>5, <2>6, <2>7, <2>8 DEF ReadSoFar
<1>12. ASSUME NEW k \in 1..m, NEW st, ReadSoFar(st, k - 1, p[k - 1], off, who, fmt)
       PROVE  ReadSoFar(ReadLine(st, body[k], fmt), k, p[k], off, who, fmt)
  <2>1. PICK line : line = body[k]
    OBVIOUS
  <2>2. line.word = k + off /\ line.who \in Speakers /\ Follows(who, k, line, fmt)
    BY <1>0, <2>1
  <2>3. Grown(p[k - 1], k, line, fmt, p[k])
    BY <1>8, <2>1
  <2>4. k \in Nat \ {0}
    OBVIOUS
  <2>5. fmt # "vtt" => off = 0
    BY <1>0
  <2>6. ReadSoFar(ReadLine(st, line, fmt), k, p[k], off, who, fmt)
    BY <1>12, <2>2, <2>3, <2>4, <2>5, LineRead
  <2> QED
    BY <2>1, <2>6
<1>13. ReadSoFar(Reading!Fold(env, NothingRead, body), m, env[2][m], env[3], env[4], env[1])
  <2>1. ReadSoFar(NothingRead, 0, env[2][0], env[3], env[4], env[1])
    BY <1>10, <1>11
  <2>2. \A k \in 1..m : \A st : ReadSoFar(st, k - 1, env[2][k - 1], env[3], env[4], env[1])
          => ReadSoFar(ReadLine(st, body[k], env[1]), k, env[2][k], env[3], env[4], env[1])
    BY <1>10, <1>12
  <2> QED
    BY <1>0, <2>1, <2>2, Reading!FoldInduction
<1> QED
  BY <1>7, <1>9, <1>10, <1>13

\* The turns say what the lines say, in their order, and each by who says it.
LEMMA TurnsAre ==
    ASSUME NEW fmt \in Formats, NEW m \in Nat, NEW off \in Int, NEW who, NEW lines, NEW body,
           body = Body(lines, fmt), Reads(body, m, off, who, fmt),
           NEW I, I = Saying(body, m, fmt),
           NEW turns, turns = ParseTurns(lines, fmt)
    PROVE  /\ turns \in Seq(Turns)
           /\ FlattenSeq(TextsOf(turns)) = Moved(Places(m, I), off)
           /\ fmt # "vtt" => \A t \in DOMAIN turns : \A w \in DOMAIN turns[t].text :
                                turns[t].speaker = who[turns[t].text[w]]
<1>1. PICK listed : ReadSoFar(Reading!Fold(<<fmt, listed, off, who>>, NothingRead, body), m,
                              Places(m, I), off, who, fmt)
  BY AllRead
<1>2. PICK read : read = Reading!Fold(<<fmt, listed, off, who>>, NothingRead, body)
  OBVIOUS
<1>3. PICK end : end = EndTurn(read)
  OBVIOUS
<1>4. turns = end.turns
  BY <1>2, <1>3, ReadingFold
<1>5. /\ read \in Readings /\ SaidBy(read) = Moved(Places(m, I), off)
      /\ fmt # "vtt" => HeldBy(read, who)
  BY <1>1, <1>2 DEF ReadSoFar
<1>6. /\ end \in Readings /\ end.words = <<>>
      /\ SaidBy(end) = Moved(Places(m, I), off)
      /\ fmt # "vtt" => HeldBy(end, who)
  BY <1>3, <1>5, EndTurnKeeps
<1>7. FlattenSeq(TextsOf(turns)) = SaidBy(end)
  <2>1. PICK flat \in Seq(Int) : flat = FlattenSeq(TextsOf(end.turns))
    BY <1>6, SaidIsSeq
  <2>2. flat \o <<>> = flat
    OBVIOUS
  <2> QED
    BY <1>4, <1>6, <2>1, <2>2 DEF SaidBy
<1>8. fmt # "vtt" => \A t \in DOMAIN turns : \A w \in DOMAIN turns[t].text :
                        turns[t].speaker = who[turns[t].text[w]]
  BY <1>4, <1>6 DEF HeldBy
<1>9. turns \in Seq(Turns)
  BY <1>4, <1>6 DEF Readings
<1> QED
  BY <1>6, <1>7, <1>8, <1>9

SpeakerAt(lines, fmt, from, i) ==
    LET named == {j \in from..i : lines[j].kind = "named"} IN
    IF named = {} \/ fmt = "srt" THEN "Speaker"
    ELSE lines[CHOOSE j \in named : \A k \in named : k <= j].who

LEMMA SpeakersFollow ==
    ASSUME NEW lines, NEW k \in Nat \ {0}, NEW fmt,
           NEW who, who = [i \in Int |-> SpeakerAt(lines, fmt, 1, i)],
           NEW line, line = lines[k]
    PROVE  Follows(who, k, line, fmt)
<1>1. k \in Int /\ k - 1 \in Int
  OBVIOUS
<1>2. who[k] = SpeakerAt(lines, fmt, 1, k) /\ who[k - 1] = SpeakerAt(lines, fmt, 1, k - 1)
  BY <1>1
<1>3. fmt = "srt" => who[k] = who[k - 1]
  BY <1>2 DEF SpeakerAt
<1>4. ASSUME fmt = "txt" PROVE who[k] = IF line.kind = "named" THEN line.who ELSE who[k - 1]
  <2>1. PICK now : now = {j \in 1..k : lines[j].kind = "named"}
    OBVIOUS
  <2>2. PICK before : before = {j \in 1..(k - 1) : lines[j].kind = "named"}
    OBVIOUS
  <2>3. who[k] = IF now = {} THEN "Speaker" ELSE lines[CHOOSE j \in now : \A i \in now : i <= j].who
    BY <1>2, <1>4, <2>1 DEF SpeakerAt
  <2>4. who[k - 1] = IF before = {} THEN "Speaker" ELSE lines[CHOOSE j \in before : \A i \in before : i <= j].who
    BY <1>2, <1>4, <2>2 DEF SpeakerAt
  <2>5. CASE line.kind = "named"
    <3>1. k \in now /\ \A i \in now : i <= k
      BY <2>1, <2>5
    <3>2. (CHOOSE j \in now : \A i \in now : i <= j) = k
      <4>1. PICK m \in now : m = (CHOOSE j \in now : \A i \in now : i <= j) /\ \A i \in now : i <= m
        BY <3>1
      <4>2. m \in Int /\ m <= k /\ k <= m
        BY <2>1, <3>1, <4>1
      <4> QED
        BY <4>1, <4>2
    <3> QED
      BY <2>3, <2>5, <3>1, <3>2
  <2>6. CASE line.kind # "named"
    <3>1. now = before
      BY <2>1, <2>2, <2>6
    <3> QED
      BY <2>3, <2>4, <2>6, <3>1
  <2> QED
    BY <2>5, <2>6
<1> QED
  BY <1>3, <1>4 DEF Follows

LEMMA FormatIs ==
    ASSUME NEW extension \in Extensions, NEW lines, lines[1].kind # "item"
    PROVE  _detect_format(extension, lines) \in Formats
<1>1. extension # "json"
  BY Zenon DEF Extensions
<1>2. PICK fmt : fmt = _detect_format(extension, lines)
  OBVIOUS
<1>3. PICK kind : kind = lines[1].kind /\ kind # "item"
  OBVIOUS
<1>4. fmt = CASE extension \in {"vtt", "srt", "json"} -> extension
              [] extension \notin {"vtt", "srt", "json"} /\ kind = "header" -> "vtt"
              [] extension \notin {"vtt", "srt", "json"} /\ kind = "item" -> "json"
              [] extension \notin {"vtt", "srt", "json"} /\ kind = "index" -> "srt"
              [] OTHER -> "txt"
  BY <1>2, <1>3, Zenon DEF _detect_format
<1>5. fmt \in Formats
  <2>1. CASE extension \in {"vtt", "srt", "json"}
    <3>1. fmt = extension
      BY <1>4, <2>1
    <3> QED
      BY <1>1, <2>1, <3>1 DEF Formats
  <2>2. CASE extension \notin {"vtt", "srt", "json"}
    <3>1. CASE kind = "header"
      <4>1. fmt = "vtt"
        BY <1>4, <2>2, <3>1
      <4> QED
        BY <4>1 DEF Formats
    <3>2. CASE kind = "index"
      <4>1. fmt = "srt"
        BY <1>4, <2>2, <3>2
      <4> QED
        BY <4>1 DEF Formats
    <3>3. CASE kind # "header" /\ kind # "index"
      <4>1. fmt = "txt"
        BY <1>3, <1>4, <2>2, <3>3
      <4> QED
        BY <4>1 DEF Formats
    <3> QED
      BY <3>1, <3>2, <3>3
  <2> QED
    BY <2>1, <2>2
<1> QED
  BY <1>2, <1>5

WordsOf(said) == [i \in DOMAIN said |-> said[i].word]

\* What is said is what the numbers of the lines that say something say.
LEMMA SaidAre ==
    ASSUME NEW fmt, NEW m \in Nat, NEW off \in Int, NEW body, DOMAIN body = 1..m, Len(body) = m,
           \A k \in 1..m : body[k].word = k + off,
           NEW I, I = Saying(body, m, fmt)
    PROVE  WordsOf(Kept(body, I)) = Moved(Places(m, I), off)
<1>1. PICK said : said = Kept(body, I)
  OBVIOUS
<1>2. PICK at : at = Places(m, I)
  OBVIOUS
<1>3. said = [j \in DOMAIN at |-> body[at[j]]]
  BY <1>1, <1>2 DEF Kept
<1>4. at \in Seq(I \intersect 1..m)
  BY <1>2, PlacesAre DEF Listing
<1>5. \A j \in DOMAIN at : at[j] \in 1..m
  BY <1>4
<1>6. \A j \in DOMAIN at : body[at[j]].word = at[j] + off
  BY <1>5
<1>7. WordsOf(said) = [j \in DOMAIN at |-> at[j] + off]
  BY <1>3, <1>6 DEF WordsOf
<1> QED
  BY <1>1, <1>2, <1>7 DEF Moved

Kinds == {"header", "blank", "timecode", "note", "index", "voice", "tag", "named", "text"}

FileLines == [kind: Kinds, who: STRING, word: Nat]

LEMMA NumberedLine ==
    ASSUME NEW line \in FileLines, NEW i \in Nat, NEW numbered, numbered = [line EXCEPT !.word = i]
    PROVE  /\ numbered \in FileLines
           /\ numbered.word = i /\ numbered.who \in STRING /\ numbered.kind \in Kinds
  BY DEF FileLines

\* The lines of a file are numbered.
Numbers(lines, n) ==
    /\ lines \in Seq(FileLines) /\ DOMAIN lines = 1..n /\ Len(lines) = n /\ n # 0
    /\ \A i \in 1..n : lines[i].word = i /\ lines[i].who \in STRING /\ lines[i].kind \in Kinds

LEMMA NumberedAre ==
    ASSUME NEW unnumbered \in Seq(FileLines), unnumbered # <<>>,
           NEW lines, lines = Numbered(unnumbered)
    PROVE  \E n \in Nat : Numbers(lines, n)
<1>1. PICK n \in Nat : n = Len(unnumbered) /\ DOMAIN unnumbered = 1..n
  OBVIOUS
<1>2. n # 0
  BY <1>1
<1>3. lines = [i \in 1..n |-> [unnumbered[i] EXCEPT !.word = i]]
  BY <1>1 DEF Numbered
<1>4. ASSUME NEW i \in 1..n
      PROVE  lines[i] \in FileLines /\ lines[i].word = i /\ lines[i].who \in STRING /\ lines[i].kind \in Kinds
  <2>1. PICK line : line = unnumbered[i]
    OBVIOUS
  <2>2. line \in FileLines
    BY <1>1, <2>1
  <2>3. PICK numbered : numbered = [line EXCEPT !.word = i]
    OBVIOUS
  <2>4. lines[i] = numbered
    BY <1>3, <2>1, <2>3
  <2>5. i \in Nat
    OBVIOUS
  <2>6. /\ numbered \in FileLines
        /\ numbered.word = i /\ numbered.who \in STRING /\ numbered.kind \in Kinds
    BY <2>2, <2>3, <2>5, NumberedLine
  <2> QED
    BY <2>4, <2>6
<1>5. DOMAIN lines = 1..n
  BY <1>3
<1>6. lines = [i \in 1..n |-> lines[i]]
  BY <1>3
<1>7. lines \in Seq(FileLines) /\ Len(lines) = n
  <2>1. \A i \in 1..n : lines[i] \in FileLines
    BY <1>4
  <2>2. lines \in [1..n -> FileLines]
    BY <1>6, <2>1
  <2> QED
    BY <2>2
<1> QED
  BY <1>2, <1>4, <1>5, <1>7 DEF Numbers

LEMMA TailIs ==
    ASSUME NEW T, NEW s \in Seq(T), NEW n \in Nat, n = Len(s), n # 0,
           NEW tail, tail = Tail(s)
    PROVE  /\ DOMAIN tail = 1..(n - 1) /\ Len(tail) = n - 1
           /\ \A k \in 1..(n - 1) : tail[k] = s[k + 1]
           /\ SubSeq(s, 2, Len(s)) = tail
           /\ SubSeq(s, 1, Len(s)) = s
<1>1. s # <<>>
  OBVIOUS
<1>2. tail \in Seq(T) /\ Len(tail) = n - 1 /\ \A k \in 1..Len(tail) : tail[k] = s[k + 1]
  BY <1>1, HeadTailProperties
<1>3. SubSeq(s, 2, Len(s)) = tail
  BY <1>1, TailIsSubSeq
<1>4. SubSeq(s, 1, Len(s)) = s
  OBVIOUS
<1> QED
  BY <1>2, <1>3, <1>4

\* What TurnsKeepWords says of a transcript r of the lines unnumbered.
WordsKept(r, unnumbered) ==
    LET lines == Numbered(unnumbered)
        from == IF r.format = "vtt" THEN 2 ELSE 1
        body == SubSeq(lines, from, Len(lines))
    IN  /\ FlattenSeq(TextsOf(r.turns)) = WordsOf(Kept(body, {i \in DOMAIN body : body[i].kind \notin Wordless[r.format]}))
        /\ r.format # "vtt" =>
              \A t \in DOMAIN r.turns : \A w \in DOMAIN r.turns[t].text :
                  r.turns[t].speaker = SpeakerAt(lines, r.format, from, r.turns[t].text[w])

LEMMA TurnsKeepThem ==
    ASSUME Answered("transcript") => WordsKept(result, given.lines)
    PROVE  TurnsKeepWords
  BY Zenon DEF TurnsKeepWords, WordsKept, TextsOf, WordsOf, SpeakerAt, Where

\* What is read of the lines.
ReadsFrom(body, lines, from, m, off, who, fmt) ==
    /\ body = SubSeq(lines, from, Len(lines)) /\ Len(body) = m
    /\ Reads(body, m, off, who, fmt)

LEMMA BodyIs ==
    ASSUME NEW fmt \in Formats, NEW n \in Nat, NEW lines, Numbers(lines, n),
           NEW from, from = IF fmt = "vtt" THEN 2 ELSE 1,
           NEW who, who = [i \in Int |-> SpeakerAt(lines, fmt, 1, i)],
           NEW body, body = Body(lines, fmt)
    PROVE  \E m \in Nat, off \in Int : ReadsFrom(body, lines, from, m, off, who, fmt)
<1>1. /\ lines \in Seq(FileLines) /\ DOMAIN lines = 1..n /\ Len(lines) = n /\ n # 0
      /\ \A i \in 1..n : lines[i].word = i /\ lines[i].who \in STRING /\ lines[i].kind \in Kinds
  BY DEF Numbers
<1>2. CASE fmt = "vtt"
  <2>1. PICK m \in Nat : m = n - 1
    BY <1>1
  <2>2. body = Tail(lines) /\ from = 2
    BY <1>2 DEF Body
  <2>3. /\ DOMAIN body = 1..m /\ Len(body) = m
        /\ \A k \in 1..m : body[k] = lines[k + 1]
        /\ SubSeq(lines, 2, Len(lines)) = body
    BY <1>1, <2>1, <2>2, TailIs
  <2>4. ASSUME NEW k \in 1..m
        PROVE  body[k].word = k + 1 /\ body[k].who \in Speakers /\ Follows(who, k, body[k], fmt)
    <3>1. k + 1 \in 1..n
      BY <2>1
    <3>2. Follows(who, k, body[k], fmt)
      BY <1>2 DEF Follows
    <3> QED
      BY <1>1, <2>3, <3>1, <3>2 DEF Speakers
  <2>5. Reads(body, m, 1, who, fmt)
    BY <1>2, <2>3, <2>4 DEF Reads
  <2>6. ReadsFrom(body, lines, from, m, 1, who, fmt)
    BY <2>2, <2>3, <2>5 DEF ReadsFrom
  <2> QED
    BY <2>6
<1>3. CASE fmt # "vtt"
  <2>1. body = lines /\ from = 1
    BY <1>3 DEF Body
  <2>2. SubSeq(lines, 1, Len(lines)) = body
    BY <1>1, <2>1, TailIs
  <2>3. ASSUME NEW k \in 1..n
        PROVE  body[k].word = k + 0 /\ body[k].who \in Speakers /\ Follows(who, k, body[k], fmt)
    <3>1. k \in Nat \ {0}
      OBVIOUS
    <3>2. Follows(who, k, body[k], fmt)
      BY <2>1, <3>1, SpeakersFollow
    <3> QED
      BY <1>1, <2>1, <3>2 DEF Speakers
  <2>4. who[0] = "Speaker"
    <3>1. who[0] = SpeakerAt(lines, fmt, 1, 0)
      OBVIOUS
    <3>2. {j \in 1..0 : lines[j].kind = "named"} = {}
      OBVIOUS
    <3> QED
      BY <3>1, <3>2, Zenon DEF SpeakerAt
  <2>5. Reads(body, n, 0, who, fmt)
    BY <1>1, <2>1, <2>3, <2>4 DEF Reads
  <2>6. ReadsFrom(body, lines, from, n, 0, who, fmt)
    BY <1>1, <2>1, <2>2, <2>5 DEF ReadsFrom
  <2> QED
    BY <2>6
<1> QED
  BY <1>2, <1>3

LEMMA TranscriptIs ==
    ASSUME NEW extension \in Extensions, NEW unnumbered \in Seq(FileLines), unnumbered # <<>>,
           NEW r, r = parse_transcript(extension, Numbered(unnumbered))
    PROVE  WordsKept(r, unnumbered)
<1>1. PICK lines : lines = Numbered(unnumbered)
  OBVIOUS
<1>2. PICK n \in Nat : Numbers(lines, n)
  BY <1>1, NumberedAre
<1>3. PICK fmt : fmt = _detect_format(extension, lines)
  OBVIOUS
<1>4. fmt \in Formats
  <2>1. lines[1].kind \in Kinds
    <3>1. 1 \in 1..n
      BY <1>2 DEF Numbers
    <3> QED
      BY <1>2, <3>1 DEF Numbers
  <2>2. lines[1].kind # "item"
    BY <2>1 DEF Kinds
  <2> QED
    BY <1>3, <2>2, FormatIs
<1>5. PICK turns : turns = ParseTurns(lines, fmt)
  OBVIOUS
<1>6. r.format = fmt /\ r.turns = turns
  <2>1. fmt # "json"
    BY <1>4 DEF Formats
  <2>2. r = [format |-> fmt, turns |-> turns]
    BY <1>1, <1>3, <1>5, <2>1 DEF parse_transcript
  <2> QED
    BY <2>2
<1>7. PICK from : from = IF fmt = "vtt" THEN 2 ELSE 1
  OBVIOUS
<1>8. PICK body : body = Body(lines, fmt)
  OBVIOUS
<1>9. PICK who : who = [i \in Int |-> SpeakerAt(lines, fmt, 1, i)]
  OBVIOUS
<1>10. PICK m \in Nat, off \in Int : ReadsFrom(body, lines, from, m, off, who, fmt)
  BY <1>2, <1>4, <1>7, <1>8, <1>9, BodyIs
<1>11. body = SubSeq(lines, from, Len(lines))
  BY <1>10 DEF ReadsFrom
<1>18. Reads(body, m, off, who, fmt)
  BY <1>10 DEF ReadsFrom
<1>19. DOMAIN body = 1..m /\ Len(body) = m /\ \A k \in 1..m : body[k].word = k + off
  BY <1>10 DEF ReadsFrom, Reads
<1>12. PICK I : I = Saying(body, m, fmt)
  OBVIOUS
<1>13. /\ turns \in Seq(Turns)
       /\ FlattenSeq(TextsOf(turns)) = Moved(Places(m, I), off)
       /\ fmt # "vtt" => \A t \in DOMAIN turns : \A w \in DOMAIN turns[t].text :
                            turns[t].speaker = who[turns[t].text[w]]
  BY <1>4, <1>5, <1>8, <1>12, <1>18, TurnsAre
<1>14. WordsOf(Kept(body, I)) = Moved(Places(m, I), off)
  BY <1>12, <1>19, SaidAre
<1>16. FlattenSeq(TextsOf(turns)) = WordsOf(Kept(body, I))
  BY <1>13, <1>14
<1>17. ASSUME fmt # "vtt", NEW t \in DOMAIN turns, NEW w \in DOMAIN turns[t].text
       PROVE  turns[t].speaker = SpeakerAt(lines, fmt, from, turns[t].text[w])
  <2>1. from = 1
    BY <1>7, <1>17
  <2>2. turns[t].text[w] \in Int
    <3>1. PICK k \in Nat : k = Len(turns) /\ DOMAIN turns = 1..k
      BY <1>13
    <3>2. turns[t] \in Turns
      BY <1>13, <3>1
    <3>3. PICK text \in Seq(Int) : text = turns[t].text
      BY <3>2 DEF Turns
    <3> QED
      BY <3>3
  <2> QED
    BY <1>9, <1>13, <1>17, <2>1, <2>2
<1>20. WordsKept(r, unnumbered)
  <2>1. r.format # "vtt" =>
              \A t \in DOMAIN r.turns : \A w \in DOMAIN r.turns[t].text :
                  r.turns[t].speaker = SpeakerAt(lines, r.format, from, r.turns[t].text[w])
    BY <1>6, <1>17
  <2>2. body = SubSeq(lines, from, Len(lines)) /\ from = IF r.format = "vtt" THEN 2 ELSE 1
    BY <1>6, <1>7, <1>11
  <2>3. I = {i \in DOMAIN body : body[i].kind \notin Wordless[r.format]}
    BY <1>6, <1>12, <1>19 DEF Saying
  <2>4. FlattenSeq(TextsOf(r.turns)) = WordsOf(Kept(body, I))
    BY <1>6, <1>16
  <2> QED
    BY <1>1, <2>1, <2>2, <2>3, <2>4, Zenon DEF WordsKept
<1> QED
  BY <1>20

LEMMA TranscriptAnswered ==
    ASSUME TypeInv, Next, topic = "transcript"
    PROVE  WordsKept(result', given.lines)
<1>1. result' = parse_transcript(given.extension, Numbered(given.lines))
  <2>1. ParseTranscript
    BY TopicStep
  <2> QED
    BY <2>1 DEF ParseTranscript, Compute
<1>2. given.extension \in Extensions /\ given.lines # <<>> /\ given.lines \in Seq(FileLines)
  BY InputsAssumption DEF TypeInv, TextsOK, FileLines, Kinds
<1> QED
  BY <1>1, <1>2, TranscriptIs

TranscriptsKept == Answered("transcript") => WordsKept(result, given.lines)

\* Of a transcript every word is kept, in order, with who spoke it.
THEOREM TranscriptsKeepWords == Spec => []TurnsKeepWords
<1>1. Init => TranscriptsKept
  BY DEF Init, TranscriptsKept, Answered
<1>2. TypeInv /\ TranscriptsKept /\ [Next]_calcVars => TranscriptsKept'
  <2> SUFFICES ASSUME TypeInv, TranscriptsKept, [Next]_calcVars PROVE TranscriptsKept'
    OBVIOUS
  <2>1. CASE UNCHANGED calcVars
    BY <2>1 DEF TranscriptsKept, Answered, calcVars
  <2>2. CASE Next
    <3>1. topic' = topic /\ given' = given
      BY <2>2, StepAnswers
    <3>2. topic = "transcript" => WordsKept(result', given.lines)
      BY <2>2, TranscriptAnswered
    <3> QED
      BY <3>1, <3>2 DEF TranscriptsKept, Answered
  <2> QED
    BY <2>1, <2>2
<1>3. TranscriptsKept => TurnsKeepWords
  BY TurnsKeepThem DEF TranscriptsKept
<1> QED
  BY <1>1, <1>2, <1>3, TypeOK, PTL DEF Spec

-----------------------------------------------------------------------------
(* Texts and what is printed of them                                       *)

Texts == Seq(Nat)

\* \o, as a name that provers leave alone.
Glued(a, b) == a \o b

GluedFrom(c, a, n, b, m) ==
    /\ c \in Texts /\ Len(c) = n + m
    /\ \A i \in 1..n : c[i] = a[i]
    /\ \A i \in 1..m : c[n + i] = b[i]

LEMMA GluedIs ==
    ASSUME NEW a \in Texts, NEW b \in Texts, NEW n \in Nat, n = Len(a), NEW m \in Nat, m = Len(b),
           NEW c, c = Glued(a, b)
    PROVE  GluedFrom(c, a, n, b, m)
  BY DEF GluedFrom, Glued, Texts

LEMMA GluedNothing ==
    ASSUME NEW a \in Texts
    PROVE  Glued(a, <<>>) = a /\ Glued(<<>>, a) = a
  BY DEF Glued, Texts

LEMMA GluedThrice ==
    ASSUME NEW a \in Texts, NEW b \in Texts, NEW c \in Texts
    PROVE  Glued(Glued(a, b), c) = Glued(a, Glued(b, c))
  BY DEF Glued, Texts

LEMMA GluedLonger ==
    ASSUME NEW a \in Texts, NEW b \in Texts, NEW e \in Nat
    PROVE  Longer(b, e) \in Texts /\ Glued(a, Longer(b, e)) = Longer(Glued(a, b), e)
<1>1. PICK n \in Nat, m \in Nat : n = Len(a) /\ m = Len(b)
  BY DEF Texts
<1>2. PICK more : more = Longer(b, e)
  OBVIOUS
<1>3. more \in Texts /\ Len(more) = m + 1 /\ more[m + 1] = e /\ \A i \in 1..m : more[i] = b[i]
  BY <1>1, <1>2 DEF Longer, Texts
<1>4. PICK m1 \in Nat : m1 = m + 1
  OBVIOUS
<1>5. PICK c : c = Glued(a, more)
  OBVIOUS
<1>6. /\ c \in Texts /\ Len(c) = n + m1
      /\ \A i \in 1..n : c[i] = a[i]
      /\ \A i \in 1..m1 : c[n + i] = more[i]
  <2>1. more \in Texts /\ m1 = Len(more)
    BY <1>3, <1>4
  <2>2. n = Len(a)
    BY <1>1
  <2>3. GluedFrom(c, a, n, more, m1)
    BY <1>5, <2>1, <2>2, GluedIs
  <2> QED
    BY <2>3 DEF GluedFrom
<1>7. PICK d : d = Glued(a, b)
  OBVIOUS
<1>8. /\ d \in Texts /\ Len(d) = n + m
      /\ \A i \in 1..n : d[i] = a[i]
      /\ \A i \in 1..m : d[n + i] = b[i]
  <2>1. GluedFrom(d, a, n, b, m)
    BY <1>1, <1>7, GluedIs
  <2> QED
    BY <2>1 DEF GluedFrom
<1>9. PICK f : f = Longer(d, e)
  OBVIOUS
<1>10. /\ f \in Texts /\ Len(f) = n + m + 1 /\ f[n + m + 1] = e
       /\ \A i \in 1..(n + m) : f[i] = d[i]
  BY <1>8, <1>9 DEF Longer, Texts
<1>11. ASSUME NEW i \in 1..(n + m + 1) PROVE c[i] = f[i]
  <2>1. CASE i \in 1..n
    <3>1. i \in 1..(n + m)
      BY <2>1
    <3> QED
      BY <1>6, <1>8, <1>10, <2>1, <3>1
  <2>2. CASE i \notin 1..n
    <3>1. PICK k \in 1..m1 : i = n + k
      <4>1. i - n \in 1..m1 /\ i = n + (i - n)
        BY <1>4, <2>2
      <4> QED
        BY <4>1
    <3>2. CASE k = m1
      <4>1. c[n + m1] = more[m1]
        BY <1>6, <3>2
      <4> QED
        BY <1>3, <1>4, <1>10, <3>1, <3>2, <4>1
    <3>3. CASE k # m1
      <4>1. k \in 1..m /\ n + k \in 1..(n + m)
        BY <1>4, <3>3
      <4> QED
        BY <1>3, <1>6, <1>8, <1>10, <3>1, <4>1
    <3> QED
      BY <3>2, <3>3
  <2> QED
    BY <2>1, <2>2
<1>12. c = f
  <2>1. c = [i \in 1..(n + m + 1) |-> c[i]] /\ f = [i \in 1..(n + m + 1) |-> f[i]]
    BY <1>4, <1>6, <1>10 DEF Texts
  <2> QED
    BY <1>11, <2>1
<1> QED
  BY <1>2, <1>3, <1>5, <1>7, <1>9, <1>12

\* r lists what is printed of the first k characters of t.
Printed(t, n, r) ==
    /\ r \in [0..n -> Texts]
    /\ r[0] = <<>>
    /\ \A k \in 1..n : r[k] = IF t[k] # Space THEN Longer(r[k - 1], t[k]) ELSE r[k - 1]

LEMMA LongerIs ==
    ASSUME NEW s \in Texts, NEW e \in Nat, NEW l \in Nat, Len(s) = l
    PROVE  /\ Longer(s, e) = [j \in 1..(l + 1) |-> Longer(s, e)[j]]
           /\ Longer(s, e)[l + 1] = e
           /\ \A j \in 1..l : Longer(s, e)[j] = s[j]
<1>1. PICK more : more = Append(s, e)
  OBVIOUS
<1>2. more \in Seq(Nat) /\ Len(more) = l + 1
  BY <1>1 DEF Texts
<1>3. more[l + 1] = e
  BY <1>1 DEF Texts
<1>4. \A j \in 1..l : more[j] = s[j]
  BY <1>1 DEF Texts
<1>5. more = [j \in 1..(l + 1) |-> more[j]]
  BY <1>2
<1> QED
  BY <1>1, <1>3, <1>4, <1>5 DEF Longer

LEMMA NonSpacePrints ==
    ASSUME NEW t \in Texts, NEW n \in Nat, n = Len(t)
    PROVE  \E r : Printed(t, n, r) /\ NonSpace(t) = r[n]
<1>1. DOMAIN t = 1..n /\ \A k \in 1..n : t[k] \in Nat
  BY DEF Texts
<1>2. PICK I : I = {i \in 1..n : t[i] # Space}
  OBVIOUS
<1>3. PICK s : s = [i \in 1..n |-> i]
  OBVIOUS
<1>4. DOMAIN s = 1..n /\ \A k \in 1..n : s[k] = k
  BY <1>3
<1>5. PICK env : env = <<I>>
  OBVIOUS
<1>6. env[1] = I
  BY <1>5
<1>7. PICK p : Placing!Run(env, <<>>, n, s, p) /\ Placing!Fold(env, <<>>, s) = p[n]
  BY <1>4, Placing!FoldRuns
<1>8. p[0] = <<>> /\ \A k \in 1..n : p[k] = IF s[k] \in env[1] THEN Append(p[k - 1], s[k]) ELSE p[k - 1]
  BY <1>7 DEF Placing!Run
<1>9. Places(n, I) = p[n]
  BY <1>3, <1>5, <1>7, PlacesFold
<1>10. \A k \in 0..n : Listing(p[k], k, I)
  <2>1. Listing(<<>>, 0, I)
    BY DEF Listing
  <2>2. \A k \in 1..n : \A out :
         Listing(out, k - 1, I) => Listing(IF k \in I THEN Append(out, k) ELSE out, k, I)
    <3>1. \A k \in 1..n : k \in Nat \ {0}
      OBVIOUS
    <3> QED
      BY <3>1, OnePlaceMore
  <2>3. Listing(<<>>, 0, env[1])
    BY <1>6, <2>1
  <2>4. \A k \in 1..n : \A out :
         Listing(out, k - 1, env[1]) => Listing(IF s[k] \in env[1] THEN Append(out, s[k]) ELSE out, k, env[1])
    BY <1>4, <1>6, <2>2
  <2>5. \A k \in 0..n : Listing(p[k], k, env[1])
    BY <1>7, <2>3, <2>4, Placing!RunInduction
  <2> QED
    BY <1>6, <2>5
<1>11. \A k \in 0..n : p[k] \in Seq(1..n)
  <2>1. ASSUME NEW k \in 0..n PROVE p[k] \in Seq(1..n)
    <3>1. p[k] \in Seq(I \intersect 1..k)
      BY <1>10 DEF Listing
    <3>2. I \intersect 1..k \subseteq 1..n
      OBVIOUS
    <3>3. PICK q : q = p[k]
      OBVIOUS
    <3>4. q \in Seq(I \intersect 1..k)
      BY <3>1, <3>3
    <3>5. q \in Seq(1..n)
      BY <3>2, <3>4
    <3> QED
      BY <3>3, <3>5
  <2> QED
    BY <2>1
<1>12. PICK r : r = [k \in 0..n |-> [j \in DOMAIN p[k] |-> t[p[k][j]]]]
  OBVIOUS
<1>13. \A k \in 0..n : r[k] = [j \in DOMAIN p[k] |-> t[p[k][j]]]
  BY <1>12
<1>14. r \in [0..n -> Texts]
  <2>1. ASSUME NEW k \in 0..n PROVE r[k] \in Texts
    <3>1. PICK q \in Seq(1..n) : q = p[k]
      BY <1>11
    <3>2. \A j \in DOMAIN q : t[q[j]] \in Nat
      BY <1>1, <3>1
    <3>3. PICK l \in Nat : l = Len(q) /\ DOMAIN q = 1..l
      BY <3>1
    <3>4. r[k] = [j \in 1..l |-> t[q[j]]]
      BY <1>13, <3>1, <3>3
    <3> QED
      BY <3>2, <3>3, <3>4 DEF Texts
  <2> QED
    BY <1>12, <2>1
<1>15. r[0] = <<>>
  <2>1. DOMAIN p[0] = {} /\ 0 \in 0..n
    BY <1>8
  <2>2. PICK f : f = r[0]
    OBVIOUS
  <2>3. f = [j \in {} |-> t[p[0][j]]]
    BY <1>13, <2>1, <2>2
  <2>4. f = <<>>
    BY <2>3
  <2> QED
    BY <2>2, <2>4
<1>16. ASSUME NEW k \in 1..n
       PROVE  r[k] = IF t[k] # Space THEN Longer(r[k - 1], t[k]) ELSE r[k - 1]
  <2>1. k - 1 \in 0..n /\ k \in 0..n
    OBVIOUS
  <2>2. PICK q \in Seq(1..n) : q = p[k - 1]
    BY <1>11, <2>1
  <2>3. PICK l \in Nat : l = Len(q) /\ DOMAIN q = 1..l
    BY <2>2
  <2>4. r[k - 1] = [j \in 1..l |-> t[q[j]]]
    BY <1>13, <2>1, <2>2, <2>3
  <2>5. CASE t[k] = Space
    <3>1. p[k] = q
      BY <1>2, <1>4, <1>6, <1>8, <2>2, <2>5
    <3>2. r[k] = [j \in 1..l |-> t[q[j]]]
      BY <1>13, <2>1, <2>3, <3>1
    <3> QED
      BY <2>4, <2>5, <3>2
  <2>6. CASE t[k] # Space
    <3>1. p[k] = Append(q, k)
      <4>1. s[k] = k /\ s[k] \in env[1]
        BY <1>2, <1>4, <1>6, <2>6
      <4>2. p[k] = Append(p[k - 1], s[k])
        BY <1>8, <4>1, Zenon
      <4> QED
        BY <2>2, <4>1, <4>2, Zenon
    <3>2. PICK more : more = Append(q, k)
      OBVIOUS
    <3>3. /\ DOMAIN more = 1..(l + 1) /\ more[l + 1] = k /\ \A j \in 1..l : more[j] = q[j]
      BY <2>2, <2>3, <3>2
    <3>4. r[k] = [j \in 1..(l + 1) |-> t[more[j]]]
      BY <1>13, <2>1, <3>1, <3>2, <3>3
    <3>5. PICK before \in Texts : before = r[k - 1] /\ Len(before) = l /\ \A j \in 1..l : before[j] = t[q[j]]
      BY <1>14, <2>1, <2>3, <2>4
    <3>6. PICK e \in Nat : e = t[k]
      BY <1>1
    <3>7. PICK lon : lon = Longer(before, e)
      OBVIOUS
    <3>8. /\ lon = [j \in 1..(l + 1) |-> lon[j]]
          /\ lon[l + 1] = e /\ \A j \in 1..l : lon[j] = before[j]
      <4>1. Len(before) = l
        BY <3>5
      <4> QED
        BY <3>7, <4>1, LongerIs
    <3>9. \A j \in 1..(l + 1) : t[more[j]] = lon[j]
      <4>1. t[more[l + 1]] = lon[l + 1]
        BY <3>3, <3>6, <3>8
      <4>2. \A j \in 1..l : t[more[j]] = lon[j]
        BY <3>3, <3>5, <3>8
      <4> QED
        BY <4>1, <4>2
    <3>10. r[k] = lon
      <4>1. PICK f : f = [j \in 1..(l + 1) |-> t[more[j]]]
        OBVIOUS
      <4>2. f = [j \in 1..(l + 1) |-> lon[j]]
        BY <3>9, <4>1
      <4> QED
        BY <3>4, <3>8, <4>1, <4>2, Zenon
    <3> QED
      BY <2>6, <3>5, <3>6, <3>7, <3>10
  <2> QED
    BY <2>5, <2>6
<1>17. NonSpace(t) = r[n]
  <2>1. NonSpace(t) = Kept(t, {i \in DOMAIN t : t[i] # Space})
    BY DEF NonSpace, Where
  <2>2. {i \in DOMAIN t : t[i] # Space} = I
    BY <1>1, <1>2
  <2>3. NonSpace(t) = Kept(t, I)
    BY <2>1, <2>2
  <2>4. Kept(t, I) = [j \in DOMAIN p[n] |-> t[p[n][j]]]
    BY <1>9 DEF Kept
  <2>5. n \in 0..n
    OBVIOUS
  <2> QED
    BY <1>13, <2>3, <2>4, <2>5
<1> QED
  BY <1>14, <1>15, <1>16, <1>17 DEF Printed

LEMMA NonSpaceIsText ==
    ASSUME NEW t \in Texts
    PROVE  NonSpace(t) \in Texts
<1>1. PICK n \in Nat : n = Len(t)
  BY DEF Texts
<1>2. PICK r : Printed(t, n, r) /\ NonSpace(t) = r[n]
  BY <1>1, NonSpacePrints
<1>3. n \in 0..n
  OBVIOUS
<1> QED
  BY <1>2, <1>3 DEF Printed

\* What is printed of a text in two parts is what is printed of one, then of the other.
LEMMA GluedPrints ==
    ASSUME NEW a \in Texts, NEW b \in Texts
    PROVE  NonSpace(Glued(a, b)) = Glued(NonSpace(a), NonSpace(b))
<1>1. PICK n \in Nat, m \in Nat : n = Len(a) /\ m = Len(b)
  BY DEF Texts
<1>2. PICK c : c = Glued(a, b)
  OBVIOUS
<1>3. /\ c \in Texts /\ Len(c) = n + m
      /\ \A i \in 1..n : c[i] = a[i]
      /\ \A i \in 1..m : c[n + i] = b[i]
  <2>1. GluedFrom(c, a, n, b, m)
    BY <1>1, <1>2, GluedIs
  <2> QED
    BY <2>1 DEF GluedFrom
<1>4. PICK l \in Nat : l = n + m
  OBVIOUS
<1>5. PICK ra : Printed(a, n, ra) /\ NonSpace(a) = ra[n]
  BY <1>1, NonSpacePrints
<1>6. PICK rb : Printed(b, m, rb) /\ NonSpace(b) = rb[m]
  BY <1>1, NonSpacePrints
<1>7. PICK rc : Printed(c, l, rc) /\ NonSpace(c) = rc[l]
  <2>1. Len(c) = l
    BY <1>3, <1>4
  <2> QED
    BY <1>3, <2>1, NonSpacePrints
<1>8. \A k \in 0..n : rc[k] = ra[k]
  <2> DEFINE T == {k \in Nat : k \in 0..n => rc[k] = ra[k]}
  <2>1. 0 \in T
    BY <1>5, <1>7 DEF Printed
  <2>2. ASSUME NEW k \in Nat, k \in T PROVE k + 1 \in T
    <3>1. SUFFICES ASSUME k + 1 \in 0..n PROVE rc[k + 1] = ra[k + 1]
      OBVIOUS
    <3>2. PICK i \in 1..n : i = k + 1 /\ i - 1 = k /\ i \in 1..l /\ k \in 0..n
      BY <1>4, <3>1
    <3>3. rc[k] = ra[k] /\ c[i] = a[i]
      BY <1>3, <2>2, <3>2
    <3>4. rc[i] = IF c[i] # Space THEN Longer(rc[i - 1], c[i]) ELSE rc[i - 1]
      BY <1>7, <3>2 DEF Printed
    <3>5. ra[i] = IF a[i] # Space THEN Longer(ra[i - 1], a[i]) ELSE ra[i - 1]
      BY <1>5, <3>2 DEF Printed
    <3> QED
      BY <3>2, <3>3, <3>4, <3>5
  <2>3. Nat \subseteq T
    <3> HIDE DEF T
    <3> QED
      BY <2>1, <2>2, Joining!Induction
  <2> QED
    BY <2>3
<1>9. PICK x \in Texts : x = ra[n]
  <2>1. n \in 0..n
    OBVIOUS
  <2> QED
    BY <1>5, <2>1 DEF Printed
<1>10. \A k \in 0..m : rb[k] \in Texts
  BY <1>6 DEF Printed
<1>11. \A k \in 0..m : rc[n + k] = Glued(x, rb[k])
  <2> DEFINE T == {k \in Nat : k \in 0..m => rc[n + k] = Glued(x, rb[k])}
  <2>1. 0 \in T
    <3>1. n \in 0..n /\ n + 0 = n
      OBVIOUS
    <3>2. rc[n + 0] = x
      BY <1>8, <1>9, <3>1
    <3>3. rb[0] = <<>>
      BY <1>6 DEF Printed
    <3>4. Glued(x, rb[0]) = x
      BY <3>3, GluedNothing
    <3> QED
      BY <3>2, <3>4
  <2>2. ASSUME NEW k \in Nat, k \in T PROVE k + 1 \in T
    <3>1. SUFFICES ASSUME k + 1 \in 0..m PROVE rc[n + (k + 1)] = Glued(x, rb[k + 1])
      OBVIOUS
    <3>2. PICK i \in 1..m : i = k + 1 /\ i - 1 = k /\ k \in 0..m
      BY <3>1
    <3>3. PICK j \in 1..l : j = n + i /\ j - 1 = n + k /\ j = n + (k + 1)
      BY <1>4, <3>2
    <3>4. PICK y \in Texts : y = rb[k]
      BY <1>10, <3>2
    <3>5. rc[j - 1] = Glued(x, y)
      BY <2>2, <3>2, <3>3, <3>4
    <3>6. c[j] = b[i] /\ b[i] \in Nat
      <4>1. b[i] \in Nat
        BY <1>1 DEF Texts
      <4> QED
        BY <1>3, <3>3, <4>1
    <3>7. rc[j] = IF c[j] # Space THEN Longer(rc[j - 1], c[j]) ELSE rc[j - 1]
      BY <1>7 DEF Printed
    <3>8. rb[i] = IF b[i] # Space THEN Longer(y, b[i]) ELSE y
      BY <1>6, <3>2, <3>4 DEF Printed
    <3>9. Glued(x, Longer(y, b[i])) = Longer(Glued(x, y), b[i])
      BY <3>6, GluedLonger
    <3>10. rc[j] = Glued(x, rb[i])
      BY <3>5, <3>6, <3>7, <3>8, <3>9
    <3> QED
      BY <3>2, <3>3, <3>10
  <2>3. Nat \subseteq T
    <3> HIDE DEF T
    <3> QED
      BY <2>1, <2>2, Joining!Induction
  <2> QED
    BY <2>3
<1>12. rc[l] = Glued(x, rb[m])
  <2>1. m \in 0..m
    OBVIOUS
  <2> QED
    BY <1>4, <1>11, <2>1
<1> QED
  BY <1>2, <1>5, <1>6, <1>7, <1>9, <1>12

-----------------------------------------------------------------------------
(* Lists of texts                                                          *)

TextLists == Seq(Texts)

\* What is printed of a list of texts.
Ink(pieces) == NonSpace(FlattenSeq(pieces))

LEMMA NothingPrinted ==
    /\ <<>> \in Texts /\ <<>> \in TextLists
    /\ NonSpace(<<>>) = <<>> /\ Ink(<<>>) = <<>>
<1>1. PICK e : e = <<>>
  OBVIOUS
<1>2. e \in Texts /\ e \in TextLists /\ Len(e) = 0
  <2>1. \A S : <<>> \in Seq(S)
    OBVIOUS
  <2>2. Len(e) = 0
    BY <1>1
  <2> QED
    BY <1>1, <2>1, <2>2 DEF Texts, TextLists
<1>3. PICK n \in Nat : n = 0 /\ n = Len(e)
  BY <1>2
<1>4. PICK r : Printed(e, n, r) /\ NonSpace(e) = r[n]
  BY <1>2, <1>3, NonSpacePrints
<1>5. NonSpace(e) = <<>>
  BY <1>3, <1>4 DEF Printed
<1>6. FlattenSeq(<<>>) = <<>>
  BY DEF FlattenSeq
<1> QED
  BY <1>1, <1>2, <1>5, <1>6 DEF Ink

LEMMA InkMore ==
    ASSUME NEW pieces \in TextLists, NEW piece \in Texts
    PROVE  /\ Ink(pieces) \in Texts
           /\ Ink(Longer(pieces, piece)) = Glued(Ink(pieces), NonSpace(piece))
<1>1. pieces \in Seq(Seq(Nat)) /\ piece \in Seq(Nat)
  BY DEF Texts, TextLists
<1>2. PICK flat : flat = FlattenSeq(pieces)
  OBVIOUS
<1>3. flat \in Seq(Nat)
  BY <1>1, <1>2, FlattenMore
<1>4. PICK more : more = Append(pieces, piece)
  OBVIOUS
<1>5. FlattenSeq(more) = flat \o piece
  BY <1>1, <1>2, <1>4, FlattenMore
<1>6. flat \in Texts
  BY <1>3 DEF Texts
<1>7. FlattenSeq(more) = Glued(flat, piece)
  BY <1>5 DEF Glued
<1>8. NonSpace(Glued(flat, piece)) = Glued(NonSpace(flat), NonSpace(piece))
  BY <1>6, GluedPrints
<1>9. NonSpace(flat) \in Texts
  BY <1>6, NonSpaceIsText
<1> QED
  BY <1>2, <1>4, <1>7, <1>8, <1>9 DEF Ink, Longer

\* r lists what is printed of the first k of n pieces.
InkRun(pieces, n, r) ==
    /\ r \in [0..n -> Texts]
    /\ r[0] = <<>>
    /\ \A k \in 1..n : r[k] = Glued(r[k - 1], NonSpace(pieces[k]))

LEMMA InkRuns ==
    ASSUME NEW pieces \in TextLists, NEW n \in Nat, n = Len(pieces)
    PROVE  \E r : InkRun(pieces, n, r) /\ Ink(pieces) = r[n]
<1>1. pieces \in [1..n -> Seq(Nat)] /\ \A k \in 1..n : pieces[k] \in Texts
  BY DEF Texts, TextLists
<1>2. PICK q : Joined(pieces, n, Nat, q) /\ FlattenSeq(pieces) = q[n]
  BY <1>1, FlattenJoins
<1>3. /\ \A k \in 0..n : q[k] \in Texts
      /\ q[0] = <<>>
      /\ \A k \in 1..n : q[k] = Glued(q[k - 1], pieces[k])
  BY <1>2 DEF Joined, Texts, Glued
<1>4. PICK r : r = [k \in 0..n |-> NonSpace(q[k])]
  OBVIOUS
<1>5. \A k \in 0..n : r[k] = NonSpace(q[k])
  BY <1>4
<1>6. \A k \in 0..n : NonSpace(q[k]) \in Texts
  BY <1>3, NonSpaceIsText
<1>7. r \in [0..n -> Texts]
  BY <1>4, <1>6
<1>8. r[0] = <<>>
  BY <1>3, <1>5, NothingPrinted
<1>9. ASSUME NEW k \in 1..n PROVE r[k] = Glued(r[k - 1], NonSpace(pieces[k]))
  <2>1. k - 1 \in 0..n /\ k \in 0..n
    OBVIOUS
  <2>2. PICK x \in Texts, y \in Texts : x = q[k - 1] /\ y = pieces[k]
    BY <1>1, <1>3, <2>1
  <2>3. q[k] = Glued(x, y)
    BY <1>3, <2>2
  <2>4. NonSpace(Glued(x, y)) = Glued(NonSpace(x), NonSpace(y))
    BY GluedPrints
  <2> QED
    BY <1>5, <2>1, <2>2, <2>3, <2>4
<1>10. Ink(pieces) = r[n]
  <2>1. n \in 0..n
    OBVIOUS
  <2> QED
    BY <1>2, <1>5, <2>1 DEF Ink
<1> QED
  BY <1>7, <1>8, <1>9, <1>10 DEF InkRun

\* Of two lists, what is printed of one, then of the other.
LEMMA InkOfTwo ==
    ASSUME NEW a \in TextLists, NEW b \in TextLists, NEW c, c = a \o b
    PROVE  c \in TextLists /\ Ink(c) = Glued(Ink(a), Ink(b))
<1>1. PICK n \in Nat, m \in Nat : n = Len(a) /\ m = Len(b)
  BY DEF TextLists
<1>2. /\ c \in TextLists /\ Len(c) = n + m
      /\ \A i \in 1..n : c[i] = a[i]
      /\ \A i \in 1..m : c[n + i] = b[i]
  BY <1>1 DEF TextLists
<1>3. \A i \in 1..n : a[i] \in Texts
  BY <1>1 DEF TextLists
<1>3a. \A i \in 1..m : b[i] \in Texts
  BY <1>1 DEF TextLists
<1>4. PICK l \in Nat : l = n + m
  OBVIOUS
<1>5. PICK ra : InkRun(a, n, ra) /\ Ink(a) = ra[n]
  BY <1>1, InkRuns
<1>6. PICK rb : InkRun(b, m, rb) /\ Ink(b) = rb[m]
  BY <1>1, InkRuns
<1>7. PICK rc : InkRun(c, l, rc) /\ Ink(c) = rc[l]
  <2>1. Len(c) = l
    BY <1>2, <1>4
  <2> QED
    BY <1>2, <2>1, InkRuns
<1>8. \A k \in 0..n : rc[k] = ra[k]
  <2> DEFINE T == {k \in Nat : k \in 0..n => rc[k] = ra[k]}
  <2>1. 0 \in T
    BY <1>5, <1>7 DEF InkRun
  <2>2. ASSUME NEW k \in Nat, k \in T PROVE k + 1 \in T
    <3>1. SUFFICES ASSUME k + 1 \in 0..n PROVE rc[k + 1] = ra[k + 1]
      OBVIOUS
    <3>2. PICK i \in 1..n : i = k + 1 /\ i - 1 = k /\ i \in 1..l /\ k \in 0..n
      BY <1>4, <3>1
    <3>3. rc[k] = ra[k] /\ c[i] = a[i]
      BY <1>2, <2>2, <3>2
    <3>4. rc[i] = Glued(rc[i - 1], NonSpace(c[i]))
      BY <1>7, <3>2 DEF InkRun
    <3>5. ra[i] = Glued(ra[i - 1], NonSpace(a[i]))
      BY <1>5, <3>2 DEF InkRun
    <3> QED
      BY <3>2, <3>3, <3>4, <3>5
  <2>3. Nat \subseteq T
    <3> HIDE DEF T
    <3> QED
      BY <2>1, <2>2, Joining!Induction
  <2> QED
    BY <2>3
<1>9. PICK x \in Texts : x = ra[n]
  <2>1. n \in 0..n
    OBVIOUS
  <2> QED
    BY <1>5, <2>1 DEF InkRun
<1>10. \A k \in 0..m : rb[k] \in Texts
  BY <1>6 DEF InkRun
<1>11. \A k \in 0..m : rc[n + k] = Glued(x, rb[k])
  <2> DEFINE T == {k \in Nat : k \in 0..m => rc[n + k] = Glued(x, rb[k])}
  <2>1. 0 \in T
    <3>1. n \in 0..n /\ n + 0 = n
      OBVIOUS
    <3>2. rc[n + 0] = x
      BY <1>8, <1>9, <3>1
    <3>3. rb[0] = <<>>
      BY <1>6 DEF InkRun
    <3>4. Glued(x, rb[0]) = x
      BY <3>3, GluedNothing
    <3> QED
      BY <3>2, <3>4
  <2>2. ASSUME NEW k \in Nat, k \in T PROVE k + 1 \in T
    <3>1. SUFFICES ASSUME k + 1 \in 0..m PROVE rc[n + (k + 1)] = Glued(x, rb[k + 1])
      OBVIOUS
    <3>2. PICK i \in 1..m : i = k + 1 /\ i - 1 = k /\ k \in 0..m
      BY <3>1
    <3>3. PICK j \in 1..l : j = n + i /\ j - 1 = n + k /\ j = n + (k + 1)
      BY <1>4, <3>2
    <3>4. PICK y \in Texts : y = rb[k]
      BY <1>10, <3>2
    <3>5. rc[j - 1] = Glued(x, y)
      BY <2>2, <3>2, <3>3, <3>4
    <3>6. PICK z \in Texts : z = NonSpace(b[i]) /\ NonSpace(c[j]) = z
      <4>1. NonSpace(b[i]) \in Texts
        BY <1>3a, NonSpaceIsText
      <4>2. c[j] = b[i]
        BY <1>2, <3>3
      <4> QED
        BY <4>1, <4>2
    <3>7. rc[j] = Glued(Glued(x, y), z)
      BY <1>7, <3>5, <3>6 DEF InkRun
    <3>8. rb[i] = Glued(y, z)
      BY <1>6, <3>2, <3>4, <3>6 DEF InkRun
    <3>9. Glued(Glued(x, y), z) = Glued(x, Glued(y, z))
      BY GluedThrice
    <3> QED
      BY <3>2, <3>3, <3>7, <3>8, <3>9
  <2>3. Nat \subseteq T
    <3> HIDE DEF T
    <3> QED
      BY <2>1, <2>2, Joining!Induction
  <2> QED
    BY <2>3
<1>12. rc[l] = Glued(x, rb[m])
  <2>1. m \in 0..m
    OBVIOUS
  <2> QED
    BY <1>4, <1>11, <2>1
<1> QED
  BY <1>2, <1>5, <1>6, <1>7, <1>9, <1>12

-----------------------------------------------------------------------------
(* Hard cuts                                                               *)

\* The characters of s after the a-th, up to the b-th.
Cut(s, a, b) == SubSeq(s, a + 1, b)

LEMMA SameText ==
    ASSUME NEW c \in Texts, NEW d \in Texts, NEW n \in Nat, Len(c) = n, Len(d) = n,
           \A i \in 1..n : c[i] = d[i]
    PROVE  c = d
  BY DEF Texts

Between(a, b, l) == a \in Nat /\ b \in Nat /\ a <= b /\ b <= l

CutFrom(c, s, a, b) == c \in Texts /\ Len(c) = b - a /\ \A i \in 1..(b - a) : c[i] = s[a + i]

LEMMA CutIs ==
    ASSUME NEW s \in Texts, NEW l \in Nat, Len(s) = l, NEW a, NEW b, Between(a, b, l)
    PROVE  CutFrom(Cut(s, a, b), s, a, b)
<1>0. a \in Nat /\ b \in Nat /\ a <= b /\ b <= l
  BY DEF Between
<1>7. PICK c : c = Cut(s, a, b)
  OBVIOUS
<1>1. PICK from \in Int : from = a + 1
  BY <1>0
<1>2. \A i \in from..b : s[i] \in Nat
  BY <1>0, <1>1 DEF Texts
<1>3. c = SubSeq(s, from, b)
  BY <1>1, <1>7 DEF Cut
<1>4. /\ c \in Seq(Nat)
      /\ Len(c) = IF from <= b THEN b - from + 1 ELSE 0
      /\ \A i \in 1..(b - from + 1) : c[i] = s[from + i - 1]
  BY <1>0, <1>2, <1>3, SubSeqProperties
<1>5. Len(c) = b - a
  BY <1>0, <1>1, <1>4
<1>6. ASSUME NEW i \in 1..(b - a) PROVE c[i] = s[a + i]
  <2>1. i \in 1..(b - from + 1) /\ from + i - 1 = a + i
    BY <1>0, <1>1
  <2> QED
    BY <1>4, <2>1
<1> QED
  BY <1>4, <1>5, <1>6, <1>7 DEF CutFrom, Texts

LEMMA FrontIs ==
    ASSUME NEW s \in Texts, NEW l \in Nat, Len(s) = l, NEW b \in Nat, b <= l, NEW c, c = Cut(s, 0, b)
    PROVE  c \in Texts /\ Len(c) = b /\ \A i \in 1..b : c[i] = s[i]
<1>1. PICK o \in Nat : o = 0 /\ o <= b
  OBVIOUS
<1>2. c = Cut(s, o, b)
  BY <1>1
<1>3. c \in Texts /\ Len(c) = b - o /\ \A i \in 1..(b - o) : c[i] = s[o + i]
  <2>1. Between(o, b, l)
    BY <1>1 DEF Between
  <2>2. CutFrom(Cut(s, o, b), s, o, b)
    BY <2>1, CutIs
  <2> QED
    BY <1>2, <2>2 DEF CutFrom
<1>4. b - o = b /\ \A i \in 1..b : o + i = i
  BY <1>1
<1> QED
  BY <1>3, <1>4

LEMMA GluedCuts ==
    ASSUME NEW s \in Texts, NEW l \in Nat, Len(s) = l, NEW a \in Nat, NEW b \in Nat, a <= b, b <= l
    PROVE  /\ Cut(s, 0, a) \in Texts
           /\ Glued(Cut(s, 0, a), Cut(s, a, b)) = Cut(s, 0, b)
<1>1. PICK x, y, z : x = Cut(s, 0, a) /\ y = Cut(s, a, b) /\ z = Cut(s, 0, b)
  OBVIOUS
<1>2. x \in Texts /\ Len(x) = a /\ \A i \in 1..a : x[i] = s[i]
  <2>1. a <= l
    OBVIOUS
  <2> QED
    BY <1>1, <2>1, FrontIs
<1>3. z \in Texts /\ Len(z) = b /\ \A i \in 1..b : z[i] = s[i]
  BY <1>1, FrontIs
<1>4. PICK m \in Nat : m = b - a
  OBVIOUS
<1>5. y \in Texts /\ Len(y) = m /\ \A i \in 1..m : y[i] = s[a + i]
  <2>1. y \in Texts /\ Len(y) = b - a /\ \A i \in 1..(b - a) : y[i] = s[a + i]
    <3>1. Between(a, b, l)
      BY DEF Between
    <3>2. CutFrom(Cut(s, a, b), s, a, b)
      BY <3>1, CutIs
    <3> QED
      BY <1>1, <3>2 DEF CutFrom
  <2> QED
    BY <1>4, <2>1
<1>6. PICK c : c = Glued(x, y)
  OBVIOUS
<1>7. /\ c \in Texts /\ Len(c) = a + m
      /\ \A i \in 1..a : c[i] = x[i]
      /\ \A i \in 1..m : c[a + i] = y[i]
  <2>1. GluedFrom(c, x, a, y, m)
    BY <1>2, <1>5, <1>6, GluedIs
  <2> QED
    BY <2>1 DEF GluedFrom
<1>8. a + m = b
  BY <1>4
<1>9. ASSUME NEW i \in 1..b PROVE c[i] = z[i]
  <2>1. CASE i \in 1..a
    BY <1>2, <1>3, <1>7, <2>1
  <2>2. CASE i \notin 1..a
    <3>1. PICK k \in 1..m : i = a + k
      <4>1. i - a \in 1..m /\ i = a + (i - a)
        BY <1>8, <2>2
      <4> QED
        BY <4>1
    <3> QED
      BY <1>3, <1>5, <1>7, <3>1
  <2> QED
    BY <2>1, <2>2
<1>10. c = z
  BY <1>3, <1>7, <1>8, <1>9, SameText
<1> QED
  BY <1>1, <1>2, <1>6, <1>10

LEMMA CutWhole ==
    ASSUME NEW s \in Texts, NEW l \in Nat, Len(s) = l
    PROVE  Cut(s, 0, l) = s /\ Cut(s, 0, 0) = <<>>
<1>1. PICK x, y : x = Cut(s, 0, l) /\ y = Cut(s, 0, 0)
  OBVIOUS
<1>2. l <= l /\ 0 <= l /\ 0 \in Nat
  OBVIOUS
<1>3. x \in Texts /\ Len(x) = l /\ \A i \in 1..l : x[i] = s[i]
  BY <1>1, <1>2, FrontIs
<1>4. y \in Texts /\ Len(y) = 0
  BY <1>1, <1>2, FrontIs
<1>6. x = s
  BY <1>3, SameText
<1>7. y = <<>>
  BY <1>4 DEF Texts
<1> QED
  BY <1>1, <1>6, <1>7

\* Texts that fit in a chunk.
Fitting(max) == {t \in Texts : Len(t) \in 1..max}

\* Where the k-th cut of l characters ends.
CutEnd(k, max, l) == IF k * max < l THEN k * max ELSE l

\* The n cuts are in order, not empty and not too long, and the last one ends the text.
CutEnds(n, max, l) ==
    /\ n \in Nat
    /\ CutEnd(0, max, l) = 0 /\ CutEnd(n, max, l) = l
    /\ \A k \in 1..n :
          /\ CutEnd(k - 1, max, l) \in Nat /\ CutEnd(k, max, l) \in Nat
          /\ CutEnd(k - 1, max, l) = (k - 1) * max
          /\ CutEnd(k - 1, max, l) < CutEnd(k, max, l)
          /\ CutEnd(k, max, l) <= l
          /\ CutEnd(k, max, l) - CutEnd(k - 1, max, l) <= max

LEMMA CutEndIs ==
    ASSUME NEW max \in Nat \ {0}, NEW l \in Nat, NEW n, n = (l + max - 1) \div max
    PROVE  CutEnds(n, max, l)
<1>1. PICK m \in Nat : m = l + max - 1
  OBVIOUS
<1>2. PICK rest \in Nat : n \in Nat /\ rest <= max - 1 /\ m = max * n + rest
  <2>1. /\ m \div max \in Nat /\ m % max \in 0..(max - 1)
        /\ m = max * (m \div max) + (m % max)
    BY <1>1, Division
  <2>2. n = m \div max
    BY <1>1
  <2>3. m % max \in Nat /\ m % max <= max - 1
    BY <2>1
  <2> QED
    BY <2>1, <2>2, <2>3
<1>3. max * n >= l /\ max * n <= l + max - 1
  BY <1>1, <1>2
<1>4. CutEnd(0, max, l) = 0
  BY DEF CutEnd
<1>5. CutEnd(n, max, l) = l
  <2>1. n * max >= l
    BY <1>2, <1>3
  <2> QED
    BY <1>2, <2>1 DEF CutEnd
<1>6. ASSUME NEW k \in 1..n
      PROVE  /\ CutEnd(k - 1, max, l) \in Nat /\ CutEnd(k, max, l) \in Nat
             /\ CutEnd(k - 1, max, l) = (k - 1) * max
             /\ CutEnd(k - 1, max, l) < CutEnd(k, max, l)
             /\ CutEnd(k, max, l) <= l
             /\ CutEnd(k, max, l) - CutEnd(k - 1, max, l) <= max
  <2>1. PICK j \in Nat, d \in Nat : j = k - 1 /\ n = k + d
    <3>1. k - 1 \in Nat /\ n - k \in Nat /\ n = k + (n - k)
      BY <1>2
    <3> QED
      BY <3>1
  <2>2. PICK x \in Nat, y \in Nat : x = j * max /\ y = d * max
    OBVIOUS
  <2>3. k * max = x + max
    BY <2>1, <2>2
  <2>4. max * n = x + max + y
    BY <2>1, <2>2, <2>3
  <2>5. x < l
    BY <1>3, <2>2, <2>4
  <2>6. CutEnd(k - 1, max, l) = x
    BY <2>1, <2>2, <2>5 DEF CutEnd
  <2>7. CutEnd(k, max, l) = IF x + max < l THEN x + max ELSE l
    BY <2>3 DEF CutEnd
  <2> QED
    BY <2>1, <2>2, <2>5, <2>6, <2>7
<1> QED
  BY <1>2, <1>4, <1>5, <1>6 DEF CutEnds

\* The pieces of a cut are not empty, fit, and together print what was cut.
LEMMA HardCutsPrint ==
    ASSUME NEW max \in Nat \ {0}, NEW s \in Texts, NEW cuts, cuts = HardCuts(s, max)
    PROVE  cuts \in Seq(Fitting(max)) /\ Ink(cuts) = NonSpace(s)
<1>1. PICK l \in Nat : l = Len(s)
  BY DEF Texts
<1>2. PICK n : n = (l + max - 1) \div max
  OBVIOUS
<1>3. /\ n \in Nat
      /\ CutEnd(0, max, l) = 0 /\ CutEnd(n, max, l) = l
      /\ \A k \in 1..n :
            /\ CutEnd(k - 1, max, l) \in Nat /\ CutEnd(k, max, l) \in Nat
            /\ CutEnd(k - 1, max, l) = (k - 1) * max
            /\ CutEnd(k - 1, max, l) < CutEnd(k, max, l)
            /\ CutEnd(k, max, l) <= l
            /\ CutEnd(k, max, l) - CutEnd(k - 1, max, l) <= max
  <2>1. CutEnds(n, max, l)
    BY <1>2, CutEndIs
  <2> QED
    BY <2>1 DEF CutEnds
<1>4. cuts = [k \in 1..n |-> SubSeq(s, (k - 1) * max + 1, CutEnd(k, max, l))]
  BY <1>1, <1>2 DEF HardCuts, CutEnd
<1>5. ASSUME NEW k \in 1..n PROVE cuts[k] = Cut(s, CutEnd(k - 1, max, l), CutEnd(k, max, l))
  BY <1>3, <1>4 DEF Cut
<1>6. ASSUME NEW k \in 1..n PROVE cuts[k] \in Texts /\ Len(cuts[k]) \in 1..max
  <2>1. PICK a \in Nat, b \in Nat : a = CutEnd(k - 1, max, l) /\ b = CutEnd(k, max, l)
    BY <1>3
  <2>2. a < b /\ b <= l /\ b - a <= max
    BY <1>3, <2>1
  <2>3. cuts[k] \in Texts /\ Len(cuts[k]) = b - a
    <3>1. Between(a, b, l)
      BY <2>2 DEF Between
    <3>2. cuts[k] = Cut(s, a, b)
      BY <1>5, <2>1
    <3>3. CutFrom(Cut(s, a, b), s, a, b)
      BY <1>1, <3>1, CutIs
    <3> QED
      BY <3>2, <3>3 DEF CutFrom
  <2> QED
    BY <2>2, <2>3
<1>7. cuts \in [1..n -> Fitting(max)]
  <2>1. \A k \in 1..n : cuts[k] \in Fitting(max)
    BY <1>6 DEF Fitting
  <2>2. cuts = [k \in 1..n |-> cuts[k]]
    BY <1>4
  <2> QED
    BY <2>1, <2>2
<1>8. cuts \in Seq(Fitting(max)) /\ Len(cuts) = n /\ cuts \in TextLists
  <2>1. cuts \in [1..n -> Texts]
    BY <1>7 DEF Fitting
  <2> QED
    BY <1>3, <1>7, <2>1 DEF TextLists
<1>9. PICK r : InkRun(cuts, n, r) /\ Ink(cuts) = r[n]
  BY <1>3, <1>8, InkRuns
<1> DEFINE T == {k \in Nat : k \in 0..n => r[k] = NonSpace(Cut(s, 0, CutEnd(k, max, l)))}
<1>10. 0 \in T
  <2>1. r[0] = <<>>
    BY <1>9 DEF InkRun
  <2>2. Cut(s, 0, CutEnd(0, max, l)) = <<>>
    BY <1>1, <1>3, CutWhole
  <2>3. NonSpace(<<>>) = <<>>
    BY NothingPrinted
  <2> QED
    BY <2>1, <2>2, <2>3
<1>11. ASSUME NEW k \in Nat, k \in T PROVE k + 1 \in T
  <2>1. SUFFICES ASSUME k + 1 \in 0..n PROVE r[k + 1] = NonSpace(Cut(s, 0, CutEnd(k + 1, max, l)))
    OBVIOUS
  <2>2. PICK i \in 1..n : i = k + 1 /\ i - 1 = k /\ k \in 0..n
    BY <1>3, <2>1
  <2>3. PICK a \in Nat, b \in Nat : a = CutEnd(i - 1, max, l) /\ b = CutEnd(i, max, l) /\ a <= b /\ b <= l
    BY <1>3
  <2>4. PICK x \in Texts, y \in Texts : x = Cut(s, 0, a) /\ y = cuts[i] /\ y = Cut(s, a, b)
    <3>1. Cut(s, 0, a) \in Texts
      <4>1. a <= l
        BY <2>3
      <4> QED
        BY <1>1, <4>1, FrontIs
    <3> QED
      BY <1>5, <1>6, <2>3, <3>1
  <2>5. Glued(x, y) = Cut(s, 0, b)
    BY <1>1, <2>3, <2>4, GluedCuts
  <2>6. NonSpace(Glued(x, y)) = Glued(NonSpace(x), NonSpace(y))
    BY GluedPrints
  <2>7. r[i] = Glued(r[i - 1], NonSpace(y))
    BY <1>9, <2>4 DEF InkRun
  <2>8. r[i - 1] = NonSpace(x)
    BY <1>11, <2>2, <2>3, <2>4
  <2> QED
    BY <2>2, <2>3, <2>5, <2>6, <2>7, <2>8
<1>12. Nat \subseteq T
  <2> HIDE DEF T
  <2> QED
    BY <1>10, <1>11, Joining!Induction
<1>13. r[n] = NonSpace(Cut(s, 0, l))
  <2>1. n \in T
    <3> HIDE DEF T
    <3> QED
      BY <1>3, <1>12
  <2>2. n \in 0..n
    BY <1>3
  <2> QED
    BY <1>3, <2>1, <2>2
<1>14. Cut(s, 0, l) = s
  BY <1>1, CutWhole
<1> QED
  BY <1>8, <1>9, <1>13, <1>14

-----------------------------------------------------------------------------
(* Joins and chunks                                                        *)

LEMMA SpacesPrintNothing ==
    ASSUME NEW j \in Nat, NEW spaces, spaces = [i \in 1..j |-> Space]
    PROVE  spaces \in Texts /\ Len(spaces) = j /\ NonSpace(spaces) = <<>>
<1>1. spaces \in Texts /\ Len(spaces) = j /\ \A i \in 1..j : spaces[i] = Space
  BY DEF Texts, Space
<1>2. PICK r : Printed(spaces, j, r) /\ NonSpace(spaces) = r[j]
  BY <1>1, NonSpacePrints
<1> DEFINE T == {k \in Nat : k \in 0..j => r[k] = <<>>}
<1>3. 0 \in T
  BY <1>2 DEF Printed
<1>4. ASSUME NEW k \in Nat, k \in T PROVE k + 1 \in T
  <2>1. SUFFICES ASSUME k + 1 \in 0..j PROVE r[k + 1] = <<>>
    OBVIOUS
  <2>2. PICK i \in 1..j : i = k + 1 /\ i - 1 = k /\ k \in 0..j
    BY <2>1
  <2>3. r[i] = r[i - 1]
    BY <1>1, <1>2 DEF Printed
  <2>4. r[i - 1] = <<>>
    BY <1>4, <2>2
  <2> QED
    BY <2>2, <2>3, <2>4
<1>5. Nat \subseteq T
  <2> HIDE DEF T
  <2> QED
    BY <1>3, <1>4, Joining!Induction
<1>6. r[j] = <<>>
  <2>1. j \in T
    <3> HIDE DEF T
    <3> QED
      BY <1>5
  <2>2. j \in 0..j
    OBVIOUS
  <2> QED
    BY <2>1, <2>2
<1> QED
  BY <1>1, <1>2, <1>6

\* What joins two texts does not print.
LEMMA JoinPrints ==
    ASSUME NEW a \in Texts, NEW j \in Nat, NEW b \in Texts, NEW c, c = Join(a, j, b)
    PROVE  /\ c \in Texts /\ Len(c) = Len(a) + j + Len(b)
           /\ NonSpace(c) = Glued(NonSpace(a), NonSpace(b))
<1>1. PICK spaces : spaces = [i \in 1..j |-> Space]
  OBVIOUS
<1>2. spaces \in Texts /\ Len(spaces) = j /\ NonSpace(spaces) = <<>>
  BY <1>1, SpacesPrintNothing
<1>3. PICK n \in Nat, m \in Nat : n = Len(a) /\ m = Len(b)
  BY DEF Texts
<1>4. PICK d : d = Glued(a, spaces)
  OBVIOUS
<1>5. c = Glued(d, b)
  BY <1>1, <1>4 DEF Join, Glued
<1>6. d \in Texts /\ Len(d) = n + j
  <2>1. GluedFrom(d, a, n, spaces, j)
    BY <1>2, <1>3, <1>4, GluedIs
  <2> QED
    BY <2>1 DEF GluedFrom
<1>7. PICK l \in Nat : l = n + j
  OBVIOUS
<1>8. c \in Texts /\ Len(c) = l + m
  <2>1. Len(d) = l
    BY <1>6, <1>7
  <2>3. GluedFrom(c, d, l, b, m)
    BY <1>3, <1>5, <1>6, <2>1, GluedIs
  <2> QED
    BY <2>3 DEF GluedFrom
<1>9. NonSpace(d) = NonSpace(a)
  <2>1. NonSpace(d) = Glued(NonSpace(a), NonSpace(spaces))
    BY <1>2, <1>4, GluedPrints
  <2>2. NonSpace(a) \in Texts
    BY NonSpaceIsText
  <2> QED
    BY <1>2, <2>1, <2>2, GluedNothing
<1>10. NonSpace(c) = Glued(NonSpace(d), NonSpace(b))
  BY <1>5, <1>6, GluedPrints
<1> QED
  BY <1>3, <1>7, <1>8, <1>9, <1>10

\* A text longer by another: the first, or joined by j spaces.
Extended(buf, j, s) == IF buf = <<>> THEN s ELSE Join(buf, j, s)

LEMMA ExtendedPrints ==
    ASSUME NEW buf \in Texts, NEW j \in Nat, NEW s \in Texts
    PROVE  /\ Extended(buf, j, s) \in Texts
           /\ NonSpace(Extended(buf, j, s)) = Glued(NonSpace(buf), NonSpace(s))
<1>1. CASE buf = <<>>
  <2>1. NonSpace(s) \in Texts /\ NonSpace(buf) = <<>>
    BY <1>1, NonSpaceIsText, NothingPrinted
  <2> QED
    BY <1>1, <2>1, GluedNothing DEF Extended
<1>2. CASE buf # <<>>
  BY <1>2, JoinPrints DEF Extended
<1> QED
  BY <1>1, <1>2

\* Chunks that fit, and a text for the next one.
Cuttings(max) == [out: Seq(Fitting(max)), buf: {t \in Texts : Len(t) <= max}]

\* The chunks so far and the text that waits print ink.
Cutting(st, max, ink) ==
    /\ st \in Cuttings(max)
    /\ Glued(Ink(st.out), NonSpace(st.buf)) = ink

LEMMA CuttingFields ==
    ASSUME NEW max \in Nat \ {0}, NEW st \in Cuttings(max)
    PROVE  /\ st.out \in Seq(Fitting(max)) /\ st.out \in TextLists /\ Ink(st.out) \in Texts
           /\ st.buf \in Texts /\ Len(st.buf) <= max /\ NonSpace(st.buf) \in Texts
<1>1. st.out \in Seq(Fitting(max)) /\ st.buf \in Texts /\ Len(st.buf) <= max
  BY DEF Cuttings
<1>2. PICK out : out = st.out
  OBVIOUS
<1>3. out \in TextLists
  <2>1. out \in Seq(Fitting(max))
    BY <1>1, <1>2
  <2>2. Fitting(max) \subseteq Texts
    BY DEF Fitting
  <2> QED
    BY <2>1, <2>2 DEF TextLists
<1>4. Ink(out) \in Texts
  BY <1>3, NothingPrinted, InkMore
<1>5. NonSpace(st.buf) \in Texts
  BY <1>1, NonSpaceIsText
<1> QED
  BY <1>1, <1>2, <1>3, <1>4, <1>5

LEMMA FlushedPrints ==
    ASSUME NEW max \in Nat \ {0}, NEW st \in Cuttings(max), NEW out, out = Flushed(st.out, st.buf)
    PROVE  /\ out \in Seq(Fitting(max)) /\ out \in TextLists
           /\ Ink(out) = Glued(Ink(st.out), NonSpace(st.buf))
<1>1. /\ st.out \in Seq(Fitting(max)) /\ st.out \in TextLists /\ Ink(st.out) \in Texts
      /\ st.buf \in Texts /\ Len(st.buf) <= max
  BY CuttingFields
<1>2. CASE st.buf = <<>>
  <2>1. out = st.out
    BY <1>2 DEF Flushed
  <2>2. Glued(Ink(st.out), NonSpace(st.buf)) = Ink(st.out)
    BY <1>1, <1>2, NothingPrinted, GluedNothing
  <2> QED
    BY <1>1, <2>1, <2>2
<1>3. CASE st.buf # <<>>
  <2>1. PICK before \in TextLists, buf \in Texts : before = st.out /\ buf = st.buf
    BY <1>1
  <2>2. out = Append(before, buf)
    BY <1>3, <2>1 DEF Flushed
  <2>3. Ink(Longer(before, buf)) = Glued(Ink(before), NonSpace(buf))
    BY InkMore
  <2>4. buf \in Fitting(max)
    <3>1. Len(buf) \in 1..max
      BY <1>1, <1>3, <2>1 DEF Texts
    <3> QED
      BY <3>1 DEF Fitting
  <2>5. before \in Seq(Fitting(max))
    BY <1>1, <2>1
  <2>6. out \in Seq(Fitting(max))
    BY <2>2, <2>4, <2>5
  <2>7. out \in TextLists
    <3>1. Fitting(max) \subseteq Texts
      BY DEF Fitting
    <3> QED
      BY <2>6, <3>1 DEF TextLists
  <2> QED
    BY <2>1, <2>2, <2>3, <2>6, <2>7 DEF Longer
<1> QED
  BY <1>2, <1>3

\* One text more: cut up, waiting alone, joined to what waits, or waiting for it.
AddedTo(st, t, pieces, j, max, next) ==
    \/ Len(t) > max /\ next.out = Flushed(st.out, st.buf) \o pieces /\ next.buf = <<>>
    \/ Len(t) <= max /\ st.buf = <<>> /\ next.out = st.out /\ next.buf = t
    \/ Len(st.buf) + j + Len(t) <= max /\ next.out = st.out /\ next.buf = Join(st.buf, j, t)
    \/ Len(t) <= max /\ next.out = Flushed(st.out, st.buf) /\ next.buf = t

\* The pieces of a text.
PiecesOf(pieces, max, t) == pieces \in Seq(Fitting(max)) /\ Ink(pieces) = NonSpace(t)

LEMMA AddedKeeps ==
    ASSUME NEW max \in Nat \ {0}, NEW ink, NEW st, Cutting(st, max, ink),
           NEW t \in Texts, NEW pieces, Len(t) > max => PiecesOf(pieces, max, t), NEW j \in Nat,
           NEW next, next = [out |-> next.out, buf |-> next.buf], AddedTo(st, t, pieces, j, max, next)
    PROVE  Cutting(next, max, Glued(ink, NonSpace(t)))
<1>1. st \in Cuttings(max) /\ Glued(Ink(st.out), NonSpace(st.buf)) = ink
  BY DEF Cutting
<1>2. PICK out, buf : out = st.out /\ buf = st.buf
  OBVIOUS
<1>3. /\ out \in Seq(Fitting(max)) /\ out \in TextLists /\ Ink(out) \in Texts
      /\ buf \in Texts /\ Len(buf) <= max /\ NonSpace(buf) \in Texts
  BY <1>1, <1>2, CuttingFields
<1>4. PICK x \in Texts, y \in Texts, z \in Texts : x = Ink(out) /\ y = NonSpace(buf) /\ z = NonSpace(t)
  BY <1>3, NonSpaceIsText
<1>5. ink = Glued(x, y) /\ ink \in Texts
  <2>1. ink = Glued(x, y)
    BY <1>1, <1>2, <1>4
  <2> QED
    BY <2>1 DEF Glued, Texts
<1>6. PICK flushed : flushed = Flushed(out, buf)
  OBVIOUS
<1>7. flushed \in Seq(Fitting(max)) /\ flushed \in TextLists /\ Ink(flushed) = ink
  BY <1>1, <1>2, <1>6, FlushedPrints
<1>8. ASSUME next.out \in Seq(Fitting(max)), next.buf \in Texts, Len(next.buf) <= max,
             Glued(Ink(next.out), NonSpace(next.buf)) = Glued(ink, z)
      PROVE  Cutting(next, max, Glued(ink, NonSpace(t)))
  <2>1. next \in Cuttings(max)
    BY <1>8 DEF Cuttings
  <2> QED
    BY <1>4, <1>8, <2>1 DEF Cutting
<1>9. CASE Len(t) > max /\ next.out = Flushed(st.out, st.buf) \o pieces /\ next.buf = <<>>
  <2>1. pieces \in Seq(Fitting(max)) /\ Ink(pieces) = z
    BY <1>4, <1>9 DEF PiecesOf
  <2>2. pieces \in TextLists
    <3>1. Fitting(max) \subseteq Texts
      BY DEF Fitting
    <3> QED
      BY <2>1, <3>1 DEF TextLists
  <2>3. PICK all : all = flushed \o pieces
    OBVIOUS
  <2>4. next.out = all
    BY <1>2, <1>6, <1>9, <2>3
  <2>5. all \in Seq(Fitting(max))
    BY <1>7, <2>1, <2>3
  <2>6. Ink(all) = Glued(ink, z) /\ Ink(all) \in Texts
    <3>1. all \in TextLists /\ Ink(all) = Glued(Ink(flushed), Ink(pieces))
      BY <1>7, <2>2, <2>3, InkOfTwo
    <3>2. Ink(all) \in Texts
      BY <3>1, NothingPrinted, InkMore
    <3> QED
      BY <1>7, <2>1, <3>1, <3>2
  <2>7. next.buf \in Texts /\ Len(next.buf) <= max
    BY <1>9, NothingPrinted
  <2>8. Glued(Ink(all), NonSpace(<<>>)) = Ink(all)
    BY <2>6, NothingPrinted, GluedNothing
  <2>9. Glued(Ink(next.out), NonSpace(next.buf)) = Glued(ink, z)
    BY <1>9, <2>4, <2>6, <2>8
  <2> QED
    BY <1>8, <2>4, <2>5, <2>7, <2>9
<1>10. CASE Len(t) <= max /\ st.buf = <<>> /\ next.out = st.out /\ next.buf = t
  <2>1. y = <<>>
    BY <1>2, <1>4, <1>10, NothingPrinted
  <2>2. ink = x
    BY <1>5, <2>1, GluedNothing
  <2>3. Glued(Ink(next.out), NonSpace(next.buf)) = Glued(ink, z)
    BY <1>2, <1>4, <1>10, <2>2
  <2> QED
    BY <1>2, <1>3, <1>8, <1>10, <2>3
<1>11. CASE Len(st.buf) + j + Len(t) <= max /\ next.out = st.out /\ next.buf = Join(st.buf, j, t)
  <2>1. PICK c : c = Join(buf, j, t)
    OBVIOUS
  <2>2. c \in Texts /\ Len(c) = Len(buf) + j + Len(t) /\ NonSpace(c) = Glued(y, z)
    BY <1>3, <1>4, <2>1, JoinPrints
  <2>3. Glued(x, Glued(y, z)) = Glued(Glued(x, y), z)
    BY GluedThrice
  <2>4. next.buf = c /\ next.out = out
    BY <1>2, <1>11, <2>1
  <2>5. Len(c) <= max
    BY <1>2, <1>11, <2>2
  <2>6. Glued(Ink(next.out), NonSpace(next.buf)) = Glued(ink, z)
    BY <1>4, <1>5, <2>2, <2>3, <2>4
  <2> QED
    BY <1>3, <1>8, <2>2, <2>4, <2>5, <2>6
<1>12. CASE Len(t) <= max /\ next.out = Flushed(st.out, st.buf) /\ next.buf = t
  <2>1. next.out = flushed
    BY <1>2, <1>6, <1>12
  <2>2. Glued(Ink(next.out), NonSpace(next.buf)) = Glued(ink, z)
    BY <1>4, <1>7, <1>12, <2>1
  <2> QED
    BY <1>7, <1>8, <1>12, <2>1, <2>2
<1> QED
  BY <1>9, <1>10, <1>11, <1>12 DEF AddedTo

-----------------------------------------------------------------------------
(* Paragraphs                                                              *)

\* env lists what is printed of the first k sentences.
Sentences == INSTANCE Folding WITH
    Op <- LAMBDA env, buf, s : IF buf = <<>> THEN s ELSE Join(buf, 1, s),
    Holds <- LAMBDA env, k, buf : buf \in Texts /\ NonSpace(buf) = env[k]

LEMMA TextFold ==
    ASSUME NEW sentences, NEW env
    PROVE  Text(sentences) = Sentences!Fold(env, <<>>, sentences)
  BY DEF Text, Sentences!Fold, Sentences!Highest, FoldLeft, MapThenFoldSet, Max

\* A paragraph prints what its sentences print.
LEMMA TextPrints ==
    ASSUME NEW p \in TextLists
    PROVE  Text(p) \in Texts /\ NonSpace(Text(p)) = Ink(p)
<1>1. PICK n \in Nat : n = Len(p) /\ DOMAIN p = 1..n /\ \A k \in 1..n : p[k] \in Texts
  BY DEF TextLists
<1>2. PICK r : InkRun(p, n, r) /\ Ink(p) = r[n]
  BY <1>1, InkRuns
<1>3. <<>> \in Texts /\ NonSpace(<<>>) = r[0]
  BY <1>2, NothingPrinted DEF InkRun
<1>4. ASSUME NEW k \in 1..n, NEW buf, buf \in Texts /\ NonSpace(buf) = r[k - 1]
      PROVE  /\ (IF buf = <<>> THEN p[k] ELSE Join(buf, 1, p[k])) \in Texts
             /\ NonSpace(IF buf = <<>> THEN p[k] ELSE Join(buf, 1, p[k])) = r[k]
  <2>1. PICK s \in Texts : s = p[k]
    BY <1>1
  <2>2. Extended(buf, 1, s) \in Texts /\ NonSpace(Extended(buf, 1, s)) = Glued(NonSpace(buf), NonSpace(s))
    BY <1>4, ExtendedPrints
  <2>3. r[k] = Glued(NonSpace(buf), NonSpace(s))
    BY <1>2, <1>4, <2>1 DEF InkRun
  <2> QED
    BY <2>1, <2>2, <2>3 DEF Extended
<1>5. Sentences!Fold(r, <<>>, p) \in Texts /\ NonSpace(Sentences!Fold(r, <<>>, p)) = r[n]
  BY <1>1, <1>3, <1>4, Sentences!FoldInduction
<1> QED
  BY <1>2, <1>5, TextFold

NothingCut == [out |-> <<>>, buf |-> <<>>]

LEMMA NothingIsCut ==
    ASSUME NEW max \in Nat \ {0}
    PROVE  Cutting(NothingCut, max, <<>>)
<1>1. PICK e : e = <<>>
  OBVIOUS
<1>2. e \in Texts /\ NonSpace(e) = <<>> /\ Ink(e) = <<>> /\ Glued(e, <<>>) = <<>>
  <2>1. Glued(<<>>, <<>>) = <<>>
    BY NothingPrinted, GluedNothing
  <2> QED
    BY <1>1, <2>1, NothingPrinted
<1>3. e \in Seq(Fitting(max)) /\ Len(e) <= max
  BY <1>1
<1>4. NothingCut.out = e /\ NothingCut.buf = e /\ NothingCut = [out |-> e, buf |-> e]
  BY <1>1 DEF NothingCut
<1>5. NothingCut \in Cuttings(max)
  BY <1>2, <1>3, <1>4 DEF Cuttings
<1> QED
  BY <1>1, <1>2, <1>4, <1>5 DEF Cutting

LEMMA SentenceAdded ==
    ASSUME NEW max \in Nat \ {0}, NEW ink, NEW st, Cutting(st, max, ink), NEW s \in Texts
    PROVE  Cutting(AddSentence(st, s, max), max, Glued(ink, NonSpace(s)))
<1>1. PICK next : next = AddSentence(st, s, max)
  OBVIOUS
<1>2. PICK out, buf : out = st.out /\ buf = st.buf /\ st = [out |-> out, buf |-> buf]
  BY DEF Cutting, Cuttings
<1>3. PICK cuts : cuts = HardCuts(s, max)
  OBVIOUS
<1>4. PiecesOf(cuts, max, s)
  BY <1>3, HardCutsPrint DEF PiecesOf
<1>5. PICK l \in Nat : l = Len(s)
  BY DEF Texts
<1>6. next = [out |-> next.out, buf |-> next.buf] /\ AddedTo(st, s, cuts, 1, max, next)
  <2>1. CASE l > max
    <3>1. next = [out |-> Flushed(out, buf) \o cuts, buf |-> <<>>]
      BY <1>1, <1>2, <1>3, <1>5, <2>1, Zenon DEF AddSentence
    <3>2. next.out = Flushed(st.out, st.buf) \o cuts /\ next.buf = <<>>
      BY <1>2, <3>1, Zenon
    <3> QED
      BY <1>5, <2>1, <3>1, <3>2, Zenon DEF AddedTo
  <2>2. CASE ~ (l > max)
    <3>0. l <= max
      BY <2>2
    <3>1. CASE buf = <<>>
      <4>1. next = [out |-> out, buf |-> s]
        BY <1>1, <1>2, <1>5, <2>2, <3>1 DEF AddSentence
      <4> QED
        BY <1>2, <1>5, <3>0, <3>1, <4>1 DEF AddedTo
    <3>2. CASE buf # <<>>
      <4>1. CASE Len(buf) + 1 + l <= max
        <5>1. PICK joined : joined = Join(buf, 1, s)
          OBVIOUS
        <5>2. next = [st EXCEPT !.buf = joined]
          BY <1>1, <1>2, <1>5, <2>2, <3>2, <4>1, <5>1, Zenon DEF AddSentence
        <5>3. next = [out |-> out, buf |-> joined]
          BY <1>2, <5>2
        <5>4. next.out = st.out /\ next.buf = joined
          BY <1>2, <5>3
        <5> QED
          BY <1>2, <1>5, <4>1, <5>1, <5>3, <5>4, Zenon DEF AddedTo
      <4>2. CASE ~ (Len(buf) + 1 + l <= max)
        <5>1. PICK flushed : flushed = Append(out, buf)
          OBVIOUS
        <5>2. next = [out |-> flushed, buf |-> s]
          BY <1>1, <1>2, <1>5, <2>2, <3>2, <4>2, <5>1, Zenon DEF AddSentence
        <5>3. flushed = Flushed(out, buf)
          BY <3>2, <5>1, Zenon DEF Flushed
        <5>4. next.out = flushed /\ next.buf = s
          BY <5>2
        <5> QED
          BY <1>2, <1>5, <3>0, <5>2, <5>3, <5>4, Zenon DEF AddedTo
      <4> QED
        BY <4>1, <4>2
    <3> QED
      BY <3>1, <3>2
  <2> QED
    BY <2>1, <2>2
<1> QED
  BY <1>1, <1>4, <1>6, AddedKeeps

\* env is <<max, r>>: r lists what is printed of the first k sentences.
Splitting == INSTANCE Folding WITH
    Op <- LAMBDA env, st, s : AddSentence(st, s, env[1]),
    Holds <- LAMBDA env, k, st : Cutting(st, env[1], env[2][k])

LEMMA SplitFold ==
    ASSUME NEW p, NEW max, NEW r
    PROVE  _split_long(p, max)
              = Flushed(Splitting!Fold(<<max, r>>, NothingCut, p).out,
                        Splitting!Fold(<<max, r>>, NothingCut, p).buf)
<1>1. <<max, r>>[1] = max
  OBVIOUS
<1> QED
  BY <1>1 DEF _split_long, NothingCut, Splitting!Fold, Splitting!Highest, FoldLeft, MapThenFoldSet, Max

LEMMA SplitPrints ==
    ASSUME NEW max \in Nat \ {0}, NEW p \in TextLists
    PROVE  PiecesOf(_split_long(p, max), max, Text(p))
<1>1. PICK n \in Nat : n = Len(p) /\ DOMAIN p = 1..n /\ \A k \in 1..n : p[k] \in Texts
  BY DEF TextLists
<1>2. PICK r : InkRun(p, n, r) /\ Ink(p) = r[n]
  BY <1>1, InkRuns
<1>0. PICK env : env = <<max, r>>
  OBVIOUS
<1>3. env = <<max, r>> /\ env[1] = max /\ env[2] = r
  BY <1>0
<1>4. Cutting(NothingCut, env[1], env[2][0])
  BY <1>2, <1>3, NothingIsCut DEF InkRun
<1>5. ASSUME NEW k \in 1..n, NEW st, Cutting(st, env[1], env[2][k - 1])
      PROVE  Cutting(AddSentence(st, p[k], env[1]), env[1], env[2][k])
  <2>1. PICK s \in Texts : s = p[k]
    BY <1>1
  <2>2. r[k] = Glued(r[k - 1], NonSpace(s))
    BY <1>2, <2>1 DEF InkRun
  <2>3. Cutting(st, max, r[k - 1])
    BY <1>3, <1>5
  <2>4. Cutting(AddSentence(st, s, max), max, Glued(r[k - 1], NonSpace(s)))
    BY <2>3, SentenceAdded
  <2> QED
    BY <1>3, <2>1, <2>2, <2>4
<1>6. Cutting(Splitting!Fold(env, NothingCut, p), env[1], env[2][n])
  BY <1>1, <1>4, <1>5, Splitting!FoldInduction
<1>7. PICK end : end = Splitting!Fold(env, NothingCut, p)
  OBVIOUS
<1>8. end \in Cuttings(max) /\ Glued(Ink(end.out), NonSpace(end.buf)) = r[n]
  BY <1>3, <1>6, <1>7 DEF Cutting
<1>9. PICK pieces : pieces = Flushed(end.out, end.buf)
  OBVIOUS
<1>10. pieces \in Seq(Fitting(max)) /\ Ink(pieces) = Glued(Ink(end.out), NonSpace(end.buf))
  BY <1>8, <1>9, FlushedPrints
<1>11. pieces = _split_long(p, max)
  BY <1>3, <1>7, <1>9, SplitFold
<1>12. NonSpace(Text(p)) = Ink(p)
  BY TextPrints
<1> QED
  BY <1>2, <1>8, <1>10, <1>11, <1>12 DEF PiecesOf

-----------------------------------------------------------------------------
(* Documents                                                               *)

\* env lists what is printed of the first k paragraphs.
Wholes == INSTANCE Folding WITH
    Op <- LAMBDA env, buf, p : IF buf = <<>> THEN Text(p) ELSE Join(buf, 2, Text(p)),
    Holds <- LAMBDA env, k, buf : buf \in Texts /\ NonSpace(buf) = env[k]

LEMMA WholeFold ==
    ASSUME NEW paragraphs, NEW env
    PROVE  Whole(paragraphs) = Wholes!Fold(env, <<>>, paragraphs)
  BY DEF Whole, Wholes!Fold, Wholes!Highest, FoldLeft, MapThenFoldSet, Max

\* r lists what is printed of the first k of n paragraphs.
Paragraphs(document, n, r) ==
    /\ document \in Seq(TextLists) /\ Len(document) = n /\ DOMAIN document = 1..n
    /\ \A k \in 1..n : document[k] \in TextLists
    /\ r \in [0..n -> Texts]
    /\ r[0] = <<>>
    /\ \A k \in 1..n : r[k] = Glued(r[k - 1], NonSpace(Text(document[k])))

LEMMA ParagraphsAre ==
    ASSUME NEW document \in Seq(TextLists)
    PROVE  \E n \in Nat : \E r : Paragraphs(document, n, r)
<1>1. PICK n \in Nat : n = Len(document) /\ DOMAIN document = 1..n
  OBVIOUS
<1>2. \A k \in 1..n : document[k] \in TextLists
  BY <1>1
<1>3. PICK texts : texts = [k \in 1..n |-> Text(document[k])]
  OBVIOUS
<1>4. \A k \in 1..n : texts[k] = Text(document[k]) /\ texts[k] \in Texts
  <2>1. \A k \in 1..n : Text(document[k]) \in Texts
    BY <1>2, TextPrints
  <2> QED
    BY <1>3, <2>1
<1>5. texts \in TextLists /\ Len(texts) = n
  <2>1. texts \in [1..n -> Texts]
    BY <1>3, <1>4
  <2> QED
    BY <2>1 DEF TextLists
<1>6. PICK r : InkRun(texts, n, r)
  BY <1>5, InkRuns
<1>7. \A k \in 1..n : r[k] = Glued(r[k - 1], NonSpace(Text(document[k])))
  BY <1>4, <1>6 DEF InkRun
<1>8. Paragraphs(document, n, r)
  BY <1>1, <1>2, <1>6, <1>7 DEF Paragraphs, InkRun
<1> QED
  BY <1>8

LEMMA WholePrints ==
    ASSUME NEW document, NEW n \in Nat, NEW r, Paragraphs(document, n, r)
    PROVE  Whole(document) \in Texts /\ NonSpace(Whole(document)) = r[n]
<1>1. <<>> \in Texts /\ NonSpace(<<>>) = r[0]
  BY NothingPrinted DEF Paragraphs
<1>2. ASSUME NEW k \in 1..n, NEW buf, buf \in Texts /\ NonSpace(buf) = r[k - 1]
      PROVE  /\ (IF buf = <<>> THEN Text(document[k]) ELSE Join(buf, 2, Text(document[k]))) \in Texts
             /\ NonSpace(IF buf = <<>> THEN Text(document[k]) ELSE Join(buf, 2, Text(document[k]))) = r[k]
  <2>1. PICK s \in Texts : s = Text(document[k])
    <3>1. document[k] \in TextLists
      BY DEF Paragraphs
    <3> QED
      BY <3>1, TextPrints
  <2>2. Extended(buf, 2, s) \in Texts /\ NonSpace(Extended(buf, 2, s)) = Glued(NonSpace(buf), NonSpace(s))
    BY <1>2, ExtendedPrints
  <2>3. r[k] = Glued(NonSpace(buf), NonSpace(s))
    BY <1>2, <2>1 DEF Paragraphs
  <2> QED
    BY <2>1, <2>2, <2>3 DEF Extended
<1>3. DOMAIN document = 1..n
  BY DEF Paragraphs
<1>4. Wholes!Fold(r, <<>>, document) \in Texts /\ NonSpace(Wholes!Fold(r, <<>>, document)) = r[n]
  BY <1>1, <1>2, <1>3, Wholes!FoldInduction
<1> QED
  BY <1>4, WholeFold

LEMMA ParagraphAdded ==
    ASSUME NEW max \in Nat \ {0}, NEW ink, NEW st, Cutting(st, max, ink), NEW p \in TextLists
    PROVE  Cutting(AddParagraph(st, p, max), max, Glued(ink, NonSpace(Text(p))))
<1>1. PICK next : next = AddParagraph(st, p, max)
  OBVIOUS
<1>2. PICK out, buf : out = st.out /\ buf = st.buf /\ st = [out |-> out, buf |-> buf]
  BY DEF Cutting, Cuttings
<1>3. PICK cuts : cuts = _split_long(p, max)
  OBVIOUS
<1>0. PICK s \in Texts : s = Text(p)
  BY TextPrints
<1>4. PiecesOf(cuts, max, s)
  BY <1>0, <1>3, SplitPrints
<1>5. PICK l \in Nat : l = Len(s)
  BY DEF Texts
<1>6. next = [out |-> next.out, buf |-> next.buf] /\ AddedTo(st, s, cuts, 2, max, next)
  <2>1. CASE l > max
    <3>1. next = [out |-> Flushed(out, buf) \o cuts, buf |-> <<>>]
      BY <1>0, <1>1, <1>2, <1>3, <1>5, <2>1, Zenon DEF AddParagraph
    <3>2. next.out = Flushed(st.out, st.buf) \o cuts /\ next.buf = <<>>
      BY <1>2, <3>1, Zenon
    <3> QED
      BY <1>5, <2>1, <3>1, <3>2, Zenon DEF AddedTo
  <2>2. CASE ~ (l > max)
    <3>0. l <= max
      BY <2>2
    <3>1. CASE buf = <<>>
      <4>1. next = [out |-> out, buf |-> s]
        BY <1>0, <1>1, <1>2, <1>5, <2>2, <3>1 DEF AddParagraph
      <4> QED
        BY <1>2, <1>5, <3>0, <3>1, <4>1 DEF AddedTo
    <3>2. CASE buf # <<>>
      <4>1. CASE Len(buf) + 2 + l <= max
        <5>1. PICK joined : joined = Join(buf, 2, s)
          OBVIOUS
        <5>2. next = [st EXCEPT !.buf = joined]
          BY <1>0, <1>1, <1>2, <1>5, <2>2, <3>2, <4>1, <5>1, Zenon DEF AddParagraph
        <5>3. next = [out |-> out, buf |-> joined]
          BY <1>2, <5>2
        <5>4. next.out = st.out /\ next.buf = joined
          BY <1>2, <5>3
        <5> QED
          BY <1>2, <1>5, <4>1, <5>1, <5>3, <5>4, Zenon DEF AddedTo
      <4>2. CASE ~ (Len(buf) + 2 + l <= max)
        <5>1. PICK flushed : flushed = Flushed(out, buf)
          OBVIOUS
        <5>2. next = [out |-> flushed, buf |-> s]
          BY <1>0, <1>1, <1>2, <1>5, <2>2, <3>2, <4>2, <5>1, Zenon DEF AddParagraph
        <5>4. next.out = flushed /\ next.buf = s
          BY <5>2
        <5> QED
          BY <1>2, <1>5, <3>0, <5>1, <5>2, <5>4, Zenon DEF AddedTo
      <4> QED
        BY <4>1, <4>2
    <3> QED
      BY <3>1, <3>2
  <2> QED
    BY <2>1, <2>2
<1> QED
  BY <1>0, <1>1, <1>4, <1>6, AddedKeeps

\* env is <<max, r>>: r lists what is printed of the first k paragraphs.
Chunking == INSTANCE Folding WITH
    Op <- LAMBDA env, st, p : AddParagraph(st, p, env[1]),
    Holds <- LAMBDA env, k, st : Cutting(st, env[1], env[2][k])

\* The chunks of a document before they overlap.
Chunks(document, max, r) ==
    Flushed(Chunking!Fold(<<max, r>>, NothingCut, document).out,
            Chunking!Fold(<<max, r>>, NothingCut, document).buf)

LEMMA ChunkFold ==
    ASSUME NEW document, NEW max, NEW r, NEW overlap
    PROVE  chunk_text(document, max, overlap)
              = IF Whole(document) = <<>> THEN <<>>
                ELSE IF Len(Whole(document)) <= max THEN <<Whole(document)>>
                ELSE IF overlap > 0 /\ Len(Chunks(document, max, r)) > 1
                     THEN _add_overlap(Chunks(document, max, r), overlap) ELSE Chunks(document, max, r)
<1>1. <<max, r>>[1] = max
  OBVIOUS
<1> QED
  BY <1>1 DEF chunk_text, Chunks, NothingCut, Chunking!Fold, Chunking!Highest, FoldLeft, MapThenFoldSet, Max

\* The chunks print what the document prints, and they fit.
LEMMA ChunksPrint ==
    ASSUME NEW max \in Nat \ {0}, NEW document, NEW n \in Nat, NEW r, Paragraphs(document, n, r)
    PROVE  PiecesOf(Chunks(document, max, r), max, Whole(document))
<1>1. /\ DOMAIN document = 1..n /\ \A k \in 1..n : document[k] \in TextLists
      /\ r[0] = <<>> /\ \A k \in 1..n : r[k] = Glued(r[k - 1], NonSpace(Text(document[k])))
  BY DEF Paragraphs
<1>2. PICK env : env = <<max, r>>
  OBVIOUS
<1>3. env[1] = max /\ env[2] = r
  BY <1>2
<1>4. Cutting(NothingCut, env[1], env[2][0])
  BY <1>1, <1>3, NothingIsCut
<1>5. ASSUME NEW k \in 1..n, NEW st, Cutting(st, env[1], env[2][k - 1])
      PROVE  Cutting(AddParagraph(st, document[k], env[1]), env[1], env[2][k])
  <2>1. PICK p \in TextLists : p = document[k]
    BY <1>1
  <2>2. r[k] = Glued(r[k - 1], NonSpace(Text(p)))
    BY <1>1, <2>1
  <2>3. Cutting(st, max, r[k - 1])
    BY <1>3, <1>5
  <2>4. Cutting(AddParagraph(st, p, max), max, Glued(r[k - 1], NonSpace(Text(p))))
    BY <2>3, ParagraphAdded
  <2> QED
    BY <1>3, <2>1, <2>2, <2>4
<1>6. Cutting(Chunking!Fold(env, NothingCut, document), env[1], env[2][n])
  BY <1>1, <1>4, <1>5, Chunking!FoldInduction
<1>7. PICK end : end = Chunking!Fold(env, NothingCut, document)
  OBVIOUS
<1>8. end \in Cuttings(max) /\ Glued(Ink(end.out), NonSpace(end.buf)) = r[n]
  BY <1>3, <1>6, <1>7 DEF Cutting
<1>9. PICK pieces : pieces = Flushed(end.out, end.buf)
  OBVIOUS
<1>10. pieces \in Seq(Fitting(max)) /\ Ink(pieces) = Glued(Ink(end.out), NonSpace(end.buf))
  BY <1>8, <1>9, FlushedPrints
<1>11. pieces = Chunks(document, max, r)
  BY <1>2, <1>7, <1>9 DEF Chunks
<1>12. NonSpace(Whole(document)) = r[n]
  BY WholePrints
<1> QED
  BY <1>8, <1>10, <1>11, <1>12 DEF PiecesOf

-----------------------------------------------------------------------------
(* Overlaps                                                                *)

LEMMA TailIsText ==
    ASSUME NEW c \in Texts, NEW overlap \in Nat, NEW t, t = Tail_(c, overlap)
    PROVE  t \in Texts /\ Len(t) <= overlap
<1>1. PICK l \in Nat : l = Len(c)
  BY DEF Texts
<1>2. PICK a \in Nat : a = (IF l > overlap THEN l - overlap ELSE 0)
  <2>1. (IF l > overlap THEN l - overlap ELSE 0) \in Nat
    OBVIOUS
  <2> QED
    BY <2>1, Zenon
<1>3. Between(a, l, l) /\ l - a <= overlap
  BY <1>2 DEF Between
<1>4. t = Cut(c, a, l)
  <2>1. t = SubSeq(c, IF l > overlap THEN l - overlap + 1 ELSE 1, l)
    BY <1>1 DEF Tail_
  <2>2. a + 1 = IF l > overlap THEN l - overlap + 1 ELSE 1
    BY <1>2
  <2> QED
    BY <2>1, <2>2 DEF Cut
<1>5. CutFrom(Cut(c, a, l), c, a, l)
  BY <1>1, <1>3, CutIs
<1> QED
  BY <1>3, <1>4, <1>5 DEF CutFrom

\* What follows the join is the second text.
LEMMA JoinStripped ==
    ASSUME NEW t \in Texts, NEW c \in Texts, NEW joined, joined = Join(t, 2, c)
    PROVE  SubSeq(joined, Len(t) + 3, Len(joined)) = c
<1>1. PICK spaces : spaces = [i \in 1..2 |-> Space]
  OBVIOUS
<1>2. spaces \in Texts /\ Len(spaces) = 2
  <2>1. 2 \in Nat
    OBVIOUS
  <2> QED
    BY <1>1, <2>1, SpacesPrintNothing
<1>3. PICK n \in Nat, m \in Nat : n = Len(t) /\ m = Len(c)
  BY DEF Texts
<1>4. PICK d : d = Glued(t, spaces)
  OBVIOUS
<1>5. joined = Glued(d, c)
  BY <1>1, <1>4 DEF Join, Glued
<1>17. PICK two \in Nat : two = 2
  OBVIOUS
<1>6. spaces \in Texts /\ two = Len(spaces)
  BY <1>2, <1>17
<1>7. d \in Texts /\ Len(d) = n + two
  <2>1. GluedFrom(d, t, n, spaces, two)
    BY <1>3, <1>4, <1>6, GluedIs
  <2> QED
    BY <2>1 DEF GluedFrom
<1>8. PICK l \in Nat : l = n + two
  OBVIOUS
<1>9. joined \in Texts /\ Len(joined) = l + m /\ \A i \in 1..m : joined[l + i] = c[i]
  <2>1. Len(d) = l
    BY <1>7, <1>8
  <2>3. GluedFrom(joined, d, l, c, m)
    BY <1>3, <1>5, <1>7, <2>1, GluedIs
  <2> QED
    BY <2>3 DEF GluedFrom
<1>10. PICK all \in Nat : all = l + m
  OBVIOUS
<1>11. Between(l, all, all) /\ all - l = m
  BY <1>10 DEF Between
<1>12. CutFrom(Cut(joined, l, all), joined, l, all)
  BY <1>9, <1>10, <1>11, CutIs
<1>13. PICK cut : cut = Cut(joined, l, all)
  OBVIOUS
<1>14. cut \in Texts /\ Len(cut) = m /\ \A i \in 1..m : cut[i] = joined[l + i]
  BY <1>11, <1>12, <1>13 DEF CutFrom
<1>15. cut = c
  <2>1. \A i \in 1..m : cut[i] = c[i]
    BY <1>9, <1>14
  <2> QED
    BY <1>3, <1>14, <2>1, SameText
<1>16. Cut(joined, l, all) = SubSeq(joined, Len(t) + 3, Len(joined))
  <2>1. l + 1 = Len(t) + 3 /\ all = Len(joined)
    <3>1. Len(joined) = l + m
      BY <1>9
    <3>2. l + 1 = n + 3
      BY <1>8, <1>17
    <3> QED
      BY <1>3, <1>10, <3>1, <3>2
  <2> QED
    BY <2>1 DEF Cut
<1> QED
  BY <1>13, <1>15, <1>16

\* The chunks rid of the end of the one before them.
Stripped(chunks, overlap) ==
    LET plain[i \in DOMAIN chunks] ==
            IF i = 1 \/ overlap = 0 THEN chunks[i]
            ELSE SubSeq(chunks[i], Len(Tail_(plain[i - 1], overlap)) + 3, Len(chunks[i]))
    IN  plain

LEMMA StrippedWhole ==
    ASSUME NEW n \in Nat, NEW chunks, DOMAIN chunks = 1..n, chunks = [i \in 1..n |-> chunks[i]]
    PROVE  Stripped(chunks, 0) = chunks
<1>1. Stripped(chunks, 0) = [i \in 1..n |-> chunks[i]]
  BY DEF Stripped
<1> QED
  BY <1>1, Zenon

\* The chunks overlap by no more than they may, and rid of it they are plain.
Overlaps(chunks, plain, n, max, overlap) ==
    /\ DOMAIN chunks = 1..n
    /\ \A i \in 1..n : Len(chunks[i]) <= max + overlap + 2
    /\ Stripped(chunks, overlap) = plain

LEMMA StrippedIs ==
    ASSUME NEW n \in Nat, NEW max \in Nat \ {0}, NEW overlap \in Nat \ {0},
           NEW plain \in [1..n -> Fitting(max)],
           NEW chunks, chunks = _add_overlap(plain, overlap)
    PROVE  Overlaps(chunks, plain, n, max, overlap)
<1>1. DOMAIN plain = 1..n /\ \A i \in 1..n : plain[i] \in Texts /\ Len(plain[i]) <= max
  BY DEF Fitting
<1>2. /\ DOMAIN chunks = 1..n
      /\ \A i \in 1..n : chunks[i] = IF i = 1 THEN plain[1] ELSE Join(Tail_(plain[i - 1], overlap), 2, plain[i])
  BY <1>1, Zenon DEF _add_overlap
<1>3. ASSUME NEW i \in 1..n, i # 1
      PROVE  /\ SubSeq(chunks[i], Len(Tail_(plain[i - 1], overlap)) + 3, Len(chunks[i])) = plain[i]
             /\ Len(chunks[i]) <= max + overlap + 2
  <2>1. i - 1 \in 1..n
    BY <1>3
  <2>2. PICK c \in Texts, b \in Texts : c = plain[i] /\ b = plain[i - 1]
    BY <1>1, <2>1
  <2>3. PICK t : t = Tail_(b, overlap)
    OBVIOUS
  <2>4. t \in Texts /\ Len(t) <= overlap
    BY <2>3, TailIsText
  <2>5. PICK joined : joined = Join(t, 2, c)
    OBVIOUS
  <2>6. chunks[i] = joined
    BY <1>2, <1>3, <2>2, <2>3, <2>5
  <2>7. SubSeq(joined, Len(t) + 3, Len(joined)) = c
    BY <2>4, <2>5, JoinStripped
  <2>8. PICK j \in Nat : j = 2
    OBVIOUS
  <2>9. Len(joined) = Len(t) + j + Len(c)
    BY <2>4, <2>5, <2>8, JoinPrints
  <2>10. Len(c) <= max /\ Len(c) \in Nat /\ Len(t) \in Nat
    BY <1>1, <2>2, <2>4 DEF Texts
  <2>11. Len(joined) <= max + overlap + 2
    BY <2>4, <2>8, <2>9, <2>10
  <2> QED
    BY <2>2, <2>3, <2>6, <2>7, <2>11
<1>4. ASSUME NEW i \in 1..n PROVE Len(chunks[i]) <= max + overlap + 2
  <2>1. CASE i = 1
    <3>1. chunks[i] = plain[i]
      BY <1>2, <2>1
    <3>2. Len(plain[i]) \in Nat /\ Len(plain[i]) <= max
      BY <1>1 DEF Texts
    <3> QED
      BY <3>1, <3>2
  <2>2. CASE i # 1
    BY <1>3, <2>2
  <2> QED
    BY <2>1, <2>2
<1> DEFINE Unfolded(f) ==
             [i \in 1..n |-> IF i = 1 \/ overlap = 0 THEN chunks[i]
                             ELSE SubSeq(chunks[i], Len(Tail_(f[i - 1], overlap)) + 3, Len(chunks[i]))]
<1>5. plain = Unfolded(plain)
  <2>1. ASSUME NEW i \in 1..n
        PROVE  plain[i] = IF i = 1 \/ overlap = 0 THEN chunks[i]
                          ELSE SubSeq(chunks[i], Len(Tail_(plain[i - 1], overlap)) + 3, Len(chunks[i]))
    BY <1>2, <1>3
  <2>2. plain = [i \in 1..n |-> plain[i]]
    OBVIOUS
  <2> QED
    BY <2>1, <2>2, Zenon
<1>6. PICK f : f = (CHOOSE g : g = Unfolded(g)) /\ Stripped(chunks, overlap) = f
  BY <1>2, Zenon DEF Stripped
<1> HIDE DEF Unfolded
<1>7. f = Unfolded(f)
  BY <1>5, <1>6
<1>8. /\ f = [i \in 1..n |-> f[i]]
      /\ \A i \in 1..n : f[i] = IF i = 1 \/ overlap = 0 THEN chunks[i]
                          ELSE SubSeq(chunks[i], Len(Tail_(f[i - 1], overlap)) + 3, Len(chunks[i]))
  BY <1>7 DEF Unfolded
<1> DEFINE T == {k \in Nat : k + 1 \in 1..n => f[k + 1] = plain[k + 1]}
<1>9. 0 \in T
  <2>1. 1 \in 1..n => f[1] = plain[1]
    BY <1>2, <1>8
  <2> QED
    BY <2>1
<1>10. ASSUME NEW k \in Nat, k \in T PROVE k + 1 \in T
  <2>1. SUFFICES ASSUME (k + 1) + 1 \in 1..n PROVE f[(k + 1) + 1] = plain[(k + 1) + 1]
    OBVIOUS
  <2>2. PICK i \in 1..n : i = (k + 1) + 1 /\ i # 1 /\ i - 1 = k + 1 /\ k + 1 \in 1..n
    BY <2>1
  <2>3. f[i - 1] = plain[i - 1]
    BY <1>10, <2>2
  <2>4. f[i] = SubSeq(chunks[i], Len(Tail_(plain[i - 1], overlap)) + 3, Len(chunks[i]))
    BY <1>8, <2>2, <2>3
  <2>5. f[i] = plain[i]
    BY <1>3, <2>2, <2>4
  <2> HIDE DEF T
  <2> QED
    BY <2>2, <2>5
<1>11. Nat \subseteq T
  <2> HIDE DEF T
  <2> QED
    BY <1>9, <1>10, Joining!Induction
<1>12. \A i \in 1..n : f[i] = plain[i]
  <2>1. ASSUME NEW i \in 1..n PROVE f[i] = plain[i]
    <3>1. PICK k \in Nat : i = k + 1
      <4>1. i - 1 \in Nat /\ i = (i - 1) + 1
        OBVIOUS
      <4> QED
        BY <4>1
    <3>2. k \in T
      <4> HIDE DEF T
      <4> QED
        BY <1>11
    <3> QED
      BY <3>1, <3>2
  <2> QED
    BY <2>1
<1>13. f = plain
  <2>1. plain = [i \in 1..n |-> plain[i]]
    OBVIOUS
  <2> QED
    BY <1>8, <1>12, <2>1
<1> QED
  BY <1>2, <1>4, <1>6, <1>13 DEF Overlaps

\* What ChunksKeepText says of the chunks of a document.
ChunksKept(chunks, document, max, overlap) ==
    LET over == IF Len(chunks) > 1 THEN overlap ELSE 0
        plain == Stripped(chunks, over)
    IN  /\ Ink(plain) = NonSpace(Whole(document))
        /\ \A i \in DOMAIN plain : Len(plain[i]) \in 1..max
        /\ \A i \in DOMAIN chunks : Len(chunks[i]) <= max + over + 2

LEMMA KeepsThem ==
    ASSUME Answered("chunks") => ChunksKept(result, given.document, given.max, given.overlap)
    PROVE  ChunksKeepText
  BY Zenon DEF ChunksKeepText, ChunksKept, Stripped, Ink

\* Chunks that do not overlap.
LEMMA PlainKept ==
    ASSUME NEW max \in Nat \ {0}, NEW document, NEW overlap \in Nat, NEW chunks,
           PiecesOf(chunks, max, Whole(document)), Len(chunks) <= 1 \/ overlap = 0
    PROVE  ChunksKept(chunks, document, max, overlap)
<1>1. chunks \in Seq(Fitting(max)) /\ Ink(chunks) = NonSpace(Whole(document))
  BY DEF PiecesOf
<1>2. PICK n \in Nat : n = Len(chunks) /\ DOMAIN chunks = 1..n
  BY <1>1
<1>3. chunks \in [1..n -> Fitting(max)]
  BY <1>1, <1>2
<1>4. chunks = [i \in 1..n |-> chunks[i]]
  BY <1>3
<1>5. Stripped(chunks, 0) = chunks
  BY <1>2, <1>4, StrippedWhole
<1>6. \A i \in 1..n : Len(chunks[i]) \in 1..max
  BY <1>3 DEF Fitting
<1>7. \A i \in 1..n : Len(chunks[i]) <= max + 0 + 2
  BY <1>6
<1>8. (IF Len(chunks) > 1 THEN overlap ELSE 0) = 0
  BY <1>2
<1> QED
  BY <1>1, <1>2, <1>5, <1>6, <1>7, <1>8, Zenon DEF ChunksKept

LEMMA ChunkTextIs ==
    ASSUME NEW max \in Nat \ {0}, NEW document \in Seq(TextLists), NEW overlap \in Nat,
           NEW chunks, chunks = chunk_text(document, max, overlap)
    PROVE  ChunksKept(chunks, document, max, overlap)
<1>1. PICK n, r : n \in Nat /\ Paragraphs(document, n, r)
  BY ParagraphsAre
<1>2. PICK whole : whole = Whole(document)
  OBVIOUS
<1>3. whole \in Texts
  BY <1>1, <1>2, WholePrints
<1>4. PICK plain : plain = Chunks(document, max, r)
  OBVIOUS
<1>5. PiecesOf(plain, max, whole)
  BY <1>1, <1>2, <1>4, ChunksPrint
<1>6. PICK m \in Nat : m = Len(plain) /\ plain \in [1..m -> Fitting(max)]
  BY <1>5 DEF PiecesOf
<1>7. chunks = IF whole = <<>> THEN <<>>
               ELSE IF Len(whole) <= max THEN <<whole>>
               ELSE IF overlap > 0 /\ m > 1 THEN _add_overlap(plain, overlap) ELSE plain
  BY <1>2, <1>4, <1>6, ChunkFold
<1>8. CASE whole = <<>>
  <2>1. chunks = <<>>
    BY <1>7, <1>8
  <2>2. Ink(chunks) = NonSpace(whole)
    BY <1>8, <2>1, NothingPrinted
  <2>3. chunks \in Seq(Fitting(max)) /\ Len(chunks) <= 1
    BY <2>1
  <2>4. PiecesOf(chunks, max, Whole(document))
    BY <1>2, <2>2, <2>3 DEF PiecesOf
  <2> QED
    BY <2>3, <2>4, PlainKept
<1>9. CASE whole # <<>> /\ Len(whole) <= max
  <2>1. chunks = <<whole>>
    BY <1>7, <1>9
  <2>2. Ink(chunks) = NonSpace(whole)
    <3>1. PICK e : e = <<>>
      OBVIOUS
    <3>2. e \in TextLists /\ Ink(e) = <<>>
      BY <3>1, NothingPrinted
    <3>3. Ink(Longer(e, whole)) = Glued(Ink(e), NonSpace(whole))
      BY <1>3, <3>2, InkMore
    <3>4. NonSpace(whole) \in Texts
      BY <1>3, NonSpaceIsText
    <3>5. Glued(Ink(e), NonSpace(whole)) = NonSpace(whole)
      BY <3>2, <3>4, GluedNothing
    <3>6. Longer(e, whole) = chunks
      <4>1. Append(<<>>, whole) = <<whole>>
        OBVIOUS
      <4> QED
        BY <2>1, <3>1, <4>1, Zenon DEF Longer
    <3> QED
      BY <3>3, <3>5, <3>6
  <2>3. chunks \in Seq(Fitting(max)) /\ Len(chunks) <= 1
    <3>1. Len(whole) \in 1..max
      BY <1>3, <1>9 DEF Texts
    <3>2. whole \in Fitting(max)
      BY <1>3, <3>1 DEF Fitting
    <3> QED
      BY <2>1, <3>2
  <2>4. PiecesOf(chunks, max, Whole(document))
    BY <1>2, <2>2, <2>3 DEF PiecesOf
  <2> QED
    BY <2>3, <2>4, PlainKept
<1>10. CASE whole # <<>> /\ ~ (Len(whole) <= max) /\ ~ (overlap > 0 /\ m > 1)
  <2>1. chunks = plain
    BY <1>7, <1>10
  <2>2. PiecesOf(chunks, max, Whole(document))
    BY <1>2, <1>5, <2>1
  <2>3. Len(chunks) <= 1 \/ overlap = 0
    BY <1>6, <1>10, <2>1
  <2> QED
    BY <2>2, <2>3, PlainKept
<1>11. CASE whole # <<>> /\ ~ (Len(whole) <= max) /\ overlap > 0 /\ m > 1
  <2>1. chunks = _add_overlap(plain, overlap) /\ overlap \in Nat \ {0}
    BY <1>7, <1>11
  <2>2. /\ DOMAIN chunks = 1..m
        /\ \A i \in 1..m : Len(chunks[i]) <= max + overlap + 2
        /\ Stripped(chunks, overlap) = plain
    <3>1. Overlaps(chunks, plain, m, max, overlap)
      BY <1>6, <2>1, StrippedIs
    <3> QED
      BY <3>1 DEF Overlaps
  <2>3. Len(chunks) = m
    <3>1. chunks = [i \in 1..m |-> chunks[i]]
      BY <1>6, <2>1, <2>2 DEF _add_overlap
    <3> QED
      BY <2>2, <3>1
  <2>4. (IF Len(chunks) > 1 THEN overlap ELSE 0) = overlap
    BY <1>11, <2>3
  <2>5. Ink(plain) = NonSpace(Whole(document))
    BY <1>2, <1>5 DEF PiecesOf
  <2>6. DOMAIN plain = 1..m /\ \A i \in 1..m : Len(plain[i]) \in 1..max
    BY <1>6 DEF Fitting
  <2> QED
    BY <2>2, <2>4, <2>5, <2>6, Zenon DEF ChunksKept
<1> QED
  BY <1>8, <1>9, <1>10, <1>11

LEMMA ChunksAnswered ==
    ASSUME TypeInv, Next, topic = "chunks"
    PROVE  ChunksKept(result', given.document, given.max, given.overlap)
<1>1. result' = chunk_text(given.document, given.max, given.overlap)
  <2>1. CutText
    BY TopicStep
  <2> QED
    BY <2>1 DEF CutText, Compute
<1>2. given \in Inputs.chunks
  BY DEF TypeInv
<1>3. given.document \in Seq(Seq(Seq(Characters))) /\ given.max \in Nat \ {0} /\ given.overlap \in Nat
  BY <1>2, InputsAssumption DEF TextsOK
<1>4. given.document \in Seq(TextLists)
  <2>1. Seq(Characters) \subseteq Texts
    <3>1. PICK S : S = Characters
      OBVIOUS
    <3>2. S \subseteq Nat
      BY <3>1 DEF Characters
    <3>3. ASSUME NEW s \in Seq(S) PROVE s \in Seq(Nat)
      <4>1. PICK n \in Nat : n = Len(s) /\ DOMAIN s = 1..n /\ s \in [1..n -> S]
        OBVIOUS
      <4>2. \A i \in 1..n : s[i] \in Nat
        BY <3>2, <4>1
      <4>3. s = [i \in 1..n |-> s[i]]
        BY <4>1
      <4>4. s \in [1..n -> Nat]
        BY <4>2, <4>3
      <4> QED
        BY <4>4
    <3> QED
      BY <3>1, <3>3 DEF Texts
  <2>2. Seq(Seq(Characters)) \subseteq TextLists
    <3>1. PICK S : S = Seq(Characters)
      OBVIOUS
    <3>2. Seq(S) \subseteq Seq(Texts)
      BY <2>1, <3>1
    <3> QED
      BY <3>1, <3>2 DEF TextLists
  <2>3. PICK S : S = Seq(Seq(Characters))
    OBVIOUS
  <2>4. Seq(S) \subseteq Seq(TextLists)
    BY <2>2, <2>3
  <2> QED
    BY <1>3, <2>3, <2>4
<1> QED
  BY <1>1, <1>3, <1>4, ChunkTextIs

TextsKept ==
    /\ Answered("transcript") => WordsKept(result, given.lines)
    /\ Answered("chunks") => ChunksKept(result, given.document, given.max, given.overlap)

\* Documents and transcripts keep all that is in them, whatever they are, and outside VTT
\* each word is said by the speaker named last before it.
THEOREM TextsKeepAll == Spec => []TextIsKept
<1>1. Init => TextsKept
  BY DEF Init, TextsKept, Answered
<1>2. TypeInv /\ TextsKept /\ [Next]_calcVars => TextsKept'
  <2> SUFFICES ASSUME TypeInv, TextsKept, [Next]_calcVars PROVE TextsKept'
    OBVIOUS
  <2>1. CASE UNCHANGED calcVars
    BY <2>1 DEF TextsKept, Answered, calcVars
  <2>2. CASE Next
    <3>1. topic' = topic /\ given' = given
      BY <2>2, StepAnswers
    <3>2. topic = "transcript" => WordsKept(result', given.lines)
      BY <2>2, TranscriptAnswered
    <3>3. topic = "chunks" => ChunksKept(result', given.document, given.max, given.overlap)
      BY <2>2, ChunksAnswered
    <3> QED
      BY <3>1, <3>2, <3>3 DEF TextsKept, Answered
  <2> QED
    BY <2>1, <2>2
<1>3. TextsKept => TextIsKept
  <2>1. ASSUME TextsKept PROVE TurnsKeepWords
    BY <2>1, TurnsKeepThem DEF TextsKept
  <2>2. ASSUME TextsKept PROVE ChunksKeepText
    BY <2>2, KeepsThem DEF TextsKept
  <2> QED
    BY <2>1, <2>2 DEF TextIsKept
<1> QED
  BY <1>1, <1>2, <1>3, TypeOK, PTL DEF Spec

=============================================================================
