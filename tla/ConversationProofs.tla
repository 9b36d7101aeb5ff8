------------------------- MODULE ConversationProofs -------------------------
(***************************************************************************)
(* AnswerHeard for any providers and clients and any answers of words      *)
(* followed by calls.                                                      *)
(*                                                                         *)
(* What becomes of an answer is followed block by block: from what the     *)
(* provider says to the canonical blocks its chunks are read as, to the    *)
(* parts written for the client, to what the client hears and assembles.   *)
(* The invariant, TalkInv, says of a stream under way that the parts       *)
(* written are those of a beginning of the canonical blocks, and that the  *)
(* chunks still to be read are those of the rest.                          *)
(***************************************************************************)
EXTENDS Conversation, SequenceFacts

-----------------------------------------------------------------------------
(* Blocks, whatever their type, and the pieces of what is said.            *)
BlockTypes == {"text", "tool_use", "thinking", "function", "functionCall"}
Kinds == {"text", "call", "arguments", "thought"}
Token == Word \cup {"{", "}"}
Name == Word \cup {""}
Id == {NoId} \cup (Name \X Int) \cup ({"call"} \X Int)
AnyBlock == [type : BlockTypes, text : Seq(Token), id : Id, name : Name]
AnyPiece == [by : {"assistant"}, kind : Kinds, words : Seq(Token)]

LEMMA BlockType ==
  ASSUME NEW type \in BlockTypes, NEW text \in Seq(Token), NEW id \in Id, NEW name \in Name
  PROVE  /\ Block(type, text, id, name) \in AnyBlock
         /\ Block(type, text, id, name).type = type
         /\ Block(type, text, id, name).text = text
         /\ Block(type, text, id, name).id = id
         /\ Block(type, text, id, name).name = name
BY DEF Block, AnyBlock

(* The model's operators on sequences of blocks as spreads.                *)
Sayer == [b \in AnyBlock |-> Pieces("assistant", b)]
Speech == [b \in AnyBlock |-> IF b.type = "thinking" THEN <<>> ELSE Pieces("assistant", b)]
Picker(T) == [b \in AnyBlock |-> IF b.type \in T THEN <<b>> ELSE <<>>]
Writer == [b \in AnyBlock |-> IF b.type = "text" THEN b.text ELSE <<>>]
Fragment(kind) == [w \in Token |-> Piece("assistant", kind, <<w>>)]

LEMMA Tokens == \A t \in Seq(Word) : t \in Seq(Token)
<1>1. \A w \in Word : w \in Token
  BY DEF Token
<1> SUFFICES ASSUME NEW t \in Seq(Word) PROVE t \in Seq(Token)
  OBVIOUS
<1>. QED BY <1>1

LEMMA One == ASSUME NEW X, NEW x \in X PROVE <<x>> \in Seq(X)
OBVIOUS

LEMMA PieceType ==
  ASSUME NEW kind \in Kinds, NEW words \in Seq(Token)
  PROVE  Piece("assistant", kind, words) \in AnyPiece
BY DEF Piece, AnyPiece

LEMMA FragmentSends ==
  ASSUME NEW kind \in Kinds
  PROVE  Sends(Fragment(kind), Token, AnyPiece)
<1> SUFFICES ASSUME NEW w \in Token PROVE Fragment(kind)[w] \in AnyPiece
  BY DEF Sends
<1>1. <<w>> \in Seq(Token)
  BY One
<1>. QED BY <1>1, PieceType DEF Fragment

LEMMA FragmentsIs ==
  ASSUME NEW kind \in Kinds, NEW t \in Seq(Token)
  PROVE  /\ PerFragment("assistant", kind, t) = Mapped(Fragment(kind), t)
         /\ PerFragment("assistant", kind, t) \in Seq(AnyPiece)
<1>1. \A i \in DOMAIN t : t[i] \in Token
  OBVIOUS
<1>2. PerFragment("assistant", kind, t) = Mapped(Fragment(kind), t)
  BY <1>1 DEF PerFragment, Mapped, Fragment
<1>3. Sends(Fragment(kind), Token, AnyPiece)
  BY FragmentSends
<1>4. Mapped(Fragment(kind), t) \in Seq(AnyPiece)
  BY <1>3, MappedType
<1>. QED BY <1>2, <1>4

LEMMA PiecesType ==
  ASSUME NEW b \in AnyBlock
  PROVE  Pieces("assistant", b) \in Seq(AnyPiece)
<1>0. b.text \in Seq(Token) /\ b.name \in Name /\ b.type \in BlockTypes
  BY DEF AnyBlock
<1>1. /\ PerFragment("assistant", "text", b.text) \in Seq(AnyPiece)
      /\ PerFragment("assistant", "arguments", b.text) \in Seq(AnyPiece)
      /\ PerFragment("assistant", "thought", b.text) \in Seq(AnyPiece)
  <2>1. "text" \in Kinds /\ "arguments" \in Kinds /\ "thought" \in Kinds
    BY DEF Kinds
  <2>. QED BY <1>0, <2>1, FragmentsIs
<1>2. b.name # "" => <<Piece("assistant", "call", <<b.name>>)>> \in Seq(AnyPiece)
  <2> SUFFICES ASSUME b.name # "" PROVE <<Piece("assistant", "call", <<b.name>>)>> \in Seq(AnyPiece)
    OBVIOUS
  <2>0. b.name \in Token
    BY <1>0 DEF Name, Token
  <2>1. <<b.name>> \in Seq(Token) /\ "call" \in Kinds
    BY <2>0, One DEF Kinds
  <2>2. Piece("assistant", "call", <<b.name>>) \in AnyPiece
    BY <2>1, PieceType
  <2>. QED BY <2>2, One
<1>3. <<>> \in Seq(AnyPiece)
  OBVIOUS
<1>4. (IF b.name = "" THEN <<>> ELSE <<Piece("assistant", "call", <<b.name>>)>>)
        \o PerFragment("assistant", "arguments", b.text) \in Seq(AnyPiece)
  BY <1>1, <1>2, <1>3, ConcatProperties
<1>. QED BY <1>0, <1>1, <1>2, <1>3, <1>4 DEF Pieces, BlockTypes

LEMMA Senders ==
  /\ Sends(Sayer, AnyBlock, Seq(AnyPiece))
  /\ Sends(Speech, AnyBlock, Seq(AnyPiece))
  /\ \A T : Sends(Picker(T), AnyBlock, Seq(AnyBlock))
  /\ Sends(Writer, AnyBlock, Seq(Token))
<1>1. ASSUME NEW b \in AnyBlock
      PROVE  Pieces("assistant", b) \in Seq(AnyPiece) /\ b.text \in Seq(Token)
             /\ <<b>> \in Seq(AnyBlock)
  <2>1. b.text \in Seq(Token)
    BY DEF AnyBlock
  <2>. QED BY <2>1, PiecesType, One
<1>2. <<>> \in Seq(AnyPiece) /\ <<>> \in Seq(AnyBlock) /\ <<>> \in Seq(Token)
  OBVIOUS
<1>. QED BY <1>1, <1>2 DEF Sends, Sayer, Speech, Picker, Writer

LEMMA AsSpreads ==
  ASSUME NEW s \in Seq(AnyBlock)
  PROVE  /\ AllPieces("assistant", s) = Spread(Sayer, s)
         /\ Spoken("assistant", s) = Spread(Speech, s)
         /\ \A T : OfTypes(s, T) = Spread(Picker(T), s)
<1>1. \A i \in DOMAIN s : s[i] \in AnyBlock
  OBVIOUS
<1>2. [i \in DOMAIN s |-> Pieces("assistant", s[i])] = Mapped(Sayer, s)
  BY <1>1 DEF Sayer, Mapped
<1>3. [i \in DOMAIN s |-> IF s[i].type = "thinking" THEN <<>> ELSE Pieces("assistant", s[i])]
        = Mapped(Speech, s)
  BY <1>1 DEF Speech, Mapped
<1>4. \A T : [i \in DOMAIN s |-> IF s[i].type \in T THEN <<s[i]>> ELSE <<>>] = Mapped(Picker(T), s)
  BY <1>1 DEF Picker, Mapped
<1>. QED BY <1>2, <1>3, <1>4 DEF AllPieces, Spoken, OfTypes, FlatMap, Each, Spread

LEMMA OfTypesType ==
  ASSUME NEW s \in Seq(AnyBlock), NEW T
  PROVE  OfTypes(s, T) \in Seq(AnyBlock)
BY AsSpreads, Senders, SpreadType

LEMMA WordsIs ==
  ASSUME NEW s \in Seq(AnyBlock)
  PROVE  Words(s) = Spread(Writer, s) /\ Words(s) \in Seq(Token)
<1> DEFINE g == [b \in AnyBlock |-> b.text]
           o == OfTypes(s, {"text"})
<1>1. Sends(g, AnyBlock, Seq(Token)) /\ \A b \in AnyBlock : g[b] = b.text /\ b.text \in Seq(Token)
  BY DEF Sends, AnyBlock
<1>2. Sends(Picker({"text"}), AnyBlock, Seq(AnyBlock)) /\ o = Spread(Picker({"text"}), s)
  BY Senders, AsSpreads
<1>3. o \in Seq(AnyBlock)
  BY OfTypesType
<1> HIDE DEF o, g
<1>4. [i \in DOMAIN o |-> o[i].text] = Mapped(g, o)
  BY <1>1, <1>3 DEF Mapped
<1>5. Words(s) = Spread(g, o)
  BY <1>4 DEF Words, FlatMap, Each, Spread, o
<1>6. InTwoSteps(Writer, Picker({"text"}), g, AnyBlock)
  <2> SUFFICES ASSUME NEW b \in AnyBlock PROVE Writer[b] = Spread(g, Picker({"text"})[b])
    BY DEF InTwoSteps
  <2>1. Spread(g, <<b>>) = b.text /\ Spread(g, <<>>) = <<>>
    BY <1>1, SpreadOne, SpreadEmpty
  <2>. QED BY <2>1 DEF Writer, Picker
<1>7. Spread(g, Spread(Picker({"text"}), s)) = Spread(Writer, s)
  <2> DEFINE k == Picker({"text"})
  <2>1. Sends(k, AnyBlock, Seq(AnyBlock)) /\ Sends(g, AnyBlock, Seq(Token))
        /\ InTwoSteps(Writer, k, g, AnyBlock)
    BY <1>1, <1>2, <1>6
  <2> HIDE DEF k
  <2>2. Spread(g, Spread(k, s)) = Spread(Writer, s)
    BY <2>1, SpreadSpread
  <2>. QED BY <2>2 DEF k
<1>8. Spread(Writer, s) \in Seq(Token)
  BY Senders, SpreadType
<1>. QED BY <1>2, <1>5, <1>7, <1>8

-----------------------------------------------------------------------------
(* What an answer is in the canonical form: words and, where it may have   *)
(* them, thoughts, then calls with a name and arguments.                   *)
Saying(s, thinks) ==
  /\ s \in Seq(AnyBlock)
  /\ \A i \in DOMAIN s :
       /\ s[i].type \in {"text", "tool_use"} \/ (thinks /\ s[i].type = "thinking")
       /\ s[i].type = "tool_use" => s[i].name # "" /\ s[i].text # <<>>
  /\ \A i, j \in DOMAIN s : i < j /\ s[i].type = "tool_use" => s[j].type = "tool_use"

SpokenWords == [b \in AnyBlock |-> IF b.type = "text" THEN Pieces("assistant", b) ELSE <<>>]
SpokenCalls == [b \in AnyBlock |-> IF b.type = "tool_use" THEN Pieces("assistant", b) ELSE <<>>]

LEMMA SpokenSends ==
  /\ Sends(SpokenWords, AnyBlock, Seq(AnyPiece))
  /\ Sends(SpokenCalls, AnyBlock, Seq(AnyPiece))
<1>1. ASSUME NEW b \in AnyBlock PROVE Pieces("assistant", b) \in Seq(AnyPiece)
  BY PiecesType
<1>2. <<>> \in Seq(AnyPiece)
  OBVIOUS
<1>. QED BY <1>1, <1>2 DEF Sends, SpokenWords, SpokenCalls

(* The words of an answer as its fragments.                                *)
LEMMA WordsSpoken ==
  ASSUME NEW s \in Seq(AnyBlock)
  PROVE  Spread(SpokenWords, s) = PerFragment("assistant", "text", Words(s))
<1>1. "text" \in Kinds
  BY DEF Kinds
<1>2. Sends(Writer, AnyBlock, Seq(Token)) /\ Sends(Fragment("text"), Token, AnyPiece)
  BY <1>1, Senders, FragmentSends
<1>3. ASSUME NEW b \in AnyBlock PROVE SpokenWords[b] = Mapped(Fragment("text"), Writer[b])
  <2>1. CASE b.type = "text"
    <3>1. SpokenWords[b] = PerFragment("assistant", "text", b.text) /\ Writer[b] = b.text
      BY <2>1 DEF SpokenWords, Pieces, Writer
    <3>2. b.text \in Seq(Token)
      BY DEF AnyBlock
    <3>. QED BY <1>1, <3>1, <3>2, FragmentsIs
  <2>2. CASE b.type # "text"
    <3>1. SpokenWords[b] = <<>> /\ Writer[b] = <<>>
      BY <2>2 DEF SpokenWords, Writer
    <3>. QED BY <3>1, MappedEmpty
  <2>. QED BY <2>1, <2>2
<1>4. Mapped(Fragment("text"), Spread(Writer, s)) = Spread(SpokenWords, s)
  <2>1. MapsEach(SpokenWords, Writer, Fragment("text"), AnyBlock)
    BY <1>3 DEF MapsEach
  <2>. QED BY <1>2, <2>1, MappedSpread
<1>5. Words(s) = Spread(Writer, s) /\ Words(s) \in Seq(Token)
  BY WordsIs
<1>. QED BY <1>1, <1>4, <1>5, FragmentsIs

LEMMA CallsSpoken ==
  ASSUME NEW s \in Seq(AnyBlock)
  PROVE  Spread(SpokenCalls, s) = Spoken("assistant", OfTypes(s, {"tool_use"}))
<1> DEFINE k == Picker({"tool_use"})
<1>1. Sends(k, AnyBlock, Seq(AnyBlock)) /\ Sends(Speech, AnyBlock, Seq(AnyPiece))
  BY Senders
<1>2. ASSUME NEW b \in AnyBlock PROVE SpokenCalls[b] = Spread(Speech, k[b])
  <2>1. CASE b.type = "tool_use"
    <3>1. k[b] = <<b>> /\ SpokenCalls[b] = Speech[b]
      BY <2>1 DEF Picker, SpokenCalls, Speech
    <3>. QED BY <1>1, <3>1, SpreadOne
  <2>2. CASE b.type # "tool_use"
    <3>1. k[b] = <<>> /\ SpokenCalls[b] = <<>>
      BY <2>2 DEF Picker, SpokenCalls
    <3>. QED BY <3>1, SpreadEmpty
  <2>. QED BY <2>1, <2>2
<1>3. OfTypes(s, {"tool_use"}) = Spread(k, s) /\ OfTypes(s, {"tool_use"}) \in Seq(AnyBlock)
  BY AsSpreads, OfTypesType
<1> HIDE DEF k
<1>4. Spread(Speech, Spread(k, s)) = Spread(SpokenCalls, s)
  <2>1. InTwoSteps(SpokenCalls, k, Speech, AnyBlock)
    BY <1>2 DEF InTwoSteps
  <2>. QED BY <1>1, <2>1, SpreadSpread
<1>. QED BY <1>3, <1>4, AsSpreads

(* A message of a chat format holds the words and the calls apart; joined  *)
(* they are what the answer says.                                          *)
LEMMA SpokenSplits ==
  ASSUME NEW s, NEW thinks, Saying(s, thinks)
  PROVE  Spoken("assistant", s)
           = PerFragment("assistant", "text", Words(s))
             \o Spoken("assistant", OfTypes(s, {"tool_use"}))
<1> DEFINE c == [b \in AnyBlock |-> SpokenWords[b] \o SpokenCalls[b]]
<1>0. s \in Seq(AnyBlock) /\ \A i \in DOMAIN s : s[i] \in AnyBlock
  <2>1. s \in Seq(AnyBlock)
    BY DEF Saying
  <2>. QED BY <2>1
<1>1. \A b \in AnyBlock : c[b] = SpokenWords[b] \o SpokenCalls[b]
  OBVIOUS
<1>6. Both(c, SpokenWords, SpokenCalls, AnyBlock)
  BY DEF Both
<1>2. Sorted(s, SpokenWords, SpokenCalls)
  <2> SUFFICES ASSUME NEW i \in DOMAIN s, NEW j \in DOMAIN s, i <= j
               PROVE  SpokenCalls[s[i]] = <<>> \/ SpokenWords[s[j]] = <<>>
    BY DEF Sorted
  <2>1. CASE s[i].type # "tool_use"
    BY <1>0, <2>1 DEF SpokenCalls
  <2>2. CASE s[i].type = "tool_use"
    <3>1. s[j].type = "tool_use"
      <4>1. CASE i = j
        BY <2>2, <4>1
      <4>2. CASE i # j
        <5>1. i < j
          BY <1>0, <4>2
        <5>. QED BY <2>2, <5>1 DEF Saying
      <4>. QED BY <4>1, <4>2
    <3>. QED BY <1>0, <3>1 DEF SpokenWords
  <2>. QED BY <2>1, <2>2
<1> HIDE DEF c
<1>3. Spread(c, s) = Spread(SpokenWords, s) \o Spread(SpokenCalls, s)
  <2>1. /\ Sends(SpokenWords, AnyBlock, Seq(AnyPiece)) /\ Sends(SpokenCalls, AnyBlock, Seq(AnyPiece))
        /\ s \in Seq(AnyBlock)
    BY <1>0, SpokenSends
  <2>. QED BY <1>6, <1>2, <2>1, SpreadSorted
<1>4. ASSUME NEW i \in DOMAIN s PROVE c[s[i]] = Speech[s[i]]
  <2>1. s[i] \in AnyBlock /\ s[i].type \in {"text", "tool_use", "thinking"}
    BY <1>0 DEF Saying
  <2>2. Pieces("assistant", s[i]) \in Seq(AnyPiece)
    BY <2>1, PiecesType
  <2>3. /\ Pieces("assistant", s[i]) \o <<>> = Pieces("assistant", s[i])
        /\ <<>> \o Pieces("assistant", s[i]) = Pieces("assistant", s[i])
    BY <2>2, ConcatEmptySeq
  <2>4. <<>> \o <<>> = <<>>
    <3>1. <<>> \in Seq(AnyPiece)
      OBVIOUS
    <3>. QED BY <3>1, ConcatEmptySeq
  <2>5. CASE s[i].type = "text"
    BY <1>1, <2>1, <2>3, <2>5 DEF SpokenWords, SpokenCalls, Speech
  <2>6. CASE s[i].type = "tool_use"
    BY <1>1, <2>1, <2>3, <2>6 DEF SpokenWords, SpokenCalls, Speech
  <2>7. CASE s[i].type = "thinking"
    BY <1>1, <2>1, <2>4, <2>7 DEF SpokenWords, SpokenCalls, Speech
  <2>. QED BY <2>1, <2>5, <2>6, <2>7
<1>5. Spread(c, s) = Spread(Speech, s)
  BY <1>4, SpreadSame
<1>. QED BY <1>0, <1>3, <1>5, AsSpreads, WordsSpoken, CallsSpoken

(* Nothing of a type is found only where there is nothing of it.           *)
LEMMA OfTypesNone ==
  ASSUME NEW s \in Seq(AnyBlock), NEW T
  PROVE  OfTypes(s, T) = <<>> <=> \A i \in DOMAIN s : s[i].type \notin T
<1> DEFINE P == {r \in Seq(AnyBlock) :
                   Spread(Picker(T), r) = <<>> => \A i \in DOMAIN r : r[i].type \notin T}
<1>1. <<>> \in P
  OBVIOUS
<1>2. ASSUME NEW r \in Seq(AnyBlock), NEW b \in AnyBlock, r \in P PROVE Append(r, b) \in P
  <2>1. Spread(Picker(T), Append(r, b)) = Spread(Picker(T), r) \o Picker(T)[b]
    BY Senders, SpreadAppend
  <2>2. Spread(Picker(T), r) \in Seq(AnyBlock) /\ Picker(T)[b] \in Seq(AnyBlock)
    BY Senders, SpreadType DEF Sends
  <2> SUFFICES ASSUME Spread(Picker(T), Append(r, b)) = <<>>,
                      NEW i \in DOMAIN Append(r, b)
               PROVE  Append(r, b)[i].type \notin T
    <3>1. Append(r, b) \in Seq(AnyBlock)
      OBVIOUS
    <3>. QED BY <3>1
  <2>3. Spread(Picker(T), r) = <<>> /\ Picker(T)[b] = <<>>
    <3> DEFINE u == Spread(Picker(T), r)
               v == Picker(T)[b]
    <3>1. u \in Seq(AnyBlock) /\ v \in Seq(AnyBlock) /\ u \o v = <<>>
      BY <2>1, <2>2
    <3> HIDE DEF u, v
    <3>2. u = <<>> /\ v = <<>>
      BY <3>1, ConcatEqualIffEmpty
    <3>. QED BY <3>2 DEF u, v
  <2>4. b.type \notin T
    BY <2>3 DEF Picker
  <2>5. \A k \in DOMAIN r : r[k].type \notin T
    BY <1>2, <2>3
  <2>. QED BY <2>4, <2>5
<1>3. Seq(AnyBlock) \subseteq P
  <2> HIDE DEF P
  <2>. QED BY <1>1, <1>2, SequenceInduction
<1>4. ASSUME \A i \in DOMAIN s : s[i].type \notin T PROVE Spread(Picker(T), s) = <<>>
  <2>1. \A i \in DOMAIN s : Picker(T)[s[i]] = <<>>
    BY <1>4 DEF Picker
  <2>. QED BY <2>1, SpreadNothing
<1>. QED BY <1>3, <1>4, AsSpreads

-----------------------------------------------------------------------------
(* Blocks of some types that differ in their identifiers.                  *)
Distinct(s, T) ==
  \A i, j \in DOMAIN s : s[i].type \in T /\ s[j].type \in T /\ s[i].id = s[j].id => i = j

(* The blocks of a type are blocks of the sequence, in its order.          *)
LEMMA OfTypesFrom ==
  ASSUME NEW s \in Seq(AnyBlock), NEW T
  PROVE  /\ \A p \in DOMAIN OfTypes(s, T) : /\ OfTypes(s, T)[p].type \in T
                                           /\ \E i \in DOMAIN s : s[i] = OfTypes(s, T)[p]
         /\ Distinct(s, T) => Distinct(OfTypes(s, T), T)
<1> DEFINE o == OfTypes(s, T)
           k == Picker(T)
<1>1. o = Spread(k, s) /\ o \in Seq(AnyBlock) /\ Sends(k, AnyBlock, Seq(AnyBlock))
  BY AsSpreads, OfTypesType, Senders
<1>2. \A b \in AnyBlock : Len(k[b]) <= 1
  BY DEF Picker
<1>3. ASSUME NEW b \in AnyBlock, NEW x, k[b] = <<x>> PROVE b.type \in T /\ b = x
  <2>1. b.type \in T
    <3>1. CASE b.type \notin T
      <4>1. k[b] = <<>>
        BY <3>1 DEF Picker
      <4>2. Len(<<x>>) = 1 /\ Len(<<>>) = 0
        OBVIOUS
      <4>. QED BY <1>3, <4>1, <4>2
    <3>. QED BY <3>1
  <2>2. k[b] = <<b>>
    BY <2>1 DEF Picker
  <2>3. <<b>>[1] = b /\ <<x>>[1] = x
    OBVIOUS
  <2>. QED BY <1>3, <2>1, <2>2, <2>3
<1> HIDE DEF o, k
<1>4. PICK e : Picks(e, o, s, k)
  BY <1>1, <1>2, SpreadPicks
<1>5. ASSUME NEW p \in DOMAIN o
      PROVE  e[p] \in DOMAIN s /\ s[e[p]] = o[p] /\ o[p].type \in T
  <2>1. e[p] \in DOMAIN s /\ k[s[e[p]]] = <<o[p]>>
    BY <1>4 DEF Picks
  <2>2. s[e[p]] \in AnyBlock
    BY <2>1
  <2>. QED BY <1>3, <2>1, <2>2
<1>6. ASSUME Distinct(s, T) PROVE Distinct(o, T)
  <2> SUFFICES ASSUME NEW p \in DOMAIN o, NEW q \in DOMAIN o, o[p].id = o[q].id PROVE p = q
    BY DEF Distinct
  <2>1. e[p] = e[q]
    BY <1>5, <1>6 DEF Distinct
  <2>2. p \in Nat /\ q \in Nat /\ e[p] \in Nat
    <3>1. e[p] \in DOMAIN s
      BY <1>5
    <3>. QED BY <1>1, <3>1
  <2>3. ~(p < q) /\ ~(q < p)
    BY <1>4, <2>1, <2>2 DEF Picks
  <2>. QED BY <2>2, <2>3
<1>. QED BY <1>5, <1>6 DEF o

LEMMA SameSpeech ==
  ASSUME NEW s \in Seq(AnyBlock), NEW t \in Seq(AnyBlock), DOMAIN t = DOMAIN s,
         \A i \in DOMAIN s : Speech[t[i]] = Speech[s[i]]
  PROVE  Spoken("assistant", t) = Spoken("assistant", s)
<1>1. Mapped(Speech, t) = Mapped(Speech, s)
  BY DEF Mapped
<1>2. Spread(Speech, t) = Spread(Speech, s)
  BY <1>1 DEF Spread
<1>. QED BY <1>2, AsSpreads

LEMMA SpokenConcat ==
  ASSUME NEW s \in Seq(AnyBlock), NEW t \in Seq(AnyBlock)
  PROVE  Spoken("assistant", s \o t) = Spoken("assistant", s) \o Spoken("assistant", t)
<1>1. s \o t \in Seq(AnyBlock)
  BY ConcatProperties
<1>2. Sends(Speech, AnyBlock, Seq(AnyPiece))
  BY Senders
<1>3. Spread(Speech, s \o t) = Spread(Speech, s) \o Spread(Speech, t)
  BY <1>2, SpreadConcat
<1>. QED BY <1>1, <1>3, AsSpreads

LEMMA SpokenType == ASSUME NEW s \in Seq(AnyBlock) PROVE Spoken("assistant", s) \in Seq(AnyPiece)
BY AsSpreads, Senders, SpreadType

(* A text that an answer has.                                              *)
LEMMA TextIs ==
  ASSUME NEW t \in Seq(Token)
  PROVE  /\ Text(t) \in AnyBlock /\ Text(t).type = "text" /\ Text(t).text = t
         /\ <<Text(t)>> \in Seq(AnyBlock)
         /\ OfTypes(<<Text(t)>>, {"text"}) = <<Text(t)>>
         /\ Words(<<Text(t)>>) = t
         /\ Spoken("assistant", <<Text(t)>>) = PerFragment("assistant", "text", t)
<1>1. Text(t) \in AnyBlock /\ Text(t).type = "text" /\ Text(t).text = t
  BY DEF Text, Block, AnyBlock, BlockTypes, Id, Name
<1> DEFINE x == Text(t)
<1> HIDE DEF x
<1>2. x \in AnyBlock /\ x.type = "text" /\ x.text = t /\ <<x>> \in Seq(AnyBlock)
  <2>1. x \in AnyBlock /\ x.type = "text" /\ x.text = t
    BY <1>1 DEF x
  <2>. QED BY <2>1, One
<1>3. /\ Spread(Picker({"text"}), <<x>>) = Picker({"text"})[x]
      /\ Spread(Writer, <<x>>) = Writer[x]
      /\ Spread(Speech, <<x>>) = Speech[x]
  <2>1. /\ Sends(Picker({"text"}), AnyBlock, Seq(AnyBlock))
        /\ Sends(Writer, AnyBlock, Seq(Token))
        /\ Sends(Speech, AnyBlock, Seq(AnyPiece))
    BY Senders
  <2>2. ASSUME NEW Z, NEW h, Sends(h, AnyBlock, Seq(Z)) PROVE Spread(h, <<x>>) = h[x]
    BY <1>2, <2>2, SpreadOne
  <2>. QED BY <2>1, <2>2
<1>4. Picker({"text"})[x] = <<x>> /\ Writer[x] = t /\ Speech[x] = PerFragment("assistant", "text", t)
  BY <1>2 DEF Picker, Writer, Speech, Pieces
<1>. QED BY <1>1, <1>2, <1>3, <1>4, AsSpreads, WordsIs DEF x

(* Words of nothing, and of what has no text.                              *)
LEMMA NoWords ==
  /\ Words(<<>>) = <<>> /\ Spoken("assistant", <<>>) = <<>> /\ \A T : OfTypes(<<>>, T) = <<>>
  /\ \A s \in Seq(AnyBlock) : OfTypes(s, {"text"}) = <<>> => Words(s) = <<>>
<1>1. <<>> \in Seq(AnyBlock)
  OBVIOUS
<1>2. Words(<<>>) = <<>> /\ Spoken("assistant", <<>>) = <<>> /\ \A T : OfTypes(<<>>, T) = <<>>
  <2>1. \A h : Spread(h, <<>>) = <<>>
    BY SpreadEmpty
  <2>. QED BY <1>1, <2>1, WordsIs, AsSpreads
<1>3. ASSUME NEW s \in Seq(AnyBlock), OfTypes(s, {"text"}) = <<>> PROVE Words(s) = <<>>
  <2>1. \A i \in DOMAIN s : s[i].type # "text" /\ s[i] \in AnyBlock
    BY <1>3, OfTypesNone
  <2>2. \A i \in DOMAIN s : Writer[s[i]] = <<>>
    BY <2>1 DEF Writer
  <2>3. Spread(Writer, s) = <<>>
    BY <2>2, SpreadNothing
  <2>. QED BY <2>3, WordsIs
<1>. QED BY <1>2, <1>3

(* The content of a message of a chat format: the joined words, or no      *)
(* content.                                                                *)
ChatContent(s) == IF OfTypes(s, {"text"}) = <<>> THEN Absent ELSE Str(Words(s))

LEMMA ChatContentIs ==
  ASSUME NEW s \in Seq(AnyBlock)
  PROVE  /\ ChatContent(s).blocks \in Seq(AnyBlock)
         /\ Words(ChatContent(s).blocks) = Words(s)
         /\ Spoken("assistant", ChatContent(s).blocks) = PerFragment("assistant", "text", Words(s))
         /\ \A T : "text" \notin T => OfTypes(ChatContent(s).blocks, T) = <<>>
<1>1. Words(s) \in Seq(Token)
  BY WordsIs
<1>2. CASE OfTypes(s, {"text"}) = <<>>
  <2>1. ChatContent(s).blocks = <<>> /\ Words(s) = <<>>
    BY <1>2, NoWords DEF ChatContent, Absent
  <2>2. PerFragment("assistant", "text", <<>>) = <<>>
    BY DEF PerFragment
  <2>3. <<>> \in Seq(AnyBlock)
    OBVIOUS
  <2>. QED BY <2>1, <2>2, <2>3, NoWords
<1>3. CASE OfTypes(s, {"text"}) # <<>>
  <2>1. ChatContent(s).blocks = <<Text(Words(s))>>
    BY <1>3 DEF ChatContent, Str
  <2>2. /\ <<Text(Words(s))>> \in Seq(AnyBlock)
        /\ Words(<<Text(Words(s))>>) = Words(s)
        /\ Spoken("assistant", <<Text(Words(s))>>) = PerFragment("assistant", "text", Words(s))
        /\ Text(Words(s)).type = "text"
    BY <1>1, TextIs
  <2>3. ASSUME NEW T, "text" \notin T PROVE OfTypes(<<Text(Words(s))>>, T) = <<>>
    <3>1. \A i \in DOMAIN <<Text(Words(s))>> : <<Text(Words(s))>>[i].type \notin T
      BY <2>2, <2>3
    <3>. QED BY <2>2, <3>1, OfTypesNone
  <2>. QED BY <2>1, <2>2, <2>3
<1>. QED BY <1>2, <1>3

(* What the proxy reads in an answer of a chat format.                     *)
Chatted(s) == (IF Words(s) = <<>> THEN <<>> ELSE <<Text(Words(s))>>) \o OfTypes(s, {"tool_use"})

LEMMA ChatReads ==
  ASSUME NEW s \in Seq(AnyBlock), NEW format \in Chat, NEW r, r.message = WriteAnswer(format, s)
  PROVE  OpenAIResponseToCanonical(r).content = Chatted(s)
<1> DEFINE k == OfTypes(s, {"tool_use"})
           m == Wire("assistant", ChatContent(s), Renamed(k, "tool_use", "function"), NoId)
<1>1. r.message = m
  <2>1. WriteAnswer(format, s) = m
    BY DEF WriteAnswer, ChatContent, Chat
  <2>. QED BY <2>1
<1>2. Words(m.content.blocks) = Words(s)
  <2>1. m.content = ChatContent(s)
    BY DEF Wire
  <2>. QED BY <2>1, ChatContentIs
<1>3. k \in Seq(AnyBlock) /\ \A i \in DOMAIN k : k[i] \in AnyBlock /\ k[i].type = "tool_use"
  <2>1. k \in Seq(AnyBlock)
    BY OfTypesType
  <2>2. \A i \in DOMAIN k : k[i].type \in {"tool_use"}
    BY OfTypesFrom
  <2>. QED BY <2>1, <2>2
<1>4. m.calls = [i \in DOMAIN k |-> [k[i] EXCEPT !.type = "function"]]
  <2>1. m.calls = Renamed(k, "tool_use", "function")
    BY DEF Wire
  <2> HIDE DEF m, k
  <2>. QED BY <1>3, <2>1 DEF Renamed, Each
<1>5. [i \in DOMAIN m.calls |-> ToolUse(m.calls[i].id, m.calls[i].name, m.calls[i].text)] = k
  <2> HIDE DEF m, k
  <2>1. DOMAIN m.calls = DOMAIN k
    BY <1>4
  <2>2. ASSUME NEW i \in DOMAIN k
        PROVE  ToolUse(m.calls[i].id, m.calls[i].name, m.calls[i].text) = k[i]
    <3>1. m.calls[i] = [k[i] EXCEPT !.type = "function"]
      BY <1>4
    <3>2. k[i] \in AnyBlock /\ k[i].type = "tool_use"
      BY <1>3
    <3> DEFINE b == k[i]
    <3> HIDE DEF b
    <3>3. b \in AnyBlock /\ b.type = "tool_use" /\ m.calls[i] = [b EXCEPT !.type = "function"]
      BY <3>1, <3>2 DEF b
    <3>4. m.calls[i].id = b.id /\ m.calls[i].name = b.name /\ m.calls[i].text = b.text
      BY <3>3 DEF AnyBlock
    <3>5. Block("tool_use", b.text, b.id, b.name) = b
      BY <3>3 DEF Block, AnyBlock
    <3>. QED BY <3>4, <3>5 DEF ToolUse, b
  <2>3. [i \in DOMAIN k |-> k[i]] = k
    BY <1>3
  <2>. QED BY <2>1, <2>2, <2>3
<1>6. OpenAIResponseToCanonical(r).content
        = (IF Words(m.content.blocks) = <<>> THEN <<>> ELSE <<Text(Words(m.content.blocks))>>)
          \o [i \in DOMAIN m.calls |-> ToolUse(m.calls[i].id, m.calls[i].name, m.calls[i].text)]
  <2> HIDE DEF m
  <2>. QED BY <1>1 DEF OpenAIResponseToCanonical, Each
<1> HIDE DEF m
<1>. QED BY <1>2, <1>5, <1>6 DEF Chatted

LEMMA ChattedSays ==
  ASSUME NEW s, Saying(s, FALSE)
  PROVE  /\ Saying(Chatted(s), FALSE)
         /\ Spoken("assistant", Chatted(s)) = Spoken("assistant", s)
         /\ Distinct(s, {"tool_use"}) => Distinct(Chatted(s), {"tool_use"})
<1> DEFINE k == OfTypes(s, {"tool_use"})
           t == IF Words(s) = <<>> THEN <<>> ELSE <<Text(Words(s))>>
           c == Chatted(s)
<1>0. s \in Seq(AnyBlock)
  BY DEF Saying
<1>1. /\ k \in Seq(AnyBlock)
      /\ \A p \in DOMAIN k : k[p].type = "tool_use" /\ k[p].name # "" /\ k[p].text # <<>>
  <2>1. k \in Seq(AnyBlock)
    BY <1>0, OfTypesType
  <2>2. \A p \in DOMAIN k : k[p].type \in {"tool_use"} /\ \E i \in DOMAIN s : s[i] = k[p]
    BY <1>0, OfTypesFrom
  <2>. QED BY <2>1, <2>2 DEF Saying
<1>2. Words(s) \in Seq(Token)
  BY <1>0, WordsIs
<1>3. /\ t \in Seq(AnyBlock) /\ \A i \in DOMAIN t : t[i].type = "text"
      /\ Spoken("assistant", t) = PerFragment("assistant", "text", Words(s))
  <2>1. CASE Words(s) = <<>>
    <3>1. t = <<>> /\ PerFragment("assistant", "text", <<>>) = <<>> /\ <<>> \in Seq(AnyBlock)
      BY <2>1 DEF PerFragment
    <3>. QED BY <2>1, <3>1, NoWords
  <2>2. CASE Words(s) # <<>>
    <3>1. t = <<Text(Words(s))>>
      BY <2>2
    <3>2. /\ <<Text(Words(s))>> \in Seq(AnyBlock) /\ Text(Words(s)).type = "text"
          /\ Spoken("assistant", <<Text(Words(s))>>) = PerFragment("assistant", "text", Words(s))
      BY <1>2, TextIs
    <3>3. \A i \in DOMAIN t : t[i] = Text(Words(s))
      BY <3>1
    <3> HIDE DEF t
    <3>. QED BY <3>1, <3>2, <3>3
  <2>. QED BY <2>1, <2>2
<1>4. c = t \o k
  BY DEF Chatted
<1> HIDE DEF c, t, k
<1>5. /\ c \in Seq(AnyBlock) /\ Len(t) \in Nat /\ Len(k) \in Nat
      /\ DOMAIN c = 1 .. Len(t) + Len(k) /\ DOMAIN t = 1 .. Len(t) /\ DOMAIN k = 1 .. Len(k)
      /\ \A i \in DOMAIN c : c[i] = IF i <= Len(t) THEN t[i] ELSE k[i - Len(t)]
  <2>1. t \in Seq(AnyBlock) /\ k \in Seq(AnyBlock)
    BY <1>1, <1>3
  <2>2. /\ t \o k \in Seq(AnyBlock) /\ Len(t \o k) = Len(t) + Len(k)
        /\ \A i \in 1 .. Len(t) + Len(k) :
             (t \o k)[i] = IF i <= Len(t) THEN t[i] ELSE k[i - Len(t)]
    BY <2>1, ConcatProperties
  <2>3. /\ Len(t) \in Nat /\ Len(k) \in Nat
        /\ DOMAIN t = 1 .. Len(t) /\ DOMAIN k = 1 .. Len(k) /\ DOMAIN (t \o k) = 1 .. Len(t \o k)
    BY <2>1, <2>2
  <2>. QED BY <1>4, <2>2, <2>3
<1>6. ASSUME NEW i \in DOMAIN c
      PROVE  /\ i <= Len(t) => c[i].type = "text"
             /\ ~(i <= Len(t)) => /\ i - Len(t) \in DOMAIN k /\ c[i] = k[i - Len(t)]
                                  /\ c[i].type = "tool_use"
                                  /\ c[i].name # "" /\ c[i].text # <<>>
  <2>1. CASE i <= Len(t)
    <3>1. i \in DOMAIN t /\ c[i] = t[i]
      BY <1>5, <2>1
    <3>. QED BY <1>3, <2>1, <3>1
  <2>2. CASE ~(i <= Len(t))
    <3>1. i - Len(t) \in DOMAIN k /\ c[i] = k[i - Len(t)]
      BY <1>5, <2>2
    <3>. QED BY <1>1, <2>2, <3>1
  <2>. QED BY <2>1, <2>2
<1>7. Saying(c, FALSE)
  <2>1. ASSUME NEW i \in DOMAIN c
        PROVE  /\ c[i].type \in {"text", "tool_use"} \/ (FALSE /\ c[i].type = "thinking")
               /\ c[i].type = "tool_use" => c[i].name # "" /\ c[i].text # <<>>
    BY <1>6
  <2>2. ASSUME NEW i \in DOMAIN c, NEW j \in DOMAIN c, i < j, c[i].type = "tool_use"
        PROVE  c[j].type = "tool_use"
    <3>1. ~(i <= Len(t))
      BY <1>6, <2>2
    <3>2. ~(j <= Len(t))
      BY <1>5, <2>2, <3>1
    <3>. QED BY <1>6, <3>2
  <2>. QED BY <1>5, <2>1, <2>2 DEF Saying
<1>8. Spoken("assistant", c) = Spoken("assistant", s)
  <2>1. Spoken("assistant", t \o k) = Spoken("assistant", t) \o Spoken("assistant", k)
    BY <1>1, <1>3, SpokenConcat
  <2>. QED BY <1>3, <1>4, <2>1, SpokenSplits DEF k
<1>9. ASSUME Distinct(s, {"tool_use"}) PROVE Distinct(c, {"tool_use"})
  <2>1. Distinct(k, {"tool_use"})
    BY <1>0, <1>9, OfTypesFrom DEF k
  <2> SUFFICES ASSUME NEW i \in DOMAIN c, NEW j \in DOMAIN c, c[i].type = "tool_use",
                      c[j].type = "tool_use", c[i].id = c[j].id
               PROVE  i = j
    BY DEF Distinct
  <2>2. /\ i - Len(t) \in DOMAIN k /\ c[i] = k[i - Len(t)]
        /\ j - Len(t) \in DOMAIN k /\ c[j] = k[j - Len(t)]
    <3>1. ~(i <= Len(t)) /\ ~(j <= Len(t))
      BY <1>6
    <3>. QED BY <1>6, <3>1
  <2>3. i - Len(t) = j - Len(t)
    BY <1>1, <2>1, <2>2 DEF Distinct
  <2>. QED BY <1>5, <2>3
<1>. QED BY <1>7, <1>8, <1>9 DEF c

-----------------------------------------------------------------------------
(* The proxy reads in an answer, whatever the provider, what it says.      *)
Formats == {"openai", "ollama", "anthropic", "gemini", "plain"}

LEMMA AnthropicReads ==
  ASSUME NEW s, NEW thinks, Saying(s, thinks)
  PROVE  Each(AnthropicAnswerBlock, s) = s
<1>1. s \in Seq(AnyBlock) /\ \A i \in DOMAIN s : s[i].type \in {"text", "tool_use", "thinking"}
  BY DEF Saying
<1>2. \A i \in DOMAIN s : AnthropicAnswerBlock(s[i]) = s[i]
  BY <1>1 DEF AnthropicAnswerBlock
<1>. QED BY <1>1, <1>2 DEF Each

(* The identifiers that the proxy gives the calls of a Gemini answer.      *)
GeminiReads(s) ==
  [i \in DOMAIN s |-> IF s[i].type = "tool_use" THEN ToolUse(GeminiId(s[i].name, i), s[i].name, s[i].text)
                      ELSE Text(s[i].text)]

LEMMA GeminiBlock ==
  ASSUME NEW s, Saying(s, FALSE), NEW i \in DOMAIN s
  PROVE  /\ GeminiReads(s)[i] \in AnyBlock
         /\ GeminiReads(s)[i].type = s[i].type /\ s[i].type \in {"text", "tool_use"}
         /\ GeminiReads(s)[i].text = s[i].text
         /\ s[i].type = "tool_use" => /\ GeminiReads(s)[i].name = s[i].name
                                      /\ GeminiReads(s)[i].id = <<s[i].name, i - 1>>
         /\ Speech[GeminiReads(s)[i]] = Speech[s[i]]
<1>1. /\ s \in Seq(AnyBlock) /\ s[i] \in AnyBlock /\ i \in Int /\ s[i].type \in {"text", "tool_use"}
      /\ s[i].type = "tool_use" => s[i].name # "" /\ s[i].text # <<>>
  <2>1. s \in Seq(AnyBlock)
    BY DEF Saying
  <2>2. s[i] \in AnyBlock /\ i \in Int
    BY <2>1
  <2>. QED BY <2>1, <2>2 DEF Saying
<1>2. s[i].text \in Seq(Token) /\ s[i].name \in Name
  BY <1>1 DEF AnyBlock
<1>3. CASE s[i].type = "text"
  <2>1. GeminiReads(s)[i] = Text(s[i].text)
    BY <1>3 DEF GeminiReads
  <2>2. Text(s[i].text) \in AnyBlock /\ Text(s[i].text).type = "text" /\ Text(s[i].text).text = s[i].text
    BY <1>2, TextIs
  <2>3. Speech[Text(s[i].text)] = Speech[s[i]]
    BY <1>1, <1>3, <2>2 DEF Speech, Pieces
  <2>. QED BY <1>3, <2>1, <2>2, <2>3
<1>4. CASE s[i].type = "tool_use"
  <2> DEFINE id == <<s[i].name, i - 1>>
             b == Block("tool_use", s[i].text, id, s[i].name)
  <2>1. GeminiReads(s)[i] = b
    BY <1>4 DEF GeminiReads, ToolUse, GeminiId
  <2>2. id \in Id
    <3>0. s[i].name # "" /\ s[i].name \in Name
      BY <1>1, <1>2, <1>4
    <3>1. s[i].name \in Word
      BY <3>0 DEF Name
    <3>2. i - 1 \in Int
      <4>1. i \in Int
        BY <1>1
      <4>. QED BY <4>1
    <3>3. id \in Word \X Int
      BY <3>1, <3>2
    <3>. QED BY <3>3 DEF Id, Name
  <2>3. "tool_use" \in BlockTypes
    BY DEF BlockTypes
  <2> HIDE DEF id
  <2>4. b \in AnyBlock /\ b.type = "tool_use" /\ b.text = s[i].text /\ b.name = s[i].name /\ b.id = id
    BY <1>2, <2>2, <2>3, BlockType
  <2> HIDE DEF b
  <2>5. Speech[b] = Speech[s[i]]
    BY <1>1, <1>4, <2>4 DEF Speech, Pieces
  <2>. QED BY <1>4, <2>1, <2>4, <2>5 DEF id
<1>. QED BY <1>1, <1>3, <1>4

LEMMA GeminiReadsSays ==
  ASSUME NEW s, Saying(s, FALSE)
  PROVE  /\ Saying(GeminiReads(s), FALSE)
         /\ Spoken("assistant", GeminiReads(s)) = Spoken("assistant", s)
         /\ Distinct(GeminiReads(s), {"tool_use"})
<1> DEFINE c == GeminiReads(s)
<1>1. s \in Seq(AnyBlock) /\ DOMAIN c = DOMAIN s /\ DOMAIN s = 1 .. Len(s) /\ Len(s) \in Nat
  <2>1. s \in Seq(AnyBlock)
    BY DEF Saying
  <2>2. DOMAIN c = DOMAIN s
    BY DEF GeminiReads
  <2>. QED BY <2>1, <2>2
<1>2. ASSUME NEW i \in DOMAIN s
      PROVE  /\ c[i] \in AnyBlock /\ c[i].type = s[i].type /\ s[i].type \in {"text", "tool_use"}
             /\ c[i].text = s[i].text
             /\ s[i].type = "tool_use" => c[i].name = s[i].name /\ c[i].id = <<s[i].name, i - 1>>
             /\ Speech[c[i]] = Speech[s[i]]
  BY GeminiBlock
<1>3. c = [i \in DOMAIN s |-> c[i]]
  BY DEF GeminiReads
<1> HIDE DEF c
<1>4. c \in Seq(AnyBlock)
  BY <1>1, <1>2, <1>3
<1>5. Saying(c, FALSE)
  <2>1. ASSUME NEW i \in DOMAIN c
        PROVE  /\ c[i].type \in {"text", "tool_use"} \/ (FALSE /\ c[i].type = "thinking")
               /\ c[i].type = "tool_use" => c[i].name # "" /\ c[i].text # <<>>
    BY <1>1, <1>2 DEF Saying
  <2>2. ASSUME NEW i \in DOMAIN c, NEW j \in DOMAIN c, i < j, c[i].type = "tool_use"
        PROVE  c[j].type = "tool_use"
    BY <1>1, <1>2, <2>2 DEF Saying
  <2>. QED BY <1>4, <2>1, <2>2 DEF Saying
<1>6. Spoken("assistant", c) = Spoken("assistant", s)
  BY <1>1, <1>2, <1>4, SameSpeech
<1>7. Distinct(c, {"tool_use"})
  <2> SUFFICES ASSUME NEW i \in DOMAIN c, NEW j \in DOMAIN c, c[i].type = "tool_use",
                      c[j].type = "tool_use", c[i].id = c[j].id
               PROVE  i = j
    BY DEF Distinct
  <2>1. c[i].id = <<s[i].name, i - 1>> /\ c[j].id = <<s[j].name, j - 1>>
    BY <1>1, <1>2
  <2>2. i \in Int /\ j \in Int
    BY <1>1
  <2>3. i - 1 = j - 1
    <3>1. <<s[i].name, i - 1>> = <<s[j].name, j - 1>>
      BY <2>1
    <3>. QED BY <3>1
  <2>. QED BY <2>2, <2>3
<1>. QED BY <1>5, <1>6, <1>7 DEF c

LEMMA Understood ==
  ASSUME NEW p \in Formats, NEW s, Saying(s, p = "anthropic"), Distinct(s, {"tool_use"}),
         NEW r, r.message = WriteAnswer(p, s)
  PROVE  \E c : /\ ResponseToCanonical(p, r).content = c
                /\ Saying(c, p = "anthropic") /\ Distinct(c, {"tool_use"})
                /\ Spoken("assistant", c) = Spoken("assistant", s)
                /\ c = s \/ p # "anthropic"
<1>0. s \in Seq(AnyBlock)
  BY DEF Saying
<1>1. CASE p \in {"openai", "plain", "ollama"}
  <2>0. p \in Chat /\ (p = "anthropic") = FALSE
    BY <1>1 DEF Chat
  <2>1. Saying(s, FALSE)
    BY <2>0
  <2>2. OpenAIResponseToCanonical(r).content = Chatted(s)
    BY <1>0, <2>0, ChatReads
  <2>3. ResponseToCanonical(p, r).content = OpenAIResponseToCanonical(r).content
    BY <1>1 DEF ResponseToCanonical, OllamaResponseToCanonical
  <2>4. /\ Saying(Chatted(s), FALSE)
        /\ Spoken("assistant", Chatted(s)) = Spoken("assistant", s)
        /\ Distinct(Chatted(s), {"tool_use"})
    BY <2>1, ChattedSays
  <2>. QED BY <1>1, <2>0, <2>2, <2>3, <2>4
<1>2. CASE p = "anthropic"
  <2>1. r.message = Plain("assistant", Arr(s))
    BY <1>2 DEF WriteAnswer, Chat
  <2>2. r.message.content.blocks = s
    BY <2>1 DEF Plain, Wire, Arr
  <2>3. ResponseToCanonical(p, r).content = Each(AnthropicAnswerBlock, s)
    BY <1>2, <2>2 DEF ResponseToCanonical, AnthropicResponseToCanonical
  <2>. QED BY <1>2, <2>3, AnthropicReads
<1>3. CASE p = "gemini"
  <2>0. (p = "anthropic") = FALSE
    BY <1>3
  <2>1. Saying(s, FALSE)
    BY <2>0
  <2>2. r.message.content.blocks = [i \in DOMAIN s |-> IF s[i].type = "tool_use"
                                                     THEN Block("functionCall", s[i].text, NoId, s[i].name)
                                                     ELSE s[i]]
    BY <1>3 DEF WriteAnswer, Chat, Plain, Wire, Arr, Each
  <2> DEFINE parts == r.message.content.blocks
  <2>3. ResponseToCanonical(p, r).content
          = [i \in DOMAIN parts |-> IF parts[i].type \in {"text", "functionCall"}
                                    THEN GeminiPartToBlock(parts[i], i) ELSE Text(Quote(parts[i].text))]
    BY <1>3 DEF ResponseToCanonical, GeminiResponseToCanonical
  <2> HIDE DEF parts
  <2>4. ASSUME NEW i \in DOMAIN s
        PROVE  /\ parts[i].type \in {"text", "functionCall"}
               /\ GeminiPartToBlock(parts[i], i) = GeminiReads(s)[i]
    <3>0. s[i].type \in {"text", "tool_use"}
      BY <2>1 DEF Saying
    <3>1. CASE s[i].type = "text"
      <4>1. parts[i] = s[i]
        BY <2>2, <3>1 DEF parts
      <4>2. GeminiPartToBlock(s[i], i) = Text(s[i].text)
        BY <3>1 DEF GeminiPartToBlock
      <4>. QED BY <3>1, <4>1, <4>2 DEF GeminiReads
    <3>2. CASE s[i].type = "tool_use"
      <4> DEFINE b == Block("functionCall", s[i].text, NoId, s[i].name)
      <4>1. parts[i] = b
        BY <2>2, <3>2 DEF parts
      <4>2. b.type = "functionCall" /\ b.text = s[i].text /\ b.name = s[i].name
        BY DEF Block
      <4> HIDE DEF b
      <4>3. GeminiPartToBlock(b, i) = ToolUse(GeminiId(s[i].name, i), s[i].name, s[i].text)
        BY <4>2 DEF GeminiPartToBlock
      <4>. QED BY <3>2, <4>1, <4>2, <4>3 DEF GeminiReads
    <3>. QED BY <3>0, <3>1, <3>2
  <2>5. DOMAIN parts = DOMAIN s
    BY <2>2 DEF parts
  <2>6. ResponseToCanonical(p, r).content = GeminiReads(s)
    BY <2>3, <2>4, <2>5 DEF GeminiReads
  <2>. QED BY <1>3, <2>0, <2>1, <2>6, GeminiReadsSays
<1>. QED BY <1>1, <1>2, <1>3 DEF Formats

-----------------------------------------------------------------------------
(* A client hears, in a message of its format, what the answer says.       *)
ClientFormats == {"openai", "ollama", "anthropic", "gemini"}

ToldApart(calls) == \A i, j \in DOMAIN calls : calls[i].id = calls[j].id => i = j

IsSequence(s) == s \in Seq(Range(s))

LEMMA Ranged ==
  ASSUME NEW X, NEW s \in Seq(X)
  PROVE  IsSequence(s)
<1>1. \A i \in 1 .. Len(s) : s[i] \in Range(s)
  BY DEF Range
<1>2. s = [i \in 1 .. Len(s) |-> s[i]] /\ Len(s) \in Nat
  OBVIOUS
<1>. QED BY <1>1, <1>2 DEF IsSequence

LEMMA OfTypesSequence ==
  ASSUME NEW X, NEW s \in Seq(X), NEW T
  PROVE  OfTypes(s, T) \in Seq(X)
<1> DEFINE g == [b \in X |-> IF b.type \in T THEN <<b>> ELSE <<>>]
<1>1. Sends(g, X, Seq(X))
  <2>1. ASSUME NEW b \in X PROVE <<b>> \in Seq(X) /\ <<>> \in Seq(X)
    BY One
  <2>. QED BY <2>1 DEF Sends
<1>2. \A i \in DOMAIN s : s[i] \in X
  OBVIOUS
<1>3. [i \in DOMAIN s |-> IF s[i].type \in T THEN <<s[i]>> ELSE <<>>] = Mapped(g, s)
  BY <1>2 DEF Mapped
<1>4. OfTypes(s, T) = Spread(g, s)
  BY <1>3 DEF OfTypes, FlatMap, Each, Spread
<1> HIDE DEF g
<1>. QED BY <1>1, <1>4, SpreadType

LEMMA ChatMessage ==
  ASSUME NEW s \in Seq(AnyBlock)
  PROVE  \E calls :
           /\ \A f \in Chat : WriteAnswer(f, s) = Wire("assistant", ChatContent(s), calls, NoId)
           /\ \A res : res.content = s => ChatAnswer(res) = Wire("assistant", ChatContent(s), calls, NoId)
           /\ calls \in Seq(AnyBlock)
           /\ DOMAIN calls = DOMAIN OfTypes(s, {"tool_use"})
           /\ \A i \in DOMAIN calls : /\ calls[i].id = OfTypes(s, {"tool_use"})[i].id
                                      /\ Speech[calls[i]] = Speech[OfTypes(s, {"tool_use"})[i]]
<1> DEFINE k == OfTypes(s, {"tool_use"})
           calls == [i \in DOMAIN k |-> Block("function", k[i].text, k[i].id, k[i].name)]
<1>1. k \in Seq(AnyBlock) /\ \A i \in DOMAIN k : k[i] \in AnyBlock /\ k[i].type = "tool_use"
  <2>1. k \in Seq(AnyBlock)
    BY OfTypesType
  <2>2. \A i \in DOMAIN k : k[i].type \in {"tool_use"}
    BY OfTypesFrom
  <2>. QED BY <2>1, <2>2
<1>2. ASSUME NEW b \in AnyBlock, b.type = "tool_use"
      PROVE  /\ Block("function", b.text, b.id, b.name) \in AnyBlock
             /\ Block("function", b.text, b.id, b.name).id = b.id
             /\ Speech[Block("function", b.text, b.id, b.name)] = Speech[b]
             /\ [b EXCEPT !.type = "function"] = Block("function", b.text, b.id, b.name)
  <2> DEFINE d == Block("function", b.text, b.id, b.name)
  <2>1. b.text \in Seq(Token) /\ b.id \in Id /\ b.name \in Name /\ "function" \in BlockTypes
    BY DEF AnyBlock, BlockTypes
  <2>2. d \in AnyBlock /\ d.type = "function" /\ d.text = b.text /\ d.id = b.id /\ d.name = b.name
    BY <2>1, BlockType
  <2>3. [b EXCEPT !.type = "function"] = d
    BY DEF AnyBlock, Block
  <2> HIDE DEF d
  <2>4. Speech[d] = Speech[b]
    BY <1>2, <2>2 DEF Speech, Pieces
  <2>. QED BY <2>2, <2>3, <2>4 DEF d
<1>3. Renamed(k, "tool_use", "function") = calls
  <2> HIDE DEF k
  <2>. QED BY <1>1, <1>2 DEF Renamed, Each
<1>4. \A f \in Chat : WriteAnswer(f, s) = Wire("assistant", ChatContent(s), calls, NoId)
  <2> SUFFICES ASSUME NEW f \in Chat
               PROVE  WriteAnswer(f, s) = Wire("assistant", ChatContent(s), calls, NoId)
    OBVIOUS
  <2>1. WriteAnswer(f, s)
          = Wire("assistant", ChatContent(s), Renamed(k, "tool_use", "function"), NoId)
    BY DEF WriteAnswer, ChatContent, Chat
  <2> HIDE DEF k, calls
  <2>. QED BY <1>3, <2>1
<1>5. \A res : res.content = s => ChatAnswer(res) = Wire("assistant", ChatContent(s), calls, NoId)
  BY DEF ChatAnswer, ChatContent, Each
<1>6. ASSUME NEW i \in DOMAIN k
      PROVE  calls[i] \in AnyBlock /\ calls[i].id = k[i].id /\ Speech[calls[i]] = Speech[k[i]]
  <2>1. calls[i] = Block("function", k[i].text, k[i].id, k[i].name)
    OBVIOUS
  <2>2. k[i] \in AnyBlock /\ k[i].type = "tool_use"
    BY <1>1
  <2> HIDE DEF k, calls
  <2>. QED BY <1>2, <2>1, <2>2
<1>7. DOMAIN calls = DOMAIN k /\ calls = [i \in DOMAIN k |-> calls[i]]
  OBVIOUS
<1> HIDE DEF k, calls
<1>8. calls \in Seq(AnyBlock)
  BY <1>1, <1>6, <1>7
<1>. QED BY <1>4, <1>5, <1>6, <1>7, <1>8 DEF k

LEMMA ChatHears ==
  ASSUME NEW s \in Seq(AnyBlock), NEW m, NEW f \in Chat,
         m = WriteAnswer(f, s) \/ \E res : res.content = s /\ m = ChatAnswer(res)
  PROVE  /\ CallsOf(m) \in Seq(AnyBlock)
         /\ Distinct(s, {"tool_use"}) => ToldApart(CallsOf(m))
         /\ \A thinks : Saying(s, thinks) => TalkOf(m) = Spoken("assistant", s)
<1> DEFINE k == OfTypes(s, {"tool_use"})
<1>1. PICK calls : /\ m = Wire("assistant", ChatContent(s), calls, NoId)
                   /\ calls \in Seq(AnyBlock)
                   /\ DOMAIN calls = DOMAIN k
                   /\ \A i \in DOMAIN calls : calls[i].id = k[i].id /\ Speech[calls[i]] = Speech[k[i]]
  <2> HIDE DEF k
  <2>. QED BY ChatMessage DEF k
<1>2. /\ m.calls = calls /\ m.content = ChatContent(s) /\ m.role = "assistant"
  BY <1>1 DEF Wire
<1>3. /\ ChatContent(s).blocks \in Seq(AnyBlock)
      /\ Spoken("assistant", ChatContent(s).blocks) = PerFragment("assistant", "text", Words(s))
      /\ OfTypes(ChatContent(s).blocks, {"tool_use", "functionCall"}) = <<>>
  <2>1. "text" \notin {"tool_use", "functionCall"}
    OBVIOUS
  <2>. QED BY <2>1, ChatContentIs
<1>4. CallsOf(m) = calls
  <2>1. CallsOf(m) = calls \o <<>>
    BY <1>2, <1>3 DEF CallsOf
  <2>. QED BY <1>1, <2>1, ConcatEmptySeq
<1>5. k \in Seq(AnyBlock) /\ \A i \in DOMAIN k : k[i].type = "tool_use"
  <2>1. k \in Seq(AnyBlock)
    BY OfTypesType
  <2>2. \A i \in DOMAIN k : k[i].type \in {"tool_use"}
    BY OfTypesFrom
  <2>. QED BY <2>1, <2>2
<1>6. ASSUME Distinct(s, {"tool_use"}) PROVE ToldApart(calls)
  <2>1. Distinct(k, {"tool_use"})
    BY <1>6, OfTypesFrom
  <2> HIDE DEF k
  <2>. QED BY <1>1, <1>5, <2>1 DEF Distinct, ToldApart
<1>7. ASSUME NEW thinks, Saying(s, thinks) PROVE TalkOf(m) = Spoken("assistant", s)
  <2>1. TalkOf(m) = Spoken("assistant", ChatContent(s).blocks \o calls)
    BY <1>2 DEF TalkOf, Speaker
  <2>2. Spoken("assistant", ChatContent(s).blocks \o calls)
          = Spoken("assistant", ChatContent(s).blocks) \o Spoken("assistant", calls)
    BY <1>1, <1>3, SpokenConcat
  <2>3. Spoken("assistant", calls) = Spoken("assistant", k)
    <3> HIDE DEF k
    <3>. QED BY <1>1, <1>5, SameSpeech
  <2>4. Spoken("assistant", s) = PerFragment("assistant", "text", Words(s)) \o Spoken("assistant", k)
    BY <1>7, SpokenSplits
  <2>. QED BY <1>3, <2>1, <2>2, <2>3, <2>4
<1>. QED BY <1>1, <1>4, <1>6, <1>7

LEMMA ArrHears ==
  ASSUME NEW s \in Seq(AnyBlock), NEW role \in {"assistant", "model"}, NEW m, m = Plain(role, Arr(s))
  PROVE  /\ CallsOf(m) = OfTypes(s, {"tool_use", "functionCall"})
         /\ Distinct(s, {"tool_use"}) /\ (\A i \in DOMAIN s : s[i].type # "functionCall")
              => ToldApart(CallsOf(m))
         /\ TalkOf(m) = Spoken("assistant", s)
<1> DEFINE T == {"tool_use", "functionCall"}
<1>1. m.calls = <<>> /\ m.content.blocks = s /\ m.role = role
  BY DEF Plain, Wire, Arr
<1>2. CallsOf(m) = OfTypes(s, T) /\ OfTypes(s, T) \in Seq(AnyBlock)
  <2>1. CallsOf(m) = <<>> \o OfTypes(s, T)
    BY <1>1 DEF CallsOf
  <2>2. OfTypes(s, T) \in Seq(AnyBlock)
    BY OfTypesType
  <2> HIDE DEF T
  <2>. QED BY <2>1, <2>2, ConcatEmptySeq
<1>3. ASSUME Distinct(s, {"tool_use"}), \A i \in DOMAIN s : s[i].type # "functionCall"
      PROVE  ToldApart(OfTypes(s, T))
  <2>1. Distinct(s, T)
    BY <1>3 DEF Distinct
  <2> HIDE DEF T
  <2>2. Distinct(OfTypes(s, T), T) /\ \A i \in DOMAIN OfTypes(s, T) : OfTypes(s, T)[i].type \in T
    BY <2>1, OfTypesFrom
  <2>. QED BY <2>2 DEF Distinct, ToldApart
<1>4. TalkOf(m) = Spoken("assistant", s)
  <2>1. Speaker(m.role) = "assistant"
    BY <1>1 DEF Speaker
  <2>2. TalkOf(m) = Spoken("assistant", s \o <<>>)
    BY <1>1, <2>1 DEF TalkOf
  <2>. QED BY <2>2, ConcatEmptySeq
<1>. QED BY <1>2, <1>3, <1>4

LEMMA Hears ==
  ASSUME NEW f \in ClientFormats, NEW c, NEW thinks, Saying(c, thinks), NEW res, res.content = c
  PROVE  LET m == ResponseFromCanonical(f, res).message
         IN  /\ IsSequence(CallsOf(m))
             /\ f # "gemini" /\ Distinct(c, {"tool_use"}) => ToldApart(CallsOf(m))
             /\ f # "gemini" \/ Saying(c, FALSE) => TalkOf(m) = Spoken("assistant", c)
<1> DEFINE m == ResponseFromCanonical(f, res).message
<1>0. c \in Seq(AnyBlock)
  BY DEF Saying
<1>1. CASE f \in {"openai", "ollama"}
  <2>1. m = ChatAnswer(res) /\ f \in Chat
    BY <1>1 DEF ResponseFromCanonical, OpenAIResponseFromCanonical, OllamaResponseFromCanonical, Chat
  <2> HIDE DEF m
  <2>2. /\ CallsOf(m) \in Seq(AnyBlock)
        /\ Distinct(c, {"tool_use"}) => ToldApart(CallsOf(m))
        /\ TalkOf(m) = Spoken("assistant", c)
    BY <1>0, <2>1, ChatHears
  <2>3. IsSequence(CallsOf(m))
    BY <2>2, Ranged
  <2>. QED BY <2>2, <2>3 DEF m
<1>2. CASE f = "anthropic"
  <2>1. m = Plain("assistant", Arr(c))
    BY <1>2, AnthropicReads DEF ResponseFromCanonical, AnthropicResponseFromCanonical
  <2>2. \A i \in DOMAIN c : c[i].type # "functionCall"
    BY DEF Saying
  <2> HIDE DEF m
  <2>3. /\ CallsOf(m) = OfTypes(c, {"tool_use", "functionCall"})
        /\ Distinct(c, {"tool_use"}) => ToldApart(CallsOf(m))
        /\ TalkOf(m) = Spoken("assistant", c)
    BY <1>0, <2>1, <2>2, ArrHears
  <2>4. CallsOf(m) \in Seq(AnyBlock)
    BY <1>0, <2>3, OfTypesType
  <2>5. IsSequence(CallsOf(m))
    BY <2>4, Ranged
  <2>. QED BY <2>3, <2>5 DEF m
<1>3. CASE f = "gemini"
  <2> DEFINE parts == [i \in DOMAIN c |-> IF c[i].type \in {"text", "tool_use"}
                                          THEN GeminiBlockToPart(c[i]) ELSE Text(Quote(c[i].text))]
  <2>1. m = Plain("model", Arr(parts))
    BY <1>3 DEF ResponseFromCanonical, GeminiResponseFromCanonical, Each
  <2>2. IsSequence(CallsOf(m))
    <3>1. parts \in Seq(Range(parts))
      <4>1. \A i \in DOMAIN parts : parts[i] \in Range(parts)
        BY DEF Range
      <4>2. DOMAIN parts = 1 .. Len(c) /\ Len(c) \in Nat /\ parts = [i \in DOMAIN parts |-> parts[i]]
        BY <1>0
      <4> HIDE DEF parts
      <4>. QED BY <4>1, <4>2
    <3>2. m.calls = <<>> /\ m.content.blocks = parts
      BY <2>1 DEF Plain, Wire, Arr
    <3> DEFINE R == Range(parts)
    <3> HIDE DEF parts, m, R
    <3>3. OfTypes(parts, {"tool_use", "functionCall"}) \in Seq(R)
      BY <3>1, OfTypesSequence DEF R
    <3>4. CallsOf(m) = <<>> \o OfTypes(parts, {"tool_use", "functionCall"})
      BY <3>2 DEF CallsOf
    <3>5. CallsOf(m) \in Seq(R)
      BY <3>3, <3>4, ConcatEmptySeq
    <3>. QED BY <3>5, Ranged
  <2>3. ASSUME Saying(c, FALSE) PROVE TalkOf(m) = Spoken("assistant", c)
    <3>1. ASSUME NEW i \in DOMAIN c
          PROVE  parts[i] \in AnyBlock /\ Speech[parts[i]] = Speech[c[i]]
      <4>1. c[i] \in AnyBlock /\ c[i].type \in {"text", "tool_use"}
        <5>1. c[i].type \in {"text", "tool_use"}
          BY <2>3 DEF Saying
        <5>. QED BY <1>0, <5>1
      <4>2. CASE c[i].type = "text"
        BY <4>1, <4>2 DEF GeminiBlockToPart
      <4>3. CASE c[i].type = "tool_use"
        <5> DEFINE b == c[i]
                   d == Block("functionCall", b.text, NoId, b.name)
        <5>1. parts[i] = d
          BY <4>3 DEF GeminiBlockToPart
        <5>2. b \in AnyBlock /\ b.type = "tool_use"
          BY <4>1, <4>3
        <5> HIDE DEF b
        <5>3. b.text \in Seq(Token) /\ NoId \in Id /\ b.name \in Name /\ "functionCall" \in BlockTypes
          BY <5>2 DEF AnyBlock, BlockTypes, Id, Name
        <5>4. d \in AnyBlock /\ d.type = "functionCall" /\ d.text = b.text /\ d.name = b.name
          BY <5>3, BlockType
        <5> HIDE DEF d
        <5>5. Speech[d] = Speech[b]
          BY <5>2, <5>4 DEF Speech, Pieces
        <5>. QED BY <5>1, <5>4, <5>5 DEF b
      <4>. QED BY <4>1, <4>2, <4>3
    <3>2. DOMAIN parts = DOMAIN c /\ parts = [i \in DOMAIN c |-> parts[i]]
      OBVIOUS
    <3> HIDE DEF parts
    <3>3. parts \in Seq(AnyBlock)
      BY <1>0, <3>1, <3>2
    <3>4. Spoken("assistant", parts) = Spoken("assistant", c)
      BY <1>0, <3>1, <3>2, <3>3, SameSpeech
    <3>5. TalkOf(m) = Spoken("assistant", parts)
      <4> HIDE DEF m
      <4>. QED BY <2>1, <3>3, ArrHears
    <3>. QED BY <3>4, <3>5
  <2>. QED BY <1>3, <2>2, <2>3
<1>. QED BY <1>1, <1>2, <1>3 DEF ClientFormats

-----------------------------------------------------------------------------
(* Why a provider stopped, in the words of the client.                     *)
LEMMA StopRead ==
  ASSUME NEW p \in Formats \ {"ollama"}, NEW said, said.cut \in BOOLEAN,
         NEW r, r.stop = WireStop(p, said)
  PROVE  LET w == ResponseToCanonical(p, r).stop
         IN  /\ said.cut => w = "max_tokens"
             /\ ~said.cut => w \in {"end", "tool_use"}
<1> DEFINE calls == OfTypes(said.blocks, {"tool_use"}) # <<>>
<1>1. CASE p \in {"openai", "plain"}
  <2>1. ResponseToCanonical(p, r).stop = Lookup(OpenAIStops, r.stop, "unknown")
    BY <1>1 DEF ResponseToCanonical, OpenAIResponseToCanonical
  <2>2. r.stop = IF said.cut THEN "length" ELSE IF calls THEN "tool_calls" ELSE "stop"
    BY <1>1 DEF WireStop
  <2>3. /\ Lookup(OpenAIStops, "length", "unknown") = "max_tokens"
        /\ Lookup(OpenAIStops, "tool_calls", "unknown") = "tool_use"
        /\ Lookup(OpenAIStops, "stop", "unknown") = "end"
    BY DEF Lookup, OpenAIStops
  <2> HIDE DEF calls
  <2>. QED BY <2>1, <2>2, <2>3
<1>2. CASE p = "anthropic"
  <2>1. ResponseToCanonical(p, r).stop = Lookup(AnthropicStops, r.stop, "unknown")
    BY <1>2 DEF ResponseToCanonical, AnthropicResponseToCanonical
  <2>2. r.stop = IF said.cut THEN "max_tokens" ELSE IF calls THEN "tool_use" ELSE "end_turn"
    BY <1>2 DEF WireStop
  <2>3. /\ Lookup(AnthropicStops, "max_tokens", "unknown") = "max_tokens"
        /\ Lookup(AnthropicStops, "tool_use", "unknown") = "tool_use"
        /\ Lookup(AnthropicStops, "end_turn", "unknown") = "end"
    BY DEF Lookup, AnthropicStops
  <2> HIDE DEF calls
  <2>. QED BY <2>1, <2>2, <2>3
<1>3. CASE p = "gemini"
  <2>1. ResponseToCanonical(p, r).stop = Lookup(GeminiStops, r.stop, "unknown")
    BY <1>3 DEF ResponseToCanonical, GeminiResponseToCanonical
  <2>2. r.stop = IF said.cut THEN "MAX_TOKENS" ELSE "STOP"
    BY <1>3 DEF WireStop
  <2>3. /\ Lookup(GeminiStops, "MAX_TOKENS", "unknown") = "max_tokens"
        /\ Lookup(GeminiStops, "STOP", "unknown") = "end"
    BY DEF Lookup, GeminiStops
  <2>. QED BY <2>1, <2>2, <2>3
<1>. QED BY <1>1, <1>2, <1>3 DEF Formats

LEMMA StopWritten ==
  ASSUME NEW f \in ClientFormats \ {"ollama"}, NEW res,
         res.stop \in {"max_tokens", "end", "tool_use"}
  PROVE  ResponseFromCanonical(f, res).stop \in {"length", "max_tokens", "MAX_TOKENS"}
           <=> res.stop = "max_tokens"
<1>1. CASE f = "openai"
  <2>1. ResponseFromCanonical(f, res).stop = Lookup(OpenAIStopsBack, res.stop, "stop")
    BY <1>1 DEF ResponseFromCanonical, OpenAIResponseFromCanonical
  <2>2. /\ Lookup(OpenAIStopsBack, "max_tokens", "stop") = "length"
        /\ Lookup(OpenAIStopsBack, "end", "stop") = "stop"
        /\ Lookup(OpenAIStopsBack, "tool_use", "stop") = "tool_calls"
    BY DEF Lookup, OpenAIStopsBack
  <2>. QED BY <2>1, <2>2
<1>2. CASE f = "anthropic"
  <2>1. ResponseFromCanonical(f, res).stop = Lookup(AnthropicStopsBack, res.stop, "end_turn")
    BY <1>2 DEF ResponseFromCanonical, AnthropicResponseFromCanonical
  <2>2. /\ Lookup(AnthropicStopsBack, "max_tokens", "end_turn") = "max_tokens"
        /\ Lookup(AnthropicStopsBack, "end", "end_turn") = "end_turn"
        /\ Lookup(AnthropicStopsBack, "tool_use", "end_turn") = "tool_use"
    BY DEF Lookup, AnthropicStopsBack
  <2>. QED BY <2>1, <2>2
<1>3. CASE f = "gemini"
  <2>1. ResponseFromCanonical(f, res).stop = Lookup(GeminiStopsBack, res.stop, "STOP")
    BY <1>3 DEF ResponseFromCanonical, GeminiResponseFromCanonical
  <2>2. /\ Lookup(GeminiStopsBack, "max_tokens", "STOP") = "MAX_TOKENS"
        /\ Lookup(GeminiStopsBack, "end", "STOP") = "STOP"
        /\ Lookup(GeminiStopsBack, "tool_use", "STOP") = "STOP"
    BY DEF Lookup, GeminiStopsBack
  <2>. QED BY <2>1, <2>2
<1>. QED BY <1>1, <1>2, <1>3 DEF ClientFormats

-----------------------------------------------------------------------------
LEMMA Cancelled == \A n, i, j \in Int : n + i = n + j => i = j
OBVIOUS

(* An answer that a provider may give, with the identifiers it makes up.   *)
Said(p, s) == Saying(s, p = "anthropic") /\ Distinct(s, {"tool_use"})

LEMMA IdentifiedSays ==
  ASSUME NEW p \in Providers, NEW said \in SaidBy(p), made \in Nat
  PROVE  /\ Said(p, Identified(said.blocks))
         /\ said.cut \in BOOLEAN
         /\ Len(said.blocks) \in Nat
<1> DEFINE s == Identified(said.blocks)
           bs == said.blocks
<1>a. Tells(p, said)
  BY AnswersAssumption
<1>0. bs \in Seq(AnswerBlock) /\ said.cut \in BOOLEAN
  <2>1. said \in [blocks : Seq(AnswerBlock), cut : BOOLEAN]
    BY <1>a DEF Tells
  <2>. QED BY <2>1
<1>1. \A i \in DOMAIN bs :
           /\ bs[i].type = "thinking" => p = "anthropic"
           /\ bs[i].type = "tool_use" =>
                /\ bs[i].name # "" /\ bs[i].text # <<>>
                /\ \A j \in DOMAIN bs : i < j => bs[j].type = "tool_use"
  BY <1>a DEF Tells
<1>2. ASSUME NEW i \in DOMAIN bs
      PROVE  /\ s[i] \in AnyBlock /\ s[i].type = bs[i].type /\ s[i].name = bs[i].name
             /\ s[i].text = bs[i].text /\ bs[i].type \in {"text", "tool_use", "thinking"}
             /\ bs[i].type = "tool_use" => s[i].id = <<"call", made + i>>
  <2>1. bs[i] \in AnswerBlock /\ i \in Int
    BY <1>0
  <2>2. made + i \in Int
    BY <2>1
  <2>3. <<"call", made + i>> \in Id
    <3>1. <<"call", made + i>> \in {"call"} \X Int
      BY <2>2
    <3>. QED BY <3>1 DEF Id, Name
  <2> DEFINE b == bs[i]
             id == <<"call", made + i>>
  <2>4. s[i] = IF b.type = "tool_use" THEN [b EXCEPT !.id = id] ELSE b
    BY DEF Identified
  <2>5. b \in AnswerBlock /\ id \in Id
    BY <2>1, <2>3
  <2> HIDE DEF s, b, id
  <2>6. /\ b \in [type : {"text", "tool_use", "thinking"}, text : Seq(Word), id : {NoId}, name : Word]
        /\ NoId \in Id
    BY <2>5 DEF AnswerBlock, Id, Name
  <2>7. b \in AnyBlock
    <3>1. b.text \in Seq(Token)
      BY <2>6, Tokens
    <3>. QED BY <2>6, <3>1 DEF AnyBlock, BlockTypes, Name
  <2>8. [b EXCEPT !.id = id] \in AnyBlock
    BY <2>5, <2>7 DEF AnyBlock
  <2>9. /\ [b EXCEPT !.id = id].type = b.type /\ [b EXCEPT !.id = id].name = b.name
        /\ [b EXCEPT !.id = id].text = b.text /\ [b EXCEPT !.id = id].id = id
    BY <2>7 DEF AnyBlock
  <2>10. b.type \in {"text", "tool_use", "thinking"}
    BY <2>6
  <2>. QED BY <2>4, <2>7, <2>8, <2>9, <2>10 DEF b, id
<1>3. DOMAIN s = DOMAIN bs /\ s = [i \in DOMAIN bs |-> s[i]]
  BY DEF Identified
<1>4. DOMAIN bs = 1 .. Len(bs) /\ Len(bs) \in Nat
  BY <1>0
<1> HIDE DEF s, bs
<1>5. s \in Seq(AnyBlock)
  BY <1>2, <1>3, <1>4
<1>6. Saying(s, p = "anthropic")
  <2>1. ASSUME NEW i \in DOMAIN s
        PROVE  /\ s[i].type \in {"text", "tool_use"} \/ (p = "anthropic" /\ s[i].type = "thinking")
               /\ s[i].type = "tool_use" => s[i].name # "" /\ s[i].text # <<>>
    BY <1>1, <1>2, <1>3
  <2>2. ASSUME NEW i \in DOMAIN s, NEW j \in DOMAIN s, i < j, s[i].type = "tool_use"
        PROVE  s[j].type = "tool_use"
    BY <1>1, <1>2, <1>3, <2>2
  <2>. QED BY <1>5, <2>1, <2>2 DEF Saying
<1>7. Distinct(s, {"tool_use"})
  <2> SUFFICES ASSUME NEW i \in DOMAIN s, NEW j \in DOMAIN s, s[i].type = "tool_use",
                      s[j].type = "tool_use", s[i].id = s[j].id
               PROVE  i = j
    BY DEF Distinct
  <2>1. s[i].id = <<"call", made + i>> /\ s[j].id = <<"call", made + j>>
    BY <1>2, <1>3
  <2>2. <<"call", made + i>> = <<"call", made + j>>
    BY <2>1
  <2>3. made + i = made + j
    BY <2>2
  <2>4. i \in Int /\ j \in Int
    BY <1>3, <1>4
  <2>5. made \in Int
    OBVIOUS
  <2>. QED BY <2>3, <2>4, <2>5, Cancelled
<1>. QED BY <1>0, <1>4, <1>6, <1>7 DEF Said, s, bs

-----------------------------------------------------------------------------
(* Streams.  A chunk that says something says one block in the canonical   *)
(* form: some words, or a call or a part of one.                           *)
TellBlock(p) ==
  {b \in AnyBlock : /\ b.type \in {"text", "tool_use"} \/ (p = "anthropic" /\ b.type = "thinking")
                    /\ b.type = "tool_use" => b.name # "" /\ b.text # <<>>}

CanonBlock ==
  {u \in AnyBlock : \/ u.type = "text" /\ u.name = "" /\ u.id = NoId
                    \/ u.type = "tool_use"}

AsChunk(u) == Chunk(IF u.type = "text" THEN "content_delta" ELSE "tool_use_delta", <<u>>)

ReadKinds == {"delta", "text_delta", "thinking_delta", "tool_use_start", "input_json_delta"}
ReadChunk(p) ==
  {ch \in [kind : ReadKinds, parts : Seq(AnyBlock)] :
     \E u \in CanonBlock : ChunkToCanonical(p, ch) = AsChunk(u)}
Reading(p) == [ch \in ReadChunk(p) |-> ChunkToCanonical(p, ch).parts[1]]

LEMMA CanonText ==
  ASSUME NEW t \in Seq(Token)
  PROVE  Text(t) \in CanonBlock /\ Text(t).type = "text" /\ Text(t).name = "" /\ Text(t).text = t
         /\ AsChunk(Text(t)) = Delta(t)
<1>1. Text(t) \in AnyBlock /\ Text(t).type = "text" /\ Text(t).text = t
  BY TextIs
<1>2. Text(t).name = "" /\ Text(t).id = NoId
  BY DEF Text, Block
<1>. QED BY <1>1, <1>2 DEF CanonBlock, AsChunk, Delta

LEMMA CanonCall ==
  ASSUME NEW t \in Seq(Token), NEW id \in Id, NEW name \in Name
  PROVE  /\ ToolUse(id, name, t) \in CanonBlock
         /\ ToolUse(id, name, t) \in AnyBlock
         /\ ToolUse(id, name, t).type = "tool_use"
         /\ ToolUse(id, name, t).text = t
         /\ ToolUse(id, name, t).id = id
         /\ ToolUse(id, name, t).name = name
         /\ AsChunk(ToolUse(id, name, t)) = Chunk("tool_use_delta", <<ToolUse(id, name, t)>>)
<1>1. "tool_use" \in BlockTypes
  BY DEF BlockTypes
<1>2. ToolUse(id, name, t) = Block("tool_use", t, id, name)
  BY DEF ToolUse
<1> DEFINE u == ToolUse(id, name, t)
<1>3. u \in AnyBlock /\ u.type = "tool_use" /\ u.text = t /\ u.id = id /\ u.name = name
  BY <1>1, <1>2, BlockType
<1> HIDE DEF u
<1>4. u \in CanonBlock
  BY <1>3 DEF CanonBlock
<1>5. AsChunk(u) = Chunk("tool_use_delta", <<u>>)
  BY <1>3 DEF AsChunk
<1>. QED BY <1>3, <1>4, <1>5 DEF u

LEMMA ReadOne ==
  ASSUME NEW p, NEW kind \in ReadKinds, NEW d \in AnyBlock, NEW u \in CanonBlock,
         ChunkToCanonical(p, Chunk(kind, <<d>>)) = AsChunk(u)
  PROVE  Chunk(kind, <<d>>) \in ReadChunk(p) /\ Reading(p)[Chunk(kind, <<d>>)] = u
<1> DEFINE ch == Chunk(kind, <<d>>)
<1>1. ch \in [kind : ReadKinds, parts : Seq(AnyBlock)]
  <2>1. <<d>> \in Seq(AnyBlock)
    BY One
  <2>. QED BY <2>1 DEF Chunk
<1>2. AsChunk(u).parts[1] = u
  BY DEF AsChunk, Chunk
<1> HIDE DEF ch
<1>3. ch \in ReadChunk(p)
  BY <1>1 DEF ReadChunk, ch
<1>. QED BY <1>2, <1>3 DEF Reading, ch

(* What a chunk of each format is read as.                                 *)
LEMMA ChatDelta ==
  ASSUME NEW d \in AnyBlock, NEW kind
  PROVE  LET c == Chunk(kind, <<d>>)
         IN  /\ d.type = "text" /\ d.text # <<>> => OpenAIDelta(c) = Delta(d.text)
             /\ d.type = "function" => OpenAIDelta(c) = CallDelta(d)
<1> DEFINE c == Chunk(kind, <<d>>)
<1>1. c.parts = <<d>> /\ <<d>> \in Seq(AnyBlock)
  BY One DEF Chunk
<1>2. /\ Spread(Writer, <<d>>) = Writer[d]
      /\ Spread(Picker({"function"}), <<d>>) = Picker({"function"})[d]
  <2>1. Sends(Writer, AnyBlock, Seq(Token)) /\ Sends(Picker({"function"}), AnyBlock, Seq(AnyBlock))
    BY Senders
  <2>2. ASSUME NEW Z, NEW h, Sends(h, AnyBlock, Seq(Z)) PROVE Spread(h, <<d>>) = h[d]
    BY <2>2, SpreadOne
  <2>. QED BY <2>1, <2>2
<1>3. Words(c.parts) = Writer[d] /\ OfTypes(c.parts, {"function"}) = Picker({"function"})[d]
  BY <1>1, <1>2, WordsIs, AsSpreads
<1> HIDE DEF c
<1>4. ASSUME d.type = "text", d.text # <<>> PROVE OpenAIDelta(c) = Delta(d.text)
  <2>1. Words(c.parts) = d.text
    BY <1>3, <1>4 DEF Writer
  <2>. QED BY <1>4, <2>1 DEF OpenAIDelta
<1>5. ASSUME d.type = "function" PROVE OpenAIDelta(c) = CallDelta(d)
  <2>1. Words(c.parts) = <<>> /\ OfTypes(c.parts, {"function"}) = <<d>>
    BY <1>3, <1>5 DEF Writer, Picker
  <2>2. <<d>> # <<>> /\ <<d>>[1] = d
    OBVIOUS
  <2>. QED BY <2>1, <2>2 DEF OpenAIDelta
<1>. QED BY <1>4, <1>5 DEF c

LEMMA ChatChunk ==
  ASSUME NEW p \in {"openai", "plain", "ollama"}, NEW d \in AnyBlock
  PROVE  LET c == Chunk("delta", <<d>>)
         IN  /\ d.type = "text" /\ d.text # <<>> => ChunkToCanonical(p, c) = Delta(d.text)
             /\ d.type = "function" => ChunkToCanonical(p, c) = CallDelta(d)
<1>1. ChunkToCanonical(p, Chunk("delta", <<d>>)) = OpenAIDelta(Chunk("delta", <<d>>))
  <2>1. Chunk("delta", <<d>>).kind = "delta"
    BY DEF Chunk
  <2> DEFINE c == Chunk("delta", <<d>>)
  <2> HIDE DEF c
  <2>2. c.kind = "delta"
    BY <2>1 DEF c
  <2>3. ChunkToCanonical(p, c) = OpenAIDelta(c)
    BY <2>2 DEF ChunkToCanonical, OpenAIChunkToCanonical, OllamaChunkToCanonical
  <2>. QED BY <2>3 DEF c
<1>. QED BY <1>1, ChatDelta

LEMMA GeminiChunk ==
  ASSUME NEW d
  PROVE  LET c == Chunk("delta", <<d>>)
         IN  /\ d.type = "text" => ChunkToCanonical("gemini", c) = Delta(d.text)
             /\ d.type = "functionCall" =>
                  ChunkToCanonical("gemini", c) = Chunk("tool_use_delta",
                                                        <<ToolUse(GeminiId(d.name, 1), d.name, d.text)>>)
<1> DEFINE c == Chunk("delta", <<d>>)
           known == {i \in DOMAIN c.parts : c.parts[i].type \in {"text", "functionCall"}}
           first == CHOOSE i \in known : \A j \in known : i <= j
<1>1. c.kind = "delta" /\ c.parts = <<d>> /\ DOMAIN <<d>> = {1} /\ <<d>>[1] = d
  BY DEF Chunk
<1> HIDE DEF c
<1> SUFFICES ASSUME d.type \in {"text", "functionCall"}
             PROVE  /\ d.type = "text" => ChunkToCanonical("gemini", c) = Delta(d.text)
                    /\ d.type = "functionCall" =>
                         ChunkToCanonical("gemini", c) = Chunk("tool_use_delta",
                           <<ToolUse(GeminiId(d.name, 1), d.name, d.text)>>)
  BY DEF c
<1>2. known = {1}
  BY <1>1
<1>3. first = 1
  BY <1>2
<1>4. ChunkToCanonical("gemini", c)
        = LET b == GeminiPartToBlock(c.parts[first], first)
          IN  IF b.type = "text" THEN Delta(b.text) ELSE CallDelta(b)
  <2>1. known # {}
    BY <1>2
  <2>. QED BY <1>1, <2>1 DEF ChunkToCanonical, GeminiChunkToCanonical
<1> HIDE DEF first, known
<1>5. c.parts[first] = d
  BY <1>1, <1>3
<1>6. CASE d.type = "text"
  <2>1. GeminiPartToBlock(d, 1) = Text(d.text)
    BY <1>6 DEF GeminiPartToBlock
  <2>2. Text(d.text).type = "text" /\ Text(d.text).text = d.text
    BY DEF Text, Block
  <2>. QED BY <1>3, <1>4, <1>5, <1>6, <2>1, <2>2
<1>7. CASE d.type = "functionCall"
  <2> DEFINE u == ToolUse(GeminiId(d.name, 1), d.name, d.text)
  <2>1. GeminiPartToBlock(d, 1) = u
    BY <1>7 DEF GeminiPartToBlock
  <2>2. u.type = "tool_use" /\ ToolUse(u.id, u.name, u.text) = u
    BY DEF ToolUse, Block
  <2> HIDE DEF u
  <2>3. ChunkToCanonical("gemini", c) = CallDelta(u)
    BY <1>3, <1>4, <1>5, <2>1, <2>2
  <2>4. CallDelta(u) = Chunk("tool_use_delta", <<u>>)
    BY <2>2 DEF CallDelta
  <2>. QED BY <1>7, <2>3, <2>4 DEF u
<1>. QED BY <1>6, <1>7

LEMMA AnthropicChunk ==
  ASSUME NEW d
  PROVE  /\ ChunkToCanonical("anthropic", Chunk("text_delta", <<d>>)) = Delta(d.text)
         /\ ChunkToCanonical("anthropic", Chunk("thinking_delta", <<d>>)) = Delta(d.text)
         /\ ChunkToCanonical("anthropic", Chunk("tool_use_start", <<d>>))
              = Chunk("tool_use_delta", <<ToolUse(d.id, d.name, <<>>)>>)
         /\ ChunkToCanonical("anthropic", Chunk("input_json_delta", <<d>>))
              = Chunk("tool_use_delta", <<ToolUse(NoId, "", d.text)>>)
<1>1. ASSUME NEW c PROVE ChunkToCanonical("anthropic", c) = AnthropicChunkToCanonical(c)
  BY DEF ChunkToCanonical
<1>2. ASSUME NEW c, c.parts = <<d>>
      PROVE  /\ c.kind \in {"text_delta", "thinking_delta"} => AnthropicChunkToCanonical(c) = Delta(d.text)
             /\ c.kind = "tool_use_start" =>
                  AnthropicChunkToCanonical(c) = CallDelta(Block("", <<>>, d.id, d.name))
             /\ c.kind = "input_json_delta" =>
                  AnthropicChunkToCanonical(c) = CallDelta(Block("", d.text, NoId, ""))
  <2>1. c.parts[1] = d
    BY <1>2
  <2>. QED BY <2>1 DEF AnthropicChunkToCanonical
<1>3. \A kind : Chunk(kind, <<d>>).kind = kind /\ Chunk(kind, <<d>>).parts = <<d>>
  BY DEF Chunk
<1>4. /\ CallDelta(Block("", <<>>, d.id, d.name)) = Chunk("tool_use_delta", <<ToolUse(d.id, d.name, <<>>)>>)
      /\ CallDelta(Block("", d.text, NoId, "")) = Chunk("tool_use_delta", <<ToolUse(NoId, "", d.text)>>)
  BY DEF CallDelta, Block
<1>5. /\ AnthropicChunkToCanonical(Chunk("text_delta", <<d>>)) = Delta(d.text)
      /\ AnthropicChunkToCanonical(Chunk("thinking_delta", <<d>>)) = Delta(d.text)
  BY <1>2, <1>3
<1>6. AnthropicChunkToCanonical(Chunk("tool_use_start", <<d>>)) = CallDelta(Block("", <<>>, d.id, d.name))
  BY <1>2, <1>3
<1>7. AnthropicChunkToCanonical(Chunk("input_json_delta", <<d>>)) = CallDelta(Block("", d.text, NoId, ""))
  BY <1>2, <1>3
<1>. QED BY <1>1, <1>4, <1>5, <1>6, <1>7

-----------------------------------------------------------------------------
(* A block is read as one block for each chunk it is cut into.             *)
TextPart == [w \in Token |-> Text(<<w>>)]
CallPart == [w \in Token |-> ToolUse(NoId, "", <<w>>)]

Cutting(p) == [b \in TellBlock(p) |-> StreamBlock(p, b)]
Canon(p) ==
  [b \in TellBlock(p) |->
     CASE b.type # "tool_use" -> Mapped(TextPart, b.text)
       [] b.type = "tool_use" /\ p \in {"anthropic", "openai", "plain"} ->
            <<ToolUse(b.id, b.name, <<>>)>> \o Mapped(CallPart, b.text)
       [] b.type = "tool_use" /\ p = "ollama" -> <<ToolUse(b.id, b.name, b.text)>>
       [] b.type = "tool_use" /\ p = "gemini" -> <<ToolUse(GeminiId(b.name, 1), b.name, b.text)>>]

LEMMA PartSends == Sends(TextPart, Token, CanonBlock) /\ Sends(CallPart, Token, CanonBlock)
<1>1. ASSUME NEW w \in Token PROVE TextPart[w] \in CanonBlock /\ CallPart[w] \in CanonBlock
  <2>1. <<w>> \in Seq(Token) /\ NoId \in Id /\ "" \in Name
    BY One DEF Id, Name
  <2>. QED BY <2>1, CanonText, CanonCall DEF TextPart, CallPart
<1>. QED BY <1>1 DEF Sends

LEMMA BlockOf ==
  ASSUME NEW b \in AnyBlock
  PROVE  Block(b.type, b.text, b.id, b.name) = b
BY DEF AnyBlock, Block

LEMMA Rewritten ==
  ASSUME NEW b \in AnyBlock, NEW x \in Seq(Token)
  PROVE  [b EXCEPT !.text = x, !.id = NoId, !.name = ""] = Block(b.type, x, NoId, "")
<1> DEFINE c == [b EXCEPT !.text = x, !.id = NoId, !.name = ""]
<1>1. NoId \in Id /\ "" \in Name
  BY DEF Id, Name
<1>2. c \in AnyBlock
  BY <1>1 DEF AnyBlock
<1>3. c.type = b.type /\ c.text = x /\ c.id = NoId /\ c.name = ""
  BY DEF AnyBlock
<1> HIDE DEF c
<1>4. Block(c.type, c.text, c.id, c.name) = c
  BY <1>2, BlockOf
<1>. QED BY <1>3, <1>4 DEF c

LEMMA EmptyHanded == NoId \in Id /\ "" \in Name
BY DEF Id, Name

LEMMA NamelessBlock ==
  ASSUME NEW type \in BlockTypes, NEW x \in Seq(Token)
  PROVE  LET d == Block(type, x, NoId, "")
         IN  d \in AnyBlock /\ d.type = type /\ d.text = x /\ d.id = NoId /\ d.name = ""
<1> DEFINE n == ""
           id == NoId
           d == Block(type, x, id, n)
<1>1. n \in Name /\ id \in Id
  BY EmptyHanded
<1> HIDE DEF n, id
<1>2. d \in AnyBlock /\ d.type = type /\ d.text = x /\ d.id = id /\ d.name = n
  BY <1>1, BlockType
<1>. QED BY <1>2 DEF n, id

(* Fragments of a type in chunks of a kind are read as g says.             *)
ReadsAs(p, kind, type, g) ==
  \A w \in Token : ChunkToCanonical(p, Chunk(kind, <<Block(type, <<w>>, NoId, "")>>)) = AsChunk(g[w])

LEMMA FragmentsRead ==
  ASSUME NEW p, NEW kind \in ReadKinds, NEW b \in AnyBlock, NEW g, Sends(g, Token, CanonBlock),
         ReadsAs(p, kind, b.type, g)
  PROVE  /\ Fragments(kind, b) \in Seq(ReadChunk(p))
         /\ Mapped(Reading(p), Fragments(kind, b)) = Mapped(g, b.text)
<1> DEFINE t == b.text
           s == Fragments(kind, b)
           piece(w) == Block(b.type, <<w>>, NoId, "")
<1>1. t \in Seq(Token) /\ b.type \in BlockTypes
  BY DEF AnyBlock
<1>a. ASSUME NEW x \in Seq(Token)
      PROVE  [b EXCEPT !.text = x, !.id = NoId, !.name = ""] = Block(b.type, x, NoId, "")
  BY Rewritten
<1>2. ASSUME NEW i \in DOMAIN t
      PROVE  s[i] \in ReadChunk(p) /\ Reading(p)[s[i]] = g[t[i]]
  <2>1. t[i] \in Token /\ g[t[i]] \in CanonBlock
    BY <1>1 DEF Sends
  <2>2. [b EXCEPT !.text = <<b.text[i]>>, !.id = NoId, !.name = ""] = piece(t[i])
    <3>1. <<t[i]>> \in Seq(Token)
      BY <2>1, One
    <3>. QED BY <1>a, <3>1
  <2>3. s[i] = Chunk(kind, <<piece(t[i])>>)
    BY <2>2 DEF Fragments
  <2>4. piece(t[i]) \in AnyBlock
    <3>1. <<t[i]>> \in Seq(Token)
      BY <2>1, One
    <3>2. NoId \in Id /\ "" \in Name
      BY DEF Id, Name
    <3>. QED BY <1>1, <3>1, <3>2, BlockType
  <2>5. ChunkToCanonical(p, Chunk(kind, <<piece(t[i])>>)) = AsChunk(g[t[i]])
    BY <2>1 DEF ReadsAs
  <2> HIDE DEF piece, s, t
  <2>. QED BY <2>1, <2>3, <2>4, <2>5, ReadOne
<1>3. DOMAIN s = DOMAIN t /\ s = [i \in DOMAIN t |-> s[i]]
  BY DEF Fragments
<1> HIDE DEF s, t, piece
<1>4. s \in Seq(ReadChunk(p))
  BY <1>1, <1>2, <1>3
<1>5. Mapped(Reading(p), s) = Mapped(g, t)
  BY <1>2, <1>3 DEF Mapped
<1>. QED BY <1>4, <1>5 DEF s, t

LEMMA ReadsAsText ==
  /\ \A p \in Formats \ {"anthropic"} : ReadsAs(p, "delta", "text", TextPart)
  /\ ReadsAs("anthropic", "text_delta", "text", TextPart)
  /\ ReadsAs("anthropic", "thinking_delta", "thinking", TextPart)
<1>1. ASSUME NEW w \in Token
      PROVE  /\ <<w>> \in Seq(Token) /\ <<w>> # <<>>
             /\ AsChunk(TextPart[w]) = Delta(<<w>>)
             /\ Block("text", <<w>>, NoId, "") \in AnyBlock
             /\ Block("text", <<w>>, NoId, "").type = "text"
             /\ \A type : Block(type, <<w>>, NoId, "").text = <<w>>
  <2>1. <<w>> \in Seq(Token) /\ <<w>> # <<>>
    BY One
  <2>2. Text(<<w>>) = Block("text", <<w>>, NoId, "")
    BY DEF Text
  <2>3. AsChunk(Text(<<w>>)) = Delta(<<w>>) /\ Text(<<w>>) \in AnyBlock /\ Text(<<w>>).type = "text"
    BY <2>1, CanonText, TextIs
  <2>4. \A type : Block(type, <<w>>, NoId, "").text = <<w>>
    BY DEF Block
  <2>. QED BY <2>1, <2>2, <2>3, <2>4 DEF TextPart
<1>2. ASSUME NEW p \in Formats \ {"anthropic"}, NEW w \in Token
      PROVE  ChunkToCanonical(p, Chunk("delta", <<Block("text", <<w>>, NoId, "")>>)) = AsChunk(TextPart[w])
  <2>1. CASE p \in {"openai", "plain", "ollama"}
    BY <1>1, <2>1, ChatChunk
  <2>2. CASE p = "gemini"
    BY <1>1, <2>2, GeminiChunk
  <2>. QED BY <2>1, <2>2 DEF Formats
<1>3. ASSUME NEW w \in Token
      PROVE  ChunkToCanonical("anthropic", Chunk("text_delta", <<Block("text", <<w>>, NoId, "")>>))
               = AsChunk(TextPart[w])
  <2> DEFINE d == Block("text", <<w>>, NoId, "")
  <2>1. d.text = <<w>>
    BY <1>1
  <2> HIDE DEF d
  <2>2. ChunkToCanonical("anthropic", Chunk("text_delta", <<d>>)) = Delta(d.text)
    BY AnthropicChunk
  <2>. QED BY <1>1, <2>1, <2>2 DEF d
<1>4. ASSUME NEW w \in Token
      PROVE  ChunkToCanonical("anthropic", Chunk("thinking_delta", <<Block("thinking", <<w>>, NoId, "")>>))
               = AsChunk(TextPart[w])
  <2> DEFINE d == Block("thinking", <<w>>, NoId, "")
  <2>1. d.text = <<w>>
    BY <1>1
  <2> HIDE DEF d
  <2>2. ChunkToCanonical("anthropic", Chunk("thinking_delta", <<d>>)) = Delta(d.text)
    BY AnthropicChunk
  <2>. QED BY <1>1, <2>1, <2>2 DEF d
<1>. QED BY <1>2, <1>3, <1>4 DEF ReadsAs

LEMMA ReadsAsCall ==
  /\ \A p \in {"openai", "plain"} : ReadsAs(p, "delta", "function", CallPart)
  /\ ReadsAs("anthropic", "input_json_delta", "tool_use", CallPart)
<1>1. ASSUME NEW w \in Token
      PROVE  /\ AsChunk(CallPart[w]) = Chunk("tool_use_delta", <<ToolUse(NoId, "", <<w>>)>>)
             /\ Block("function", <<w>>, NoId, "") \in AnyBlock
             /\ Block("function", <<w>>, NoId, "").type = "function"
             /\ CallDelta(Block("function", <<w>>, NoId, "")) = Chunk("tool_use_delta", <<ToolUse(NoId, "", <<w>>)>>)
             /\ Block("tool_use", <<w>>, NoId, "").text = <<w>>
  <2>1. <<w>> \in Seq(Token) /\ NoId \in Id /\ "" \in Name /\ "function" \in BlockTypes
    BY One DEF Id, Name, BlockTypes
  <2>2. AsChunk(ToolUse(NoId, "", <<w>>)) = Chunk("tool_use_delta", <<ToolUse(NoId, "", <<w>>)>>)
    BY <2>1, CanonCall
  <2> DEFINE d == Block("function", <<w>>, NoId, "")
             x == <<w>>
  <2> HIDE DEF x
  <2>a. x \in Seq(Token)
    BY <2>1 DEF x
  <2>b. /\ Block("function", x, NoId, "") \in AnyBlock
        /\ Block("function", x, NoId, "").type = "function"
        /\ Block("function", x, NoId, "").text = x
        /\ Block("function", x, NoId, "").id = NoId
        /\ Block("function", x, NoId, "").name = ""
    <3>1. "function" \in BlockTypes
      BY <2>1
    <3>. QED BY <2>a, <3>1, NamelessBlock
  <2>3. d \in AnyBlock /\ d.type = "function" /\ d.text = <<w>> /\ d.id = NoId /\ d.name = ""
    BY <2>b DEF x
  <2> HIDE DEF d
  <2>4. CallDelta(d) = Chunk("tool_use_delta", <<ToolUse(NoId, "", <<w>>)>>)
    BY <2>3 DEF CallDelta
  <2>5. Block("tool_use", <<w>>, NoId, "").text = <<w>>
    BY DEF Block
  <2>. QED BY <2>2, <2>3, <2>4, <2>5 DEF CallPart, d
<1>2. ASSUME NEW p \in {"openai", "plain"}, NEW w \in Token
      PROVE  ChunkToCanonical(p, Chunk("delta", <<Block("function", <<w>>, NoId, "")>>)) = AsChunk(CallPart[w])
  BY <1>1, ChatChunk
<1>3. ASSUME NEW w \in Token
      PROVE  ChunkToCanonical("anthropic", Chunk("input_json_delta", <<Block("tool_use", <<w>>, NoId, "")>>))
               = AsChunk(CallPart[w])
  BY <1>1, AnthropicChunk
<1>. QED BY <1>2, <1>3 DEF ReadsAs

(* A sequence of chunks read as a sequence of blocks.                      *)
ReadTo(p, s, k) ==
  s \in Seq(ReadChunk(p)) /\ k \in Seq(CanonBlock) /\ Mapped(Reading(p), s) = k

LEMMA ReadToOne ==
  ASSUME NEW p, NEW kind \in ReadKinds, NEW d \in AnyBlock, NEW u \in CanonBlock,
         ChunkToCanonical(p, Chunk(kind, <<d>>)) = AsChunk(u)
  PROVE  ReadTo(p, <<Chunk(kind, <<d>>)>>, <<u>>)
<1> DEFINE ch == Chunk(kind, <<d>>)
<1>1. ch \in ReadChunk(p) /\ Reading(p)[ch] = u
  BY ReadOne
<1> HIDE DEF ch
<1>2. <<ch>> \in Seq(ReadChunk(p)) /\ <<u>> \in Seq(CanonBlock)
  BY <1>1, One
<1>3. Mapped(Reading(p), <<ch>>) = <<u>>
  BY <1>1 DEF Mapped
<1>. QED BY <1>2, <1>3 DEF ReadTo, ch

LEMMA ReadToConcat ==
  ASSUME NEW p, NEW s, NEW k, ReadTo(p, s, k), NEW t, NEW l, ReadTo(p, t, l)
  PROVE  ReadTo(p, s \o t, k \o l)
<1>1. Sends(Reading(p), ReadChunk(p), CanonBlock)
  <2> SUFFICES ASSUME NEW ch \in ReadChunk(p) PROVE Reading(p)[ch] \in CanonBlock
    BY DEF Sends
  <2>1. PICK u \in CanonBlock : ChunkToCanonical(p, ch) = AsChunk(u)
    BY DEF ReadChunk
  <2>2. AsChunk(u).parts[1] = u
    BY DEF AsChunk, Chunk
  <2>. QED BY <2>1, <2>2 DEF Reading
<1>2. s \in Seq(ReadChunk(p)) /\ t \in Seq(ReadChunk(p)) /\ k \in Seq(CanonBlock) /\ l \in Seq(CanonBlock)
      /\ Mapped(Reading(p), s) = k /\ Mapped(Reading(p), t) = l
  BY DEF ReadTo
<1>3. Mapped(Reading(p), s \o t) = k \o l
  <2> DEFINE R == Reading(p)
             X == ReadChunk(p)
  <2> HIDE DEF R, X
  <2>1. Sends(R, X, CanonBlock) /\ s \in Seq(X) /\ t \in Seq(X)
    BY <1>1, <1>2 DEF R, X
  <2>2. Mapped(R, s \o t) = Mapped(R, s) \o Mapped(R, t)
    BY <2>1, MappedConcat
  <2>. QED BY <1>2, <2>2 DEF R
<1>4. s \o t \in Seq(ReadChunk(p)) /\ k \o l \in Seq(CanonBlock)
  BY <1>2, ConcatProperties
<1>. QED BY <1>3, <1>4 DEF ReadTo

LEMMA ReadToFragments ==
  ASSUME NEW p, NEW kind \in ReadKinds, NEW b \in AnyBlock, NEW g, Sends(g, Token, CanonBlock),
         ReadsAs(p, kind, b.type, g)
  PROVE  ReadTo(p, Fragments(kind, b), Mapped(g, b.text))
<1>1. b.text \in Seq(Token)
  BY DEF AnyBlock
<1>2. Mapped(g, b.text) \in Seq(CanonBlock)
  BY <1>1, MappedType
<1>. QED BY <1>2, FragmentsRead DEF ReadTo

LEMMA TellIs ==
  ASSUME NEW p, NEW b \in TellBlock(p)
  PROVE  /\ b \in AnyBlock /\ b.text \in Seq(Token) /\ b.id \in Id /\ b.name \in Name
         /\ b.type \in {"text", "tool_use", "thinking"}
         /\ b.type = "thinking" => p = "anthropic"
         /\ b.type = "tool_use" => b.name # "" /\ b.name \in Word /\ b.text # <<>>
<1>1. /\ b \in AnyBlock /\ b.type \in {"text", "tool_use", "thinking"}
      /\ b.type = "thinking" => p = "anthropic"
      /\ b.type = "tool_use" => b.name # "" /\ b.text # <<>>
  BY DEF TellBlock
<1>2. b.text \in Seq(Token) /\ b.id \in Id /\ b.name \in Name
  BY <1>1 DEF AnyBlock
<1>3. b.name # "" => b.name \in Word
  BY <1>2 DEF Name
<1>. QED BY <1>1, <1>2, <1>3

(* The name of a call, in a chunk of its own.                              *)
LEMMA NamedReads ==
  ASSUME NEW p \in {"openai", "plain", "anthropic"}, NEW b \in AnyBlock, NEW kind, NEW d,
         d.text = <<>>, d \in AnyBlock, d.id = b.id, d.name = b.name,
         \/ p = "anthropic" /\ kind = "tool_use_start"
         \/ p # "anthropic" /\ kind = "delta" /\ d.type = "function"
  PROVE  ReadTo(p, <<Chunk(kind, <<d>>)>>, <<ToolUse(b.id, b.name, <<>>)>>)
<1> DEFINE u == ToolUse(b.id, b.name, <<>>)
<1>1. u \in CanonBlock /\ AsChunk(u) = Chunk("tool_use_delta", <<u>>)
  <2> DEFINE e == <<>>
  <2>1. e \in Seq(Token) /\ b.id \in Id /\ b.name \in Name
    BY DEF AnyBlock
  <2> HIDE DEF e
  <2>2. ToolUse(b.id, b.name, e) \in CanonBlock
    BY <2>1, CanonCall
  <2>3. AsChunk(ToolUse(b.id, b.name, e)) = Chunk("tool_use_delta", <<ToolUse(b.id, b.name, e)>>)
    BY <2>1, CanonCall
  <2>. QED BY <2>2, <2>3 DEF e
<1>2. ChunkToCanonical(p, Chunk(kind, <<d>>)) = Chunk("tool_use_delta", <<u>>)
  <2>1. CASE p = "anthropic"
    BY <2>1, AnthropicChunk
  <2>2. CASE p # "anthropic"
    <3>1. ChunkToCanonical(p, Chunk("delta", <<d>>)) = CallDelta(d)
      BY <2>2, ChatChunk
    <3>2. CallDelta(d) = Chunk("tool_use_delta", <<u>>)
      BY DEF CallDelta
    <3>. QED BY <2>2, <3>1, <3>2
  <2>. QED BY <2>1, <2>2
<1>3. kind \in ReadKinds
  BY DEF ReadKinds
<1> HIDE DEF u
<1>. QED BY <1>1, <1>2, <1>3, ReadToOne DEF u

LEMMA CutReads ==
  ASSUME NEW p \in Formats, NEW b \in TellBlock(p)
  PROVE  ReadTo(p, Cutting(p)[b], Canon(p)[b])
<1>0. /\ b \in AnyBlock /\ b.text \in Seq(Token) /\ b.id \in Id /\ b.name \in Name
      /\ b.type \in {"text", "tool_use", "thinking"}
      /\ b.type = "thinking" => p = "anthropic"
      /\ b.type = "tool_use" => b.name # "" /\ b.name \in Word /\ b.text # <<>>
  BY TellIs
<1>1. CASE b.type # "tool_use"
  <2> DEFINE kind == IF b.type = "thinking" THEN "thinking_delta"
                     ELSE IF p = "anthropic" THEN "text_delta" ELSE "delta"
  <2>1. Cutting(p)[b] = Fragments(kind, b)
    BY <1>0, <1>1 DEF Cutting, StreamBlock
  <2>2. Canon(p)[b] = Mapped(TextPart, b.text)
    BY <1>1 DEF Canon
  <2>3. ReadsAs(p, kind, b.type, TextPart) /\ kind \in ReadKinds
    BY <1>0, <1>1, ReadsAsText DEF ReadKinds
  <2> HIDE DEF kind
  <2>4. ReadTo(p, Fragments(kind, b), Mapped(TextPart, b.text))
    BY <1>0, <2>3, PartSends, ReadToFragments
  <2>. QED BY <2>1, <2>2, <2>4
<1>2. CASE b.type = "tool_use" /\ p \in {"anthropic", "openai", "plain"}
  <2> DEFINE c == IF p = "anthropic" THEN b ELSE [b EXCEPT !.type = "function"]
             first == IF p = "anthropic" THEN "tool_use_start" ELSE "delta"
             kind == IF p = "anthropic" THEN "input_json_delta" ELSE "delta"
             d == [c EXCEPT !.text = <<>>]
  <2>1. Cutting(p)[b] = <<Chunk(first, <<d>>)>> \o Fragments(kind, c)
    <3>1. CASE p = "anthropic"
      <4>1. StreamBlock(p, b) = <<Named("tool_use_start", b)>> \o Fragments("input_json_delta", b)
        BY <1>2, <3>1 DEF StreamBlock
      <4>. QED BY <3>1, <4>1 DEF Cutting, Named
    <3>2. CASE p \in {"openai", "plain"}
      <4>1. StreamBlock(p, b) = LET f == [b EXCEPT !.type = "function"]
                                IN  <<Named("delta", f)>> \o Fragments("delta", f)
        BY <1>2, <3>2 DEF StreamBlock
      <4>. QED BY <3>2, <4>1 DEF Cutting, Named
    <3>. QED BY <1>2, <3>1, <3>2
  <2>2. Canon(p)[b] = <<ToolUse(b.id, b.name, <<>>)>> \o Mapped(CallPart, b.text)
    BY <1>2 DEF Canon
  <2>3. /\ c \in AnyBlock /\ c.text = b.text /\ c.id = b.id /\ c.name = b.name
        /\ c.type = IF p = "anthropic" THEN "tool_use" ELSE "function"
    <3>1. [b EXCEPT !.type = "function"] \in AnyBlock
      <4>1. "function" \in BlockTypes
        BY DEF BlockTypes
      <4>. QED BY <1>0, <4>1 DEF AnyBlock
    <3>2. /\ [b EXCEPT !.type = "function"].text = b.text /\ [b EXCEPT !.type = "function"].id = b.id
          /\ [b EXCEPT !.type = "function"].name = b.name /\ [b EXCEPT !.type = "function"].type = "function"
      BY <1>0 DEF AnyBlock
    <3>. QED BY <1>0, <1>2, <3>1, <3>2
  <2> HIDE DEF c
  <2>4. d \in AnyBlock /\ d.text = <<>> /\ d.id = b.id /\ d.name = b.name /\ d.type = c.type
    <3>1. <<>> \in Seq(Token)
      OBVIOUS
    <3>. QED BY <2>3, <3>1 DEF AnyBlock
  <2> HIDE DEF d
  <2>5. ReadTo(p, <<Chunk(first, <<d>>)>>, <<ToolUse(b.id, b.name, <<>>)>>)
    BY <1>0, <1>2, <2>3, <2>4, NamedReads
  <2>6. ReadsAs(p, kind, c.type, CallPart) /\ kind \in ReadKinds
    BY <1>2, <2>3, ReadsAsCall DEF ReadKinds
  <2> HIDE DEF first, kind
  <2>7. ReadTo(p, Fragments(kind, c), Mapped(CallPart, b.text))
    BY <2>3, <2>6, PartSends, ReadToFragments
  <2>. QED BY <2>1, <2>2, <2>5, <2>7, ReadToConcat
<1>3. CASE b.type = "tool_use" /\ p = "ollama"
  <2> DEFINE c == [b EXCEPT !.type = "function"]
             u == ToolUse(b.id, b.name, b.text)
  <2>1. Cutting(p)[b] = <<Chunk("delta", <<c>>)>> /\ Canon(p)[b] = <<u>>
    BY <1>3 DEF Cutting, StreamBlock, Canon
  <2>2. /\ c \in AnyBlock /\ c.text = b.text /\ c.id = b.id /\ c.name = b.name
        /\ c.type = "function"
    <3>1. "function" \in BlockTypes
      BY DEF BlockTypes
    <3>. QED BY <1>0, <3>1 DEF AnyBlock
  <2>3. u \in CanonBlock /\ AsChunk(u) = Chunk("tool_use_delta", <<u>>)
    <3>1. b.text \in Seq(Token) /\ b.id \in Id /\ b.name \in Name
      BY <1>0
    <3>2. u \in CanonBlock
      BY <3>1, CanonCall
    <3>3. AsChunk(u) = Chunk("tool_use_delta", <<u>>)
      BY <3>1, CanonCall
    <3>. QED BY <3>2, <3>3
  <2> HIDE DEF c
  <2>4. ChunkToCanonical(p, Chunk("delta", <<c>>)) = CallDelta(c)
    BY <1>3, <2>2, ChatChunk
  <2>5. CallDelta(c) = Chunk("tool_use_delta", <<u>>)
    BY <2>2 DEF CallDelta
  <2>6. "delta" \in ReadKinds
    BY DEF ReadKinds
  <2> HIDE DEF u
  <2>. QED BY <2>1, <2>2, <2>3, <2>4, <2>5, <2>6, ReadToOne
<1>4. CASE b.type = "tool_use" /\ p = "gemini"
  <2> DEFINE d == Block("functionCall", b.text, NoId, b.name)
             id == GeminiId(b.name, 1)
             u == ToolUse(id, b.name, b.text)
  <2>1. Cutting(p)[b] = <<Chunk("delta", <<d>>)>> /\ Canon(p)[b] = <<u>>
    BY <1>4 DEF Cutting, StreamBlock, Canon
  <2>2. d \in AnyBlock /\ d.type = "functionCall" /\ d.text = b.text /\ d.name = b.name
    <3>1. "functionCall" \in BlockTypes
      BY DEF BlockTypes
    <3>2. b.text \in Seq(Token) /\ NoId \in Id /\ b.name \in Name
      BY <1>0, EmptyHanded
    <3> DEFINE none == NoId
    <3> HIDE DEF none
    <3>3. none \in Id
      BY <3>2 DEF none
    <3>4. /\ Block("functionCall", b.text, none, b.name) \in AnyBlock
          /\ Block("functionCall", b.text, none, b.name).type = "functionCall"
          /\ Block("functionCall", b.text, none, b.name).text = b.text
          /\ Block("functionCall", b.text, none, b.name).name = b.name
      BY <3>1, <3>2, <3>3, BlockType
    <3>. QED BY <3>4 DEF none
  <2>3. id \in Id
    <3>1. id = <<b.name, 0>>
      BY DEF GeminiId
    <3>2. <<b.name, 0>> \in Word \X Int
      <4>1. b.name \in Word
        BY <1>0, <1>4
      <4>. QED BY <4>1
    <3>. QED BY <3>1, <3>2 DEF Id, Name
  <2> HIDE DEF id
  <2>4. u \in CanonBlock /\ AsChunk(u) = Chunk("tool_use_delta", <<u>>)
    <3>1. b.text \in Seq(Token) /\ id \in Id /\ b.name \in Name
      BY <1>0, <2>3
    <3>2. u \in CanonBlock
      BY <3>1, CanonCall
    <3>3. AsChunk(u) = Chunk("tool_use_delta", <<u>>)
      BY <3>1, CanonCall
    <3>. QED BY <3>2, <3>3
  <2> HIDE DEF d
  <2>5. ChunkToCanonical("gemini", Chunk("delta", <<d>>)) = Chunk("tool_use_delta", <<u>>)
    BY <2>2, GeminiChunk DEF id
  <2>6. "delta" \in ReadKinds
    BY DEF ReadKinds
  <2> HIDE DEF u
  <2>. QED BY <1>4, <2>1, <2>2, <2>4, <2>5, <2>6, ReadToOne
<1>. QED BY <1>0, <1>1, <1>2, <1>3, <1>4 DEF Formats

(* The chunks of what an answer says, and the blocks they are read as.     *)
Chunks(p, s) == Spread(Cutting(p), s)
Canonical(p, s) == Spread(Canon(p), s)

LEMMA StreamReads ==
  ASSUME NEW p \in Formats, NEW s \in Seq(TellBlock(p))
  PROVE  /\ StreamAnswer(p, s) = Chunks(p, s) \o StreamEnd(p)
         /\ ReadTo(p, Chunks(p, s), Canonical(p, s))
         /\ Sends(Canon(p), TellBlock(p), Seq(CanonBlock))
<1> DEFINE X == TellBlock(p)
           Y == ReadChunk(p)
           g == Cutting(p)
           k == Reading(p)
           c == Canon(p)
<1>1. ASSUME NEW b \in X PROVE g[b] \in Seq(Y) /\ c[b] \in Seq(CanonBlock) /\ c[b] = Mapped(k, g[b])
  BY CutReads DEF ReadTo
<1>2. Sends(k, Y, CanonBlock)
  <2> SUFFICES ASSUME NEW ch \in ReadChunk(p) PROVE Reading(p)[ch] \in CanonBlock
    BY DEF Sends
  <2>1. PICK u \in CanonBlock : ChunkToCanonical(p, ch) = AsChunk(u)
    BY DEF ReadChunk
  <2>2. AsChunk(u).parts[1] = u
    BY DEF AsChunk, Chunk
  <2>. QED BY <2>1, <2>2 DEF Reading
<1>3. StreamAnswer(p, s) = Spread(g, s) \o StreamEnd(p)
  <2>1. [i \in DOMAIN s |-> StreamBlock(p, s[i])] = Mapped(g, s)
    <3>1. \A i \in DOMAIN s : s[i] \in X
      OBVIOUS
    <3>. QED BY <3>1 DEF Cutting, Mapped
  <2>. QED BY <2>1 DEF StreamAnswer, FlatMap, Each, Spread
<1> HIDE DEF X, Y, g, k, c
<1>4. Sends(g, X, Seq(Y)) /\ Sends(c, X, Seq(CanonBlock)) /\ MapsEach(c, g, k, X)
  BY <1>1 DEF Sends, MapsEach
<1>5. s \in Seq(X)
  BY DEF X
<1>6. Mapped(k, Spread(g, s)) = Spread(c, s)
  BY <1>2, <1>4, <1>5, MappedSpread
<1>7. Spread(g, s) \in Seq(Y) /\ Spread(c, s) \in Seq(CanonBlock)
  BY <1>4, <1>5, SpreadType
<1>. QED BY <1>3, <1>4, <1>6, <1>7 DEF Chunks, Canonical, ReadTo, X, Y, g, k, c

-----------------------------------------------------------------------------
(* What a client is written of a block.                                    *)
SaidKinds == {"delta", "text_delta", "tool_use_start", "input_json_delta"}

Showing(f) ==
  [u \in CanonBlock |->
     CASE u.type # "tool_use" -> u
       [] u.type = "tool_use" /\ f \in {"openai", "ollama"} -> [u EXCEPT !.type = "function"]
       [] u.type = "tool_use" /\ f = "anthropic" ->
            IF u.name # "" THEN ToolUse(u.id, u.name, <<>>) ELSE u
       [] u.type = "tool_use" /\ f = "gemini" ->
            Block("functionCall", IF u.text = <<>> THEN Quote(<<>>) ELSE u.text, NoId, u.name)]

LEMMA Quoted == Quote(<<>>) \in Seq(Token)
<1>1. <<>> \in Seq(Token) /\ <<"{">> \in Seq(Token) /\ <<"}">> \in Seq(Token)
  BY DEF Token
<1>2. <<"{">> \o <<>> \in Seq(Token)
  BY <1>1, ConcatProperties
<1>3. <<"{">> \o <<>> \o <<"}">> \in Seq(Token)
  <2> DEFINE a == <<"{">> \o <<>>
             b == <<"}">>
  <2>1. a \in Seq(Token) /\ b \in Seq(Token)
    BY <1>1, <1>2
  <2> HIDE DEF a, b
  <2>2. a \o b \in Seq(Token)
    BY <2>1, ConcatProperties
  <2>. QED BY <2>2 DEF a, b
<1>. QED BY <1>3 DEF Quote

(* A call as a client is shown it.                                         *)
LEMMA ShownCall ==
  ASSUME NEW f \in ClientFormats, NEW u \in CanonBlock, u.type = "tool_use"
  PROVE  LET v == Showing(f)[u]
         IN  /\ v \in AnyBlock /\ v.type \in {"tool_use", "function", "functionCall"} /\ v.name = u.name
             /\ f # "gemini" => v.id = u.id
             /\ \/ f \in {"openai", "ollama"} \/ (f = "anthropic" /\ u.name = "")
                \/ (f = "gemini" /\ u.text # <<>>) \/ (f = "anthropic" /\ u.text = <<>>)
                => v.text = u.text
<1>0. /\ u \in AnyBlock /\ u.text \in Seq(Token) /\ u.id \in Id /\ u.name \in Name
      /\ "function" \in BlockTypes /\ "functionCall" \in BlockTypes /\ "tool_use" \in BlockTypes
  BY DEF CanonBlock, AnyBlock, BlockTypes
<1>1. CASE f \in {"openai", "ollama"}
  <2>1. Showing(f)[u] = [u EXCEPT !.type = "function"]
    BY <1>1 DEF Showing
  <2>2. [u EXCEPT !.type = "function"] \in AnyBlock
    BY <1>0 DEF AnyBlock
  <2>3. /\ [u EXCEPT !.type = "function"].type = "function" /\ [u EXCEPT !.type = "function"].name = u.name
        /\ [u EXCEPT !.type = "function"].id = u.id /\ [u EXCEPT !.type = "function"].text = u.text
    BY <1>0 DEF AnyBlock
  <2>. QED BY <2>1, <2>2, <2>3
<1>2. CASE f = "anthropic" /\ u.name = ""
  <2>1. Showing(f)[u] = u
    BY <1>2 DEF Showing
  <2>. QED BY <1>0, <2>1
<1>3. CASE f = "anthropic" /\ u.name # ""
  <2> DEFINE e == <<>>
  <2>0. e \in Seq(Token)
    OBVIOUS
  <2>1. Showing(f)[u] = ToolUse(u.id, u.name, e)
    BY <1>3 DEF Showing
  <2> HIDE DEF e
  <2>2. ToolUse(u.id, u.name, e) = Block("tool_use", e, u.id, u.name)
    BY DEF ToolUse
  <2> DEFINE v == Block("tool_use", e, u.id, u.name)
  <2>3. v \in AnyBlock /\ v.type = "tool_use" /\ v.text = e /\ v.id = u.id /\ v.name = u.name
    BY <1>0, <2>0, BlockType
  <2>4. Showing(f)[u] = v
    BY <2>1, <2>2
  <2> HIDE DEF v
  <2>. QED BY <1>3, <2>3, <2>4 DEF e
<1>4. CASE f = "gemini"
  <2> DEFINE t == IF u.text = <<>> THEN Quote(<<>>) ELSE u.text
             none == NoId
             v == Block("functionCall", t, none, u.name)
  <2>1. Showing(f)[u] = v
    BY <1>4 DEF Showing
  <2>2. t \in Seq(Token) /\ none \in Id
    BY <1>0, Quoted, EmptyHanded
  <2>3. u.text # <<>> => t = u.text
    OBVIOUS
  <2> HIDE DEF t, none
  <2>4. v \in AnyBlock /\ v.type = "functionCall" /\ v.text = t /\ v.name = u.name
    BY <1>0, <2>2, BlockType
  <2> HIDE DEF v
  <2>. QED BY <1>4, <2>1, <2>3, <2>4
<1>. QED BY <1>1, <1>2, <1>3, <1>4 DEF ClientFormats

LEMMA Shows ==
  ASSUME NEW f \in ClientFormats
  PROVE  /\ Sends(Showing(f), CanonBlock, AnyBlock)
         /\ \A u \in CanonBlock : u.type # "tool_use" => Showing(f)[u] = u /\ u.type = "text" /\ u.name = ""
<1>1. ASSUME NEW u \in CanonBlock, u.type # "tool_use"
      PROVE  Showing(f)[u] = u /\ u.type = "text" /\ u.name = "" /\ u \in AnyBlock
  BY <1>1 DEF Showing, CanonBlock
<1>2. ASSUME NEW u \in CanonBlock, u.type = "tool_use" PROVE Showing(f)[u] \in AnyBlock
  BY <1>2, ShownCall
<1>. QED BY <1>1, <1>2 DEF Sends

LEMMA Writes ==
  ASSUME NEW f \in ClientFormats, NEW u \in CanonBlock
  PROVE  \E kind \in SaidKinds : ChunkFromCanonical(f, AsChunk(u)) = Chunk(kind, <<Showing(f)[u]>>)
<1> DEFINE c == AsChunk(u)
<1>1. /\ c.parts = <<u>> /\ c.parts[1] = u
      /\ u.type = "text" => c.kind = "content_delta"
      /\ u.type = "tool_use" => c.kind = "tool_use_delta"
      /\ u.type \in {"text", "tool_use"}
  BY DEF AsChunk, Chunk, CanonBlock
<1> HIDE DEF c
<1>2. CASE u.type = "text"
  <2> DEFINE kind == IF f = "anthropic" THEN "text_delta" ELSE "delta"
  <2>1. Showing(f)[u] = u
    BY <1>2 DEF Showing
  <2>2. c.kind = "content_delta"
    BY <1>1, <1>2
  <2>3. ChunkFromCanonical(f, c) = Chunk(kind, c.parts)
    <3>1. CASE f = "openai"
      BY <2>2, <3>1 DEF ChunkFromCanonical, OpenAIChunkFromCanonical
    <3>2. CASE f = "ollama"
      BY <2>2, <3>2 DEF ChunkFromCanonical, OpenAIChunkFromCanonical, OllamaChunkFromCanonical
    <3>3. CASE f = "anthropic"
      BY <2>2, <3>3 DEF ChunkFromCanonical, AnthropicChunkFromCanonical
    <3>4. CASE f = "gemini"
      BY <2>2, <3>4 DEF ChunkFromCanonical, GeminiChunkFromCanonical
    <3>. QED BY <3>1, <3>2, <3>3, <3>4 DEF ClientFormats
  <2>4. kind \in SaidKinds
    BY DEF SaidKinds
  <2> HIDE DEF kind
  <2>. QED BY <1>1, <2>1, <2>3, <2>4 DEF c
<1>3. CASE u.type = "tool_use"
  <2>2. c.kind = "tool_use_delta"
    BY <1>1, <1>3
  <2>3. CASE f \in {"openai", "ollama"}
    <3>1. ChunkFromCanonical(f, c) = Chunk("delta", Each(LAMBDA b : [b EXCEPT !.type = "function"], c.parts))
      BY <2>2, <2>3 DEF ChunkFromCanonical, OpenAIChunkFromCanonical, OllamaChunkFromCanonical
    <3>2. Each(LAMBDA b : [b EXCEPT !.type = "function"], c.parts) = <<[u EXCEPT !.type = "function"]>>
      BY <1>1 DEF Each
    <3>3. Showing(f)[u] = [u EXCEPT !.type = "function"] /\ "delta" \in SaidKinds
      BY <1>3, <2>3 DEF Showing, SaidKinds
    <3>. QED BY <3>1, <3>2, <3>3 DEF c
  <2>4. CASE f = "anthropic" /\ u.name # ""
    <3>1. ChunkFromCanonical(f, c) = Chunk("tool_use_start", <<ToolUse(u.id, u.name, <<>>)>>)
      BY <1>1, <2>2, <2>4 DEF ChunkFromCanonical, AnthropicChunkFromCanonical
    <3>2. Showing(f)[u] = ToolUse(u.id, u.name, <<>>) /\ "tool_use_start" \in SaidKinds
      BY <1>3, <2>4 DEF Showing, SaidKinds
    <3>. QED BY <3>1, <3>2 DEF c
  <2>5. CASE f = "anthropic" /\ u.name = ""
    <3>1. ChunkFromCanonical(f, c) = Chunk("input_json_delta", <<u>>)
      BY <1>1, <2>2, <2>5 DEF ChunkFromCanonical, AnthropicChunkFromCanonical
    <3>2. Showing(f)[u] = u /\ "input_json_delta" \in SaidKinds
      BY <1>3, <2>5 DEF Showing, SaidKinds
    <3>. QED BY <3>1, <3>2 DEF c
  <2>6. CASE f = "gemini"
    <3>1. ChunkFromCanonical(f, c)
            = Chunk("delta", <<Block("functionCall", IF u.text = <<>> THEN Quote(<<>>) ELSE u.text,
                                     NoId, u.name)>>)
      BY <1>1, <2>2, <2>6 DEF ChunkFromCanonical, GeminiChunkFromCanonical
    <3>2. Showing(f)[u] = Block("functionCall", IF u.text = <<>> THEN Quote(<<>>) ELSE u.text, NoId, u.name)
          /\ "delta" \in SaidKinds
      BY <1>3, <2>6 DEF Showing, SaidKinds
    <3>. QED BY <3>1, <3>2 DEF c
  <2>. QED BY <2>3, <2>4, <2>5, <2>6 DEF ClientFormats
<1>. QED BY <1>1, <1>2, <1>3

(* The chunks that end a stream say nothing; only the last one may say it  *)
(* is done.                                                                *)
LEMMA EndReads ==
  ASSUME NEW p \in Formats, NEW i \in DOMAIN StreamEnd(p)
  PROVE  /\ ChunkToCanonical(p, StreamEnd(p)[i]) \in {Chunk("usage", <<>>), Chunk("done", <<>>), NoChunk}
         /\ ChunkToCanonical(p, StreamEnd(p)[i]).kind = "done" => i = Len(StreamEnd(p))
<1>0. /\ \A kind, x : Chunk(kind, x).kind = kind
      /\ Chunk("usage", <<>>).kind # "done" /\ NoChunk.kind # "done"
  BY DEF Chunk, NoChunk
<1>1. CASE p \in {"openai", "plain"}
  <2>1. StreamEnd(p) = <<Chunk("finish_reason", <<>>), Chunk("usage", <<>>), Chunk("[DONE]", <<>>)>>
    BY <1>1 DEF StreamEnd
  <2>2. \A c : ChunkToCanonical(p, c) = OpenAIChunkToCanonical(c)
    BY <1>1 DEF ChunkToCanonical
  <2>3. /\ \A c : c.kind = "finish_reason" => OpenAIChunkToCanonical(c) = NoChunk
        /\ \A c : c.kind = "usage" => OpenAIChunkToCanonical(c) = Chunk("usage", <<>>)
        /\ \A c : c.kind = "[DONE]" => OpenAIChunkToCanonical(c) = Chunk("done", <<>>)
    BY DEF OpenAIChunkToCanonical
  <2>4. /\ ChunkToCanonical(p, Chunk("finish_reason", <<>>)) = NoChunk
        /\ ChunkToCanonical(p, Chunk("usage", <<>>)) = Chunk("usage", <<>>)
        /\ ChunkToCanonical(p, Chunk("[DONE]", <<>>)) = Chunk("done", <<>>)
    BY <1>0, <2>2, <2>3
  <2>5. Len(StreamEnd(p)) = 3 /\ i \in 1 .. 3
    BY <2>1
  <2>6. i = 1 \/ i = 2 \/ i = 3
    BY <2>5
  <2>. QED BY <1>0, <2>1, <2>4, <2>5, <2>6
<1>2. CASE p = "anthropic"
  <2>1. StreamEnd(p) = <<Chunk("message_delta", <<>>), Chunk("message_stop", <<>>)>>
    BY <1>2 DEF StreamEnd
  <2>2. \A c : ChunkToCanonical(p, c) = AnthropicChunkToCanonical(c)
    BY <1>2 DEF ChunkToCanonical
  <2>3. /\ \A c : c.kind = "message_delta" => AnthropicChunkToCanonical(c) = Chunk("usage", <<>>)
        /\ \A c : c.kind = "message_stop" => AnthropicChunkToCanonical(c) = Chunk("done", <<>>)
    BY DEF AnthropicChunkToCanonical
  <2>4. /\ ChunkToCanonical(p, Chunk("message_delta", <<>>)) = Chunk("usage", <<>>)
        /\ ChunkToCanonical(p, Chunk("message_stop", <<>>)) = Chunk("done", <<>>)
    BY <1>0, <2>2, <2>3
  <2>5. Len(StreamEnd(p)) = 2 /\ i \in 1 .. 2
    BY <2>1
  <2>6. i = 1 \/ i = 2
    BY <2>5
  <2>. QED BY <1>0, <2>1, <2>4, <2>5, <2>6
<1>3. CASE p = "gemini"
  <2>1. StreamEnd(p) = <<Chunk("usage", <<>>), Chunk("finish", <<>>)>>
    BY <1>3 DEF StreamEnd
  <2>2. \A c : ChunkToCanonical(p, c) = GeminiChunkToCanonical(c)
    BY <1>3 DEF ChunkToCanonical
  <2>3. /\ \A c : c.kind = "usage" => GeminiChunkToCanonical(c) = Chunk("usage", <<>>)
        /\ \A c : c.kind = "finish" => GeminiChunkToCanonical(c) = Chunk("done", <<>>)
    BY DEF GeminiChunkToCanonical
  <2>4. /\ ChunkToCanonical(p, Chunk("usage", <<>>)) = Chunk("usage", <<>>)
        /\ ChunkToCanonical(p, Chunk("finish", <<>>)) = Chunk("done", <<>>)
    BY <1>0, <2>2, <2>3
  <2>5. Len(StreamEnd(p)) = 2 /\ i \in 1 .. 2
    BY <2>1
  <2>6. i = 1 \/ i = 2
    BY <2>5
  <2>. QED BY <1>0, <2>1, <2>4, <2>5, <2>6
<1>4. CASE p = "ollama"
  <2>1. StreamEnd(p) = <<Chunk("counts", <<>>)>>
    BY <1>4 DEF StreamEnd
  <2>2. \A c : ChunkToCanonical(p, c) = OllamaChunkToCanonical(c)
    BY <1>4 DEF ChunkToCanonical
  <2>3. \A c : c.kind = "counts" => OllamaChunkToCanonical(c) = Chunk("usage", <<>>)
    BY DEF OllamaChunkToCanonical
  <2>4. ChunkToCanonical(p, Chunk("counts", <<>>)) = Chunk("usage", <<>>)
    BY <1>0, <2>2, <2>3
  <2>5. i = 1
    BY <2>1
  <2>. QED BY <1>0, <2>1, <2>4, <2>5
<1>. QED BY <1>1, <1>2, <1>3, <1>4 DEF Formats

-----------------------------------------------------------------------------
(* What a client hears of a block, and of the whole answer.                *)
HeardOf(f) == [u \in CanonBlock |-> Pieces("assistant", Showing(f)[u])]

ToText == [x \in AnyPiece |-> IF x.kind = "thought" THEN [x EXCEPT !.kind = "text"] ELSE x]

Reshapes(f, p) ==
  \/ f = "anthropic" /\ p \in {"gemini", "ollama"}
  \/ f = "gemini" /\ p \notin {"gemini", "ollama"}

LEMMA PieceIs ==
  ASSUME NEW kind, NEW words
  PROVE  /\ Piece("assistant", kind, words).by = "assistant"
         /\ Piece("assistant", kind, words).kind = kind
         /\ Piece("assistant", kind, words).words = words
BY DEF Piece

LEMMA ToTextIs ==
  /\ Sends(ToText, AnyPiece, AnyPiece)
  /\ \A kind \in Kinds \ {"thought"}, words \in Seq(Token) :
       ToText[Piece("assistant", kind, words)] = Piece("assistant", kind, words)
  /\ \A words \in Seq(Token) :
       ToText[Piece("assistant", "thought", words)] = Piece("assistant", "text", words)
<1>1. ASSUME NEW x \in AnyPiece PROVE ToText[x] \in AnyPiece
  <2>1. "text" \in Kinds
    BY DEF Kinds
  <2>. QED BY <2>1 DEF ToText, AnyPiece
<1>2. ASSUME NEW kind \in Kinds \ {"thought"}, NEW words \in Seq(Token)
      PROVE  ToText[Piece("assistant", kind, words)] = Piece("assistant", kind, words)
  <2>1. Piece("assistant", kind, words) \in AnyPiece
    BY PieceType
  <2>2. Piece("assistant", kind, words).kind # "thought"
    BY PieceIs
  <2>. QED BY <2>1, <2>2 DEF ToText
<1>3. ASSUME NEW words \in Seq(Token)
      PROVE  ToText[Piece("assistant", "thought", words)] = Piece("assistant", "text", words)
  <2>0. "thought" \in Kinds
    BY DEF Kinds
  <2>1. Piece("assistant", "thought", words) \in AnyPiece
    BY <2>0, PieceType
  <2>2. ToText[Piece("assistant", "thought", words)]
          = [Piece("assistant", "thought", words) EXCEPT !.kind = "text"]
    BY <2>1, PieceIs DEF ToText
  <2>. QED BY <2>2 DEF Piece
<1>. QED BY <1>1, <1>2, <1>3 DEF Sends

(* Thoughts are words.                                                     *)
LEMMA AsText ==
  ASSUME NEW t \in Seq(Token)
  PROVE  /\ \A kind \in Kinds \ {"thought"} :
              Mapped(ToText, PerFragment("assistant", kind, t)) = PerFragment("assistant", kind, t)
         /\ Mapped(ToText, PerFragment("assistant", "thought", t)) = PerFragment("assistant", "text", t)
<1>1. ASSUME NEW w \in Token PROVE <<w>> \in Seq(Token)
  BY One
<1>2. ASSUME NEW kind
      PROVE  /\ DOMAIN PerFragment("assistant", kind, t) = DOMAIN t
             /\ \A i \in DOMAIN t : PerFragment("assistant", kind, t)[i] = Piece("assistant", kind, <<t[i]>>)
  BY DEF PerFragment
<1>3. \A i \in DOMAIN t : t[i] \in Token /\ <<t[i]>> \in Seq(Token)
  BY <1>1
<1>4. ASSUME NEW kind \in Kinds \ {"thought"}
      PROVE  Mapped(ToText, PerFragment("assistant", kind, t)) = PerFragment("assistant", kind, t)
  <2>1. \A i \in DOMAIN t : ToText[PerFragment("assistant", kind, t)[i]] = Piece("assistant", kind, <<t[i]>>)
    BY <1>2, <1>3, ToTextIs
  <2>. QED BY <1>2, <2>1 DEF Mapped, PerFragment
<1>5. Mapped(ToText, PerFragment("assistant", "thought", t)) = PerFragment("assistant", "text", t)
  <2>1. \A i \in DOMAIN t : ToText[PerFragment("assistant", "thought", t)[i]] = Piece("assistant", "text", <<t[i]>>)
    BY <1>2, <1>3, ToTextIs
  <2>. QED BY <1>2, <2>1 DEF Mapped, PerFragment
<1>. QED BY <1>4, <1>5

CallPieces(name, t) ==
  (IF name = "" THEN <<>> ELSE <<Piece("assistant", "call", <<name>>)>>)
    \o PerFragment("assistant", "arguments", t)

LEMMA PiecesOfCall ==
  ASSUME NEW d, d.type \in {"tool_use", "function", "functionCall"}
  PROVE  Pieces("assistant", d) = CallPieces(d.name, d.text)
BY DEF Pieces, CallPieces

LEMMA CallPiecesIs ==
  /\ \A t \in Seq(Token) : CallPieces("", t) = PerFragment("assistant", "arguments", t)
  /\ \A name \in Word : name # "" => CallPieces(name, <<>>) = <<Piece("assistant", "call", <<name>>)>>
  /\ \A name \in Word, t \in Seq(Token) :
       /\ name # "" => CallPieces(name, t) = <<Piece("assistant", "call", <<name>>)>>
                                              \o PerFragment("assistant", "arguments", t)
       /\ Mapped(ToText, CallPieces(name, t)) = CallPieces(name, t)
<1>2. ASSUME NEW t \in Seq(Token) PROVE PerFragment("assistant", "arguments", t) \in Seq(AnyPiece)
  <2>1. "arguments" \in Kinds
    BY DEF Kinds
  <2>. QED BY <2>1, FragmentsIs
<1>3. ASSUME NEW t \in Seq(Token) PROVE CallPieces("", t) = PerFragment("assistant", "arguments", t)
  <2>1. CallPieces("", t) = <<>> \o PerFragment("assistant", "arguments", t)
    BY DEF CallPieces
  <2>. QED BY <1>2, <2>1, ConcatEmptySeq
<1>4. ASSUME NEW name \in Word PROVE <<Piece("assistant", "call", <<name>>)>> \in Seq(AnyPiece)
  <2>1. name \in Token /\ "call" \in Kinds
    BY DEF Token, Kinds
  <2>2. <<name>> \in Seq(Token)
    BY <2>1, One
  <2>3. Piece("assistant", "call", <<name>>) \in AnyPiece
    BY <2>1, <2>2, PieceType
  <2>. QED BY <2>3, One
<1>5. ASSUME NEW name \in Word, name # ""
      PROVE  CallPieces(name, <<>>) = <<Piece("assistant", "call", <<name>>)>>
  <2>1. PerFragment("assistant", "arguments", <<>>) = <<>>
    BY DEF PerFragment
  <2>2. CallPieces(name, <<>>) = <<Piece("assistant", "call", <<name>>)>> \o <<>>
    BY <1>5, <2>1 DEF CallPieces
  <2>. QED BY <1>4, <2>2, ConcatEmptySeq
<1>6. ASSUME NEW name \in Word, NEW t \in Seq(Token)
      PROVE  Mapped(ToText, CallPieces(name, t)) = CallPieces(name, t)
  <2> DEFINE a == IF name = "" THEN <<>> ELSE <<Piece("assistant", "call", <<name>>)>>
             b == PerFragment("assistant", "arguments", t)
  <2>1. a \in Seq(AnyPiece) /\ b \in Seq(AnyPiece)
    <3>1. <<>> \in Seq(AnyPiece)
      OBVIOUS
    <3>. QED BY <1>2, <1>4, <3>1
  <2>2. Mapped(ToText, b) = b
    <3>1. "arguments" \in Kinds \ {"thought"}
      BY DEF Kinds
    <3>. QED BY <3>1, AsText
  <2>3. Mapped(ToText, a) = a
    <3>1. Mapped(ToText, <<>>) = <<>>
      BY MappedEmpty
    <3>2. Mapped(ToText, <<Piece("assistant", "call", <<name>>)>>) = <<Piece("assistant", "call", <<name>>)>>
      <4>1. name \in Token /\ "call" \in Kinds \ {"thought"}
        BY DEF Token, Kinds
      <4>2. <<name>> \in Seq(Token)
        BY <4>1, One
      <4>3. ToText[Piece("assistant", "call", <<name>>)] = Piece("assistant", "call", <<name>>)
        BY <4>1, <4>2, ToTextIs
      <4> DEFINE x == Piece("assistant", "call", <<name>>)
      <4> HIDE DEF x
      <4>4. ToText[x] = x
        BY <4>3 DEF x
      <4>5. Mapped(ToText, <<x>>) = <<x>>
        BY <4>4 DEF Mapped
      <4>. QED BY <4>5 DEF x
    <3>. QED BY <3>1, <3>2
  <2>4. CallPieces(name, t) = a \o b
    BY DEF CallPieces
  <2> HIDE DEF a, b
  <2>5. Mapped(ToText, a \o b) = Mapped(ToText, a) \o Mapped(ToText, b)
    BY <2>1, ToTextIs, MappedConcat
  <2>. QED BY <2>2, <2>3, <2>4, <2>5
<1>7. ASSUME NEW name \in Word, NEW t \in Seq(Token), name # ""
      PROVE  CallPieces(name, t) = <<Piece("assistant", "call", <<name>>)>>
                                     \o PerFragment("assistant", "arguments", t)
  BY <1>7 DEF CallPieces
<1>. QED BY <1>3, <1>5, <1>6, <1>7

LEMMA HeardSends ==
  ASSUME NEW f \in ClientFormats
  PROVE  Sends(HeardOf(f), CanonBlock, Seq(AnyPiece))
<1> SUFFICES ASSUME NEW u \in CanonBlock PROVE HeardOf(f)[u] \in Seq(AnyPiece)
  BY DEF Sends
<1>1. Showing(f)[u] \in AnyBlock
  BY Shows DEF Sends
<1>2. Pieces("assistant", Showing(f)[u]) \in Seq(AnyPiece)
  BY <1>1, PiecesType
<1>. QED BY <1>2 DEF HeardOf

LEMMA WordsHeard ==
  ASSUME NEW f \in ClientFormats, NEW t \in Seq(Token)
  PROVE  Spread(HeardOf(f), Mapped(TextPart, t)) = PerFragment("assistant", "text", t)
<1> DEFINE h == HeardOf(f)
           m == Fragment("text")
           c == [w \in Token |-> <<m[w]>>]
<1>0. "text" \in Kinds
  BY DEF Kinds
<1>1. ASSUME NEW w \in Token PROVE h[TextPart[w]] = <<m[w]>>
  <2>1. <<w>> \in Seq(Token)
    BY One
  <2>2. Text(<<w>>) \in CanonBlock /\ Text(<<w>>).type = "text" /\ Text(<<w>>).text = <<w>>
    BY <2>1, CanonText
  <2> DEFINE u == Text(<<w>>)
  <2>3. TextPart[w] = u
    BY DEF TextPart
  <2> HIDE DEF u
  <2>4. u \in CanonBlock /\ u.type = "text" /\ u.text = <<w>>
    BY <2>2 DEF u
  <2>5. Showing(f)[u] = u
    BY <2>4, Shows
  <2>6. h[u] = PerFragment("assistant", "text", <<w>>)
    BY <2>4, <2>5 DEF HeardOf, Pieces
  <2>7. PerFragment("assistant", "text", <<w>>) = <<Piece("assistant", "text", <<w>>)>>
    BY DEF PerFragment
  <2>. QED BY <2>3, <2>6, <2>7 DEF Fragment
<1>2. Through(c, h, TextPart, Token) /\ AsSingle(c, m, Token)
  BY <1>1 DEF Through, AsSingle
<1>3. Sends(TextPart, Token, CanonBlock) /\ Sends(m, Token, AnyPiece)
  BY <1>0, PartSends, FragmentSends
<1> HIDE DEF h, m, c
<1>4. Spread(h, Mapped(TextPart, t)) = Spread(c, t)
  BY <1>2, <1>3, SpreadMapped
<1>5. Spread(c, t) = Mapped(m, t)
  BY <1>2, <1>3, SpreadSingles
<1>. QED BY <1>0, <1>4, <1>5, FragmentsIs DEF h, m

LEMMA ArgumentsHeard ==
  ASSUME NEW f \in ClientFormats \ {"gemini"}, NEW t \in Seq(Token)
  PROVE  Spread(HeardOf(f), Mapped(CallPart, t)) = PerFragment("assistant", "arguments", t)
<1> DEFINE h == HeardOf(f)
           m == Fragment("arguments")
           c == [w \in Token |-> <<m[w]>>]
<1>0. "arguments" \in Kinds
  BY DEF Kinds
<1>1. ASSUME NEW w \in Token PROVE h[CallPart[w]] = <<m[w]>>
  <2>1. <<w>> \in Seq(Token)
    BY One
  <2> DEFINE u == ToolUse(NoId, "", <<w>>)
  <2>2. u \in CanonBlock /\ u.type = "tool_use" /\ u.text = <<w>> /\ u.name = ""
    <3>1. CallPart[w] \in CanonBlock /\ CallPart[w] = u
      BY PartSends DEF Sends, CallPart
    <3>2. u.type = "tool_use" /\ u.text = <<w>> /\ u.name = ""
      BY DEF ToolUse, Block
    <3>. QED BY <3>1, <3>2
  <2>3. CallPart[w] = u
    BY DEF CallPart
  <2> HIDE DEF u
  <2>4. /\ Showing(f)[u].type \in {"tool_use", "function", "functionCall"}
        /\ Showing(f)[u].name = "" /\ Showing(f)[u].text = <<w>>
    <3>1. /\ Showing(f)[u].type \in {"tool_use", "function", "functionCall"}
          /\ Showing(f)[u].name = u.name
      BY <2>2, ShownCall
    <3>2. f \in {"openai", "ollama"} \/ f = "anthropic"
      BY DEF ClientFormats
    <3>3. Showing(f)[u].text = u.text
      BY <2>2, <3>2, ShownCall
    <3>. QED BY <2>2, <3>1, <3>3
  <2>5. h[u] = CallPieces("", <<w>>)
    <3>1. h[u] = Pieces("assistant", Showing(f)[u])
      BY <2>2 DEF HeardOf
    <3> DEFINE v == Showing(f)[u]
    <3>2. v.type \in {"tool_use", "function", "functionCall"} /\ v.name = "" /\ v.text = <<w>>
      BY <2>4
    <3> HIDE DEF v, h
    <3>3. Pieces("assistant", v) = CallPieces(v.name, v.text)
      BY <3>2 DEF Pieces, CallPieces
    <3>. QED BY <3>1, <3>2, <3>3 DEF v
  <2>6. CallPieces("", <<w>>) = PerFragment("assistant", "arguments", <<w>>)
    BY <2>1, CallPiecesIs
  <2>7. PerFragment("assistant", "arguments", <<w>>) = <<Piece("assistant", "arguments", <<w>>)>>
    BY DEF PerFragment
  <2>. QED BY <2>3, <2>5, <2>6, <2>7 DEF Fragment
<1>2. Through(c, h, CallPart, Token) /\ AsSingle(c, m, Token)
  BY <1>1 DEF Through, AsSingle
<1>3. Sends(CallPart, Token, CanonBlock) /\ Sends(m, Token, AnyPiece)
  BY <1>0, PartSends, FragmentSends
<1> HIDE DEF h, m, c
<1>4. Spread(h, Mapped(CallPart, t)) = Spread(c, t)
  BY <1>2, <1>3, SpreadMapped
<1>5. Spread(c, t) = Mapped(m, t)
  BY <1>2, <1>3, SpreadSingles
<1>. QED BY <1>0, <1>4, <1>5, FragmentsIs DEF h, m

(* The client hears of a block what it says, unless the block is a call    *)
(* that the client's format cannot be told as the provider tells it.       *)
HeardBlock(p, f) == {b \in TellBlock(p) : Reshapes(f, p) => b.type # "tool_use"}

ToldOf(p) == [b \in TellBlock(p) |-> Mapped(ToText, Sayer[b])]

LEMMA CallHeard ==
  ASSUME NEW f \in ClientFormats, NEW u \in CanonBlock, u.type = "tool_use",
         \/ f \in {"openai", "ollama"} \/ (f = "anthropic" /\ u.name = "")
         \/ (f = "gemini" /\ u.text # <<>>) \/ (f = "anthropic" /\ u.text = <<>>)
  PROVE  HeardOf(f)[u] = CallPieces(u.name, u.text)
<1> DEFINE v == Showing(f)[u]
<1>1. v.type \in {"tool_use", "function", "functionCall"} /\ v.name = u.name /\ v.text = u.text
  BY ShownCall
<1>2. HeardOf(f)[u] = Pieces("assistant", v)
  BY DEF HeardOf
<1> HIDE DEF v
<1>3. Pieces("assistant", v) = CallPieces(v.name, v.text)
  BY <1>1 DEF Pieces, CallPieces
<1>. QED BY <1>1, <1>2, <1>3

LEMMA BlockHeard ==
  ASSUME NEW p \in Formats, NEW f \in ClientFormats, NEW b \in HeardBlock(p, f)
  PROVE  Spread(HeardOf(f), Canon(p)[b]) = ToldOf(p)[b]
<1>0. /\ b \in AnyBlock /\ b.text \in Seq(Token) /\ b.id \in Id /\ b.name \in Name
      /\ b.type \in {"text", "tool_use", "thinking"}
      /\ b.type = "tool_use" => b.name # "" /\ b.name \in Word /\ b.text # <<>>
      /\ b.type = "tool_use" => ~Reshapes(f, p)
      /\ b \in TellBlock(p)
  BY TellIs DEF HeardBlock
<1>1. ToldOf(p)[b] = Mapped(ToText, Pieces("assistant", b))
  BY <1>0 DEF ToldOf, Sayer
<1>2. CASE b.type # "tool_use"
  <2>1. Canon(p)[b] = Mapped(TextPart, b.text)
    BY <1>0, <1>2 DEF Canon
  <2>2. Spread(HeardOf(f), Mapped(TextPart, b.text)) = PerFragment("assistant", "text", b.text)
    BY <1>0, WordsHeard
  <2>3. Pieces("assistant", b) = PerFragment("assistant", IF b.type = "text" THEN "text" ELSE "thought", b.text)
    BY <1>0, <1>2 DEF Pieces
  <2>4. "text" \in Kinds \ {"thought"}
    BY DEF Kinds
  <2>5. Mapped(ToText, Pieces("assistant", b)) = PerFragment("assistant", "text", b.text)
    BY <1>0, <2>3, <2>4, AsText
  <2>. QED BY <1>1, <2>1, <2>2, <2>5
<1>3. ASSUME b.type = "tool_use" PROVE ToldOf(p)[b] = CallPieces(b.name, b.text)
  <2>1. Pieces("assistant", b) = CallPieces(b.name, b.text)
    BY <1>3 DEF Pieces, CallPieces
  <2>2. Mapped(ToText, CallPieces(b.name, b.text)) = CallPieces(b.name, b.text)
    BY <1>0, <1>3, CallPiecesIs
  <2>. QED BY <1>1, <2>1, <2>2
<1>4. CASE b.type = "tool_use" /\ p \in {"anthropic", "openai", "plain"}
  <2> DEFINE e == <<>>
             u == ToolUse(b.id, b.name, e)
             a == Mapped(CallPart, b.text)
             h == HeardOf(f)
  <2>1. Canon(p)[b] = <<u>> \o a
    BY <1>0, <1>4 DEF Canon
  <2>2. f \in {"openai", "ollama", "anthropic"} /\ f \in ClientFormats \ {"gemini"}
    BY <1>0, <1>4 DEF Reshapes, ClientFormats
  <2>3. e \in Seq(Token)
    OBVIOUS
  <2>4. CallPieces(b.name, e) = <<Piece("assistant", "call", <<b.name>>)>>
    BY <1>0, <1>4, CallPiecesIs
  <2>5. e = <<>>
    OBVIOUS
  <2> HIDE DEF e
  <2>6. u \in CanonBlock /\ u.type = "tool_use" /\ u.text = e /\ u.name = b.name
    <3>1. b.id \in Id /\ b.name \in Name
      BY <1>0
    <3>2. ToolUse(b.id, b.name, e) \in CanonBlock
      BY <2>3, <3>1, CanonCall
    <3>3. /\ ToolUse(b.id, b.name, e).type = "tool_use" /\ ToolUse(b.id, b.name, e).text = e
          /\ ToolUse(b.id, b.name, e).name = b.name
      BY DEF ToolUse, Block
    <3>. QED BY <3>2, <3>3
  <2> HIDE DEF u
  <2>7. h[u] = CallPieces(b.name, e)
    <3>1. h[u] = CallPieces(u.name, u.text)
      BY <2>2, <2>5, <2>6, CallHeard
    <3>. QED BY <2>6, <3>1
  <2>8. Sends(h, CanonBlock, Seq(AnyPiece)) /\ <<u>> \in Seq(CanonBlock) /\ a \in Seq(CanonBlock)
    <3>1. a \in Seq(CanonBlock)
      BY <1>0, PartSends, MappedType
    <3>2. <<u>> \in Seq(CanonBlock)
      BY <2>6, One
    <3>. QED BY <3>1, <3>2, HeardSends
  <2>9. Spread(h, a) = PerFragment("assistant", "arguments", b.text)
    BY <1>0, <2>2, ArgumentsHeard
  <2> HIDE DEF a, h
  <2>10. Spread(h, <<u>> \o a) = Spread(h, <<u>>) \o Spread(h, a)
    <3> DEFINE w == <<u>>
               X == CanonBlock
               Y == AnyPiece
    <3>1. Sends(h, X, Seq(Y)) /\ w \in Seq(X) /\ a \in Seq(X)
      BY <2>8
    <3> HIDE DEF w, X, Y
    <3>2. Spread(h, w \o a) = Spread(h, w) \o Spread(h, a)
      BY <3>1, SpreadConcat
    <3>. QED BY <3>2 DEF w
  <2>11. Spread(h, <<u>>) = h[u]
    BY <2>6, <2>8, SpreadOne
  <2>12. CallPieces(b.name, b.text) = <<Piece("assistant", "call", <<b.name>>)>>
                                        \o PerFragment("assistant", "arguments", b.text)
    BY <1>0, <1>4, CallPiecesIs
  <2>. QED BY <1>3, <1>4, <2>1, <2>4, <2>7, <2>9, <2>10, <2>11, <2>12 DEF h
<1>5. CASE b.type = "tool_use" /\ p \in {"gemini", "ollama"}
  <2> DEFINE id == IF p = "ollama" THEN b.id ELSE GeminiId(b.name, 1)
             u == ToolUse(id, b.name, b.text)
             h == HeardOf(f)
  <2>1. Canon(p)[b] = <<u>>
    BY <1>0, <1>5 DEF Canon
  <2>2. f \in {"openai", "ollama", "gemini"}
    BY <1>0, <1>5 DEF Reshapes, ClientFormats
  <2>3. id \in Id
    <3>1. GeminiId(b.name, 1) = <<b.name, 0>>
      BY DEF GeminiId
    <3>2. <<b.name, 0>> \in Word \X Int
      <4>1. b.name \in Word
        BY <1>0, <1>5
      <4>. QED BY <4>1
    <3>. QED BY <1>0, <3>1, <3>2 DEF Id, Name
  <2> HIDE DEF id
  <2>4. u \in CanonBlock /\ u.type = "tool_use" /\ u.text = b.text /\ u.name = b.name
    <3>1. b.text \in Seq(Token) /\ b.name \in Name
      BY <1>0
    <3>2. ToolUse(id, b.name, b.text) \in CanonBlock
      BY <2>3, <3>1, CanonCall
    <3>3. /\ ToolUse(id, b.name, b.text).type = "tool_use" /\ ToolUse(id, b.name, b.text).text = b.text
          /\ ToolUse(id, b.name, b.text).name = b.name
      BY DEF ToolUse, Block
    <3>. QED BY <3>2, <3>3
  <2> HIDE DEF u
  <2>5. h[u] = CallPieces(b.name, b.text)
    <3>1. h[u] = CallPieces(u.name, u.text)
      BY <1>0, <1>5, <2>2, <2>4, CallHeard
    <3>. QED BY <2>4, <3>1
  <2>6. Sends(h, CanonBlock, Seq(AnyPiece))
    BY HeardSends
  <2> HIDE DEF h
  <2>7. Spread(h, <<u>>) = h[u]
    BY <2>4, <2>6, SpreadOne
  <2>. QED BY <1>3, <1>5, <2>1, <2>5, <2>7 DEF h
<1>. QED BY <1>2, <1>4, <1>5 DEF Formats

(* A stream is heard as what the provider says.                            *)
Told(p, s) == Spread(ToldOf(p), s)

LEMMA StreamHeard ==
  ASSUME NEW p \in Formats, NEW f \in ClientFormats, NEW s \in Seq(HeardBlock(p, f))
  PROVE  Spread(HeardOf(f), Canonical(p, s)) = Told(p, s)
<1> DEFINE X == HeardBlock(p, f)
           g == Canon(p)
           h == HeardOf(f)
           c == ToldOf(p)
<1>1. ASSUME NEW b \in X PROVE c[b] = Spread(h, g[b]) /\ g[b] \in Seq(CanonBlock)
  <2>1. b \in TellBlock(p)
    BY DEF HeardBlock
  <2>2. g[b] \in Seq(CanonBlock)
    BY <2>1, CutReads DEF ReadTo
  <2>. QED BY <2>2, BlockHeard
<1>2. Sends(h, CanonBlock, Seq(AnyPiece))
  BY HeardSends
<1>3. s \in Seq(X)
  OBVIOUS
<1> HIDE DEF X, g, h, c
<1>4. InTwoSteps(c, g, h, X) /\ Sends(g, X, Seq(CanonBlock))
  BY <1>1 DEF InTwoSteps, Sends
<1>5. Spread(h, Spread(g, s)) = Spread(c, s)
  BY <1>2, <1>3, <1>4, SpreadSpread
<1>. QED BY <1>5 DEF Canonical, Told, g, h, c

(* What Conversation calls Streamed is what is told.                       *)
LEMMA StreamedIs ==
  ASSUME NEW p \in Formats, NEW s \in Seq(TellBlock(p))
  PROVE  /\ Mapped(ToText, AllPieces("assistant", s)) = Told(p, s)
         /\ AllPieces("assistant", s) \in Seq(AnyPiece)
<1> DEFINE X == TellBlock(p)
           g == Sayer
           c == ToldOf(p)
<1>1. \A b \in X : b \in AnyBlock
  BY DEF TellBlock
<1>2. s \in Seq(AnyBlock)
  BY <1>1
<1>3. AllPieces("assistant", s) = Spread(g, s) /\ Spread(g, s) \in Seq(AnyPiece)
  BY <1>2, AsSpreads, Senders, SpreadType
<1>4. \A b \in X : g[b] \in Seq(AnyPiece) /\ c[b] = Mapped(ToText, g[b])
  BY <1>1, Senders DEF Sends, ToldOf
<1>5. s \in Seq(X)
  OBVIOUS
<1>6. Sends(ToText, AnyPiece, AnyPiece)
  BY ToTextIs
<1> HIDE DEF X, g, c
<1>7. MapsEach(c, g, ToText, X) /\ Sends(g, X, Seq(AnyPiece))
  BY <1>4 DEF MapsEach, Sends
<1>8. Mapped(ToText, Spread(g, s)) = Spread(c, s)
  BY <1>5, <1>6, <1>7, MappedSpread
<1>. QED BY <1>3, <1>8 DEF Told, c, g

(* Of the blocks a client was shown it hears the pieces.                   *)
LEMMA ShownHeard ==
  ASSUME NEW f \in ClientFormats, NEW k \in Seq(CanonBlock)
  PROVE  AllPieces("assistant", Mapped(Showing(f), k)) = Spread(HeardOf(f), k)
<1> DEFINE m == Showing(f)
           c == HeardOf(f)
<1>1. Sends(m, CanonBlock, AnyBlock)
  BY Shows
<1>2. \A u \in CanonBlock : c[u] = Sayer[m[u]]
  BY <1>1 DEF Sends, HeardOf, Sayer
<1> HIDE DEF m, c
<1>3. Through(c, Sayer, m, CanonBlock)
  BY <1>2 DEF Through
<1>4. Spread(Sayer, Mapped(m, k)) = Spread(c, k)
  BY <1>1, <1>3, SpreadMapped
<1>5. Mapped(m, k) \in Seq(AnyBlock)
  BY <1>1, MappedType
<1>6. AllPieces("assistant", Mapped(m, k)) = Spread(Sayer, Mapped(m, k))
  BY <1>5, AsSpreads
<1>. QED BY <1>4, <1>6 DEF m, c

-----------------------------------------------------------------------------
(* What the client was sent of a stream: its parts are what the client is  *)
(* shown of a beginning of the canonical blocks; it is told the stream is  *)
(* done only after all of them.                                            *)
OutKinds == SaidKinds \cup {"[DONE]", "message_stop", "usage", "counts"}
OutChunk == [kind : OutKinds, parts : Seq(AnyBlock)]
Parter == [c \in OutChunk |-> c.parts]

Done(out) == out # <<>> /\ Last(out).kind \in {"[DONE]", "message_stop"}

SoFar(f, out, a, b) ==
  /\ out \in Seq(OutChunk)
  /\ PartsOf(out) = Mapped(Showing(f), a)
  /\ Done(out) => b = <<>>

Relayed(p, f, s, out) ==
  \E a, b \in Seq(CanonBlock) : a \o b = Canonical(p, s) /\ SoFar(f, out, a, b)

(* What the proxy has still to read: the chunks of the rest, and some of   *)
(* those that end the stream.                                              *)
Flowing(p, f, s, in, out) ==
  \E a, b \in Seq(CanonBlock), t \in Seq(ReadChunk(p)), e \in Seq(Range(StreamEnd(p))) :
    /\ a \o b = Canonical(p, s) /\ SoFar(f, out, a, b)
    /\ ReadTo(p, t, b) /\ in = t \o e

LEMMA FlowingRelayed ==
  ASSUME NEW p, NEW f, NEW s, NEW in, NEW out, Flowing(p, f, s, in, out)
  PROVE  Relayed(p, f, s, out)
BY DEF Flowing, Relayed

LEMMA PartsOfIs ==
  /\ PartsOf(<<>>) = <<>>
  /\ \A out \in Seq(OutChunk), c \in OutChunk : PartsOf(Append(out, c)) = PartsOf(out) \o c.parts
  /\ \A out \in Seq(OutChunk) : PartsOf(out) \in Seq(AnyBlock)
<1>1. Sends(Parter, OutChunk, Seq(AnyBlock))
  BY DEF Sends, Parter, OutChunk
<1>2. ASSUME NEW out \in Seq(OutChunk) PROVE PartsOf(out) = Spread(Parter, out)
  <2>1. \A i \in DOMAIN out : out[i] \in OutChunk
    OBVIOUS
  <2>2. [i \in DOMAIN out |-> out[i].parts] = Mapped(Parter, out)
    BY <2>1 DEF Mapped, Parter
  <2>. QED BY <2>2 DEF PartsOf, FlatMap, Each, Spread
<1>3. PartsOf(<<>>) = <<>>
  <2>1. <<>> \in Seq(OutChunk)
    OBVIOUS
  <2> DEFINE none == <<>>
  <2> HIDE DEF none
  <2>2. PartsOf(none) = Spread(Parter, none)
    BY <1>2, <2>1 DEF none
  <2>3. Spread(Parter, <<>>) = <<>>
    BY SpreadEmpty
  <2>. QED BY <2>2, <2>3 DEF none
<1>4. ASSUME NEW out \in Seq(OutChunk), NEW c \in OutChunk
      PROVE  PartsOf(Append(out, c)) = PartsOf(out) \o c.parts
  <2>1. Append(out, c) \in Seq(OutChunk)
    OBVIOUS
  <2>2. PartsOf(Append(out, c)) = Spread(Parter, Append(out, c)) /\ PartsOf(out) = Spread(Parter, out)
    BY <1>2, <2>1
  <2>3. Spread(Parter, Append(out, c)) = Spread(Parter, out) \o Parter[c]
    BY <1>1, SpreadAppend
  <2>. QED BY <2>2, <2>3 DEF Parter
<1>5. ASSUME NEW out \in Seq(OutChunk) PROVE PartsOf(out) \in Seq(AnyBlock)
  BY <1>1, <1>2, SpreadType
<1>. QED BY <1>3, <1>4, <1>5

LEMMA HeadTail ==
  ASSUME NEW X, NEW s \in Seq(X), s # <<>>, NEW r \in Seq(X)
  PROVE  /\ Head(s) \in X /\ Head(s) = s[1] /\ Tail(s) \in Seq(X)
         /\ Append(r, Head(s)) \o Tail(s) = r \o s
         /\ Head(s \o r) = Head(s) /\ Tail(s \o r) = Tail(s) \o r
<1>1. Head(s) \in X /\ Head(s) = s[1] /\ Tail(s) \in Seq(X) /\ Len(s) >= 1 /\ Len(Tail(s)) = Len(s) - 1
      /\ \A i \in 1 .. Len(s) - 1 : Tail(s)[i] = s[i + 1]
  OBVIOUS
<1>2. Append(r, Head(s)) \o Tail(s) = r \o s
  <2> DEFINE u == Append(r, Head(s)) \o Tail(s)
             v == r \o s
  <2>1. u \in Seq(X) /\ v \in Seq(X) /\ Len(u) = Len(r) + Len(s) /\ Len(v) = Len(r) + Len(s)
    BY <1>1
  <2>2. \A i \in 1 .. Len(r) + Len(s) : u[i] = v[i]
    BY <1>1
  <2> HIDE DEF u, v
  <2>3. u = v
    BY <2>1, <2>2
  <2>. QED BY <2>3 DEF u, v
<1>3. Head(s \o r) = Head(s)
  BY <1>1
<1>4. Tail(s \o r) = Tail(s) \o r
  <2> DEFINE w == s \o r
             u == Tail(w)
             v == Tail(s) \o r
  <2>1. w \in Seq(X) /\ Len(w) = Len(s) + Len(r) /\ w # <<>>
    BY <1>1
  <2>2. \A i \in 1 .. Len(s) + Len(r) : w[i] = IF i <= Len(s) THEN s[i] ELSE r[i - Len(s)]
    BY <1>1
  <2>3. v \in Seq(X) /\ Len(v) = Len(s) + Len(r) - 1
    BY <1>1
  <2>4. \A i \in 1 .. Len(s) + Len(r) - 1 : v[i] = IF i <= Len(s) - 1 THEN s[i + 1] ELSE r[i - (Len(s) - 1)]
    BY <1>1
  <2> HIDE DEF w
  <2>5. u \in Seq(X) /\ Len(u) = Len(s) + Len(r) - 1
        /\ \A i \in 1 .. Len(s) + Len(r) - 1 : u[i] = w[i + 1]
    BY <2>1
  <2>6. \A i \in 1 .. Len(s) + Len(r) - 1 : u[i] = v[i]
    <3> SUFFICES ASSUME NEW i \in 1 .. Len(s) + Len(r) - 1 PROVE u[i] = v[i]
      OBVIOUS
    <3>1. i + 1 \in 1 .. Len(s) + Len(r)
      BY <1>1
    <3>2. u[i] = IF i + 1 <= Len(s) THEN s[i + 1] ELSE r[i + 1 - Len(s)]
      BY <2>2, <2>5, <3>1
    <3>3. v[i] = IF i <= Len(s) - 1 THEN s[i + 1] ELSE r[i - (Len(s) - 1)]
      BY <2>4
    <3> HIDE DEF u, v
    <3>. QED BY <1>1, <3>2, <3>3
  <2> HIDE DEF u, v
  <2>7. u = v
    BY <2>3, <2>5, <2>6
  <2>. QED BY <2>7 DEF u, v, w
<1>. QED BY <1>1, <1>2, <1>3, <1>4

LEMMA FlowStarts ==
  ASSUME NEW p \in Formats, NEW f \in ClientFormats, NEW s \in Seq(TellBlock(p))
  PROVE  Flowing(p, f, s, StreamAnswer(p, s), <<>>)
<1> DEFINE b == Canonical(p, s)
           t == Chunks(p, s)
           e == StreamEnd(p)
           a == <<>>
           out == <<>>
<1>1. StreamAnswer(p, s) = t \o e /\ ReadTo(p, t, b)
  BY StreamReads
<1>2. t \in Seq(ReadChunk(p)) /\ b \in Seq(CanonBlock)
  BY <1>1 DEF ReadTo
<1>3. e \in Seq(Range(StreamEnd(p)))
  <2> DEFINE X == {Chunk("finish_reason", <<>>), Chunk("usage", <<>>), Chunk("[DONE]", <<>>),
                   Chunk("message_delta", <<>>), Chunk("message_stop", <<>>),
                   Chunk("finish", <<>>), Chunk("counts", <<>>)}
  <2>0. /\ \A x, y, z \in X : <<x, y, z>> \in Seq(X)
        /\ \A x, y \in X : <<x, y>> \in Seq(X)
        /\ \A x \in X : <<x>> \in Seq(X)
    <3> HIDE DEF X
    <3>. QED OBVIOUS
  <2>1. e \in Seq(X)
    <3>1. CASE p \in {"openai", "plain"}
      BY <2>0, <3>1 DEF StreamEnd
    <3>2. CASE p = "anthropic"
      BY <2>0, <3>2 DEF StreamEnd
    <3>3. CASE p = "gemini"
      BY <2>0, <3>3 DEF StreamEnd
    <3>4. CASE p = "ollama"
      BY <2>0, <3>4 DEF StreamEnd
    <3>. QED BY <3>1, <3>2, <3>3, <3>4 DEF Formats
  <2> HIDE DEF X
  <2>. QED BY <2>1, Ranged DEF IsSequence
<1>4. a \in Seq(CanonBlock) /\ out \in Seq(OutChunk)
  OBVIOUS
<1>5. a \o b = b
  BY <1>2, ConcatEmptySeq
<1>6. SoFar(f, out, a, b)
  <2>1. PartsOf(out) = Mapped(Showing(f), a)
    BY PartsOfIs, MappedEmpty
  <2>2. ~Done(out)
    BY DEF Done
  <2>. QED BY <1>4, <2>1, <2>2 DEF SoFar
<1> HIDE DEF a, b, t, e, out
<1>7. a \o b = Canonical(p, s)
  BY <1>5 DEF b
<1>8. Flowing(p, f, s, t \o e, out)
  BY <1>1, <1>2, <1>3, <1>4, <1>6, <1>7 DEF Flowing
<1>. QED BY <1>1, <1>8 DEF out

(* What the relay writes of a chunk it has read.                           *)
Written(f, c) ==
  IF c.kind = "null" THEN NoChunk
  ELSE IF c.kind = "done" THEN Chunk(IF f = "anthropic" THEN "message_stop" ELSE "[DONE]", <<>>)
  ELSE ChunkFromCanonical(f, c)

With(out, c) == IF c.kind # "null" THEN Append(out, c) ELSE out

LEMMA EndWritten ==
  ASSUME NEW f \in ClientFormats, NEW c, c \in {Chunk("usage", <<>>), Chunk("done", <<>>), NoChunk},
         Written(f, c).kind # "null"
  PROVE  Written(f, c) \in OutChunk /\ Written(f, c).parts = <<>>
<1>0. \A kind \in OutKinds : Chunk(kind, <<>>) \in OutChunk /\ Chunk(kind, <<>>).parts = <<>>
  <2>1. <<>> \in Seq(AnyBlock)
    OBVIOUS
  <2>. QED BY <2>1 DEF Chunk, OutChunk
<1>1. c.kind \in {"usage", "done"}
  <2>1. NoChunk.kind = "null" /\ Chunk("usage", <<>>).kind = "usage" /\ Chunk("done", <<>>).kind = "done"
    BY DEF NoChunk, Chunk
  <2>2. c # NoChunk
    BY <2>1 DEF Written
  <2>. QED BY <2>1, <2>2
<1>2. CASE c.kind = "done"
  <2>1. "message_stop" \in OutKinds /\ "[DONE]" \in OutKinds
    BY DEF OutKinds
  <2>2. Written(f, c) = Chunk(IF f = "anthropic" THEN "message_stop" ELSE "[DONE]", <<>>)
    BY <1>2 DEF Written
  <2>. QED BY <1>0, <2>1, <2>2
<1>3. CASE c.kind = "usage"
  <2>1. Written(f, c) = ChunkFromCanonical(f, c)
    BY <1>3 DEF Written
  <2>2. "usage" \in OutKinds /\ "counts" \in OutKinds
    BY DEF OutKinds
  <2>3. CASE f = "openai"
    <3>1. Written(f, c) = Chunk("usage", <<>>)
      BY <1>3, <2>1, <2>3 DEF ChunkFromCanonical, OpenAIChunkFromCanonical
    <3>. QED BY <1>0, <2>2, <3>1
  <2>4. CASE f = "ollama"
    <3>1. Written(f, c) = Chunk("counts", <<>>)
      BY <1>3, <2>1, <2>4 DEF ChunkFromCanonical, OllamaChunkFromCanonical
    <3>. QED BY <1>0, <2>2, <3>1
  <2>5. CASE f = "gemini"
    <3>1. Written(f, c) = Chunk("usage", <<>>)
      BY <1>3, <2>1, <2>5 DEF ChunkFromCanonical, GeminiChunkFromCanonical
    <3>. QED BY <1>0, <2>2, <3>1
  <2>6. CASE f = "anthropic"
    <3>1. Written(f, c) = NoChunk
      BY <1>3, <2>1, <2>6 DEF ChunkFromCanonical, AnthropicChunkFromCanonical
    <3>. QED BY <3>1 DEF NoChunk, Chunk
  <2>. QED BY <2>3, <2>4, <2>5, <2>6 DEF ClientFormats
<1>. QED BY <1>1, <1>2, <1>3

LEMMA SoFarEnd ==
  ASSUME NEW f \in ClientFormats, NEW out, NEW a, NEW b, SoFar(f, out, a, b), b = <<>>,
         NEW c, c \in {Chunk("usage", <<>>), Chunk("done", <<>>), NoChunk}
  PROVE  SoFar(f, With(out, Written(f, c)), a, b)
<1> DEFINE w == Written(f, c)
<1>1. CASE w.kind = "null"
  BY <1>1 DEF With
<1>2. CASE w.kind # "null"
  <2>1. w \in OutChunk /\ w.parts = <<>>
    BY <1>2, EndWritten
  <2> HIDE DEF w
  <2>2. out \in Seq(OutChunk) /\ PartsOf(out) = Mapped(Showing(f), a)
    BY DEF SoFar
  <2>3. With(out, w) = Append(out, w) /\ Append(out, w) \in Seq(OutChunk)
    BY <1>2, <2>1, <2>2 DEF With
  <2>4. PartsOf(Append(out, w)) = PartsOf(out) \o w.parts /\ PartsOf(out) \in Seq(AnyBlock)
    BY <2>1, <2>2, PartsOfIs
  <2>5. PartsOf(Append(out, w)) = PartsOf(out)
    BY <2>1, <2>4, ConcatEmptySeq
  <2>6. SoFar(f, With(out, w), a, b)
    BY <2>2, <2>3, <2>5 DEF SoFar
  <2>. QED BY <2>6 DEF w
<1>. QED BY <1>1, <1>2

LEMMA SoFarMore ==
  ASSUME NEW f \in ClientFormats, NEW out, NEW a \in Seq(CanonBlock), NEW b, SoFar(f, out, a, b),
         NEW u \in CanonBlock, NEW d
  PROVE  SoFar(f, With(out, Written(f, AsChunk(u))), Append(a, u), d)
<1> DEFINE c == AsChunk(u)
           v == Showing(f)[u]
           w == Written(f, c)
<1>1. c.kind # "null" /\ c.kind # "done"
  BY DEF AsChunk, Chunk
<1>2. w = ChunkFromCanonical(f, c)
  BY <1>1 DEF Written
<1> HIDE DEF c
<1>3. PICK kind \in SaidKinds : w = Chunk(kind, <<v>>)
  BY <1>2, Writes DEF c
<1>4. v \in AnyBlock
  BY Shows DEF Sends
<1> HIDE DEF v, w
<1>5. <<v>> \in Seq(AnyBlock)
  BY <1>4
<1>6. w \in OutChunk /\ w.parts = <<v>> /\ w.kind \in SaidKinds
  BY <1>3, <1>5 DEF OutChunk, Chunk, OutKinds
<1>7. out \in Seq(OutChunk) /\ PartsOf(out) = Mapped(Showing(f), a)
  BY DEF SoFar
<1>8. With(out, w) = Append(out, w) /\ Append(out, w) \in Seq(OutChunk)
  BY <1>6, <1>7 DEF With, SaidKinds
<1>9. PartsOf(Append(out, w)) = PartsOf(out) \o <<v>> /\ PartsOf(out) \in Seq(AnyBlock)
  BY <1>6, <1>7, PartsOfIs
<1>10. PartsOf(out) \o <<v>> = Append(PartsOf(out), v)
  BY <1>4, <1>9, AppendIsConcat
<1>11. Sends(Showing(f), CanonBlock, AnyBlock)
  BY Shows
<1>12. Mapped(Showing(f), Append(a, u)) = Append(Mapped(Showing(f), a), v)
  BY <1>11, MappedAppend DEF v
<1>13. ~Done(Append(out, w))
  <2>1. Last(Append(out, w)) = w
    <3>1. Len(Append(out, w)) = Len(out) + 1 /\ Append(out, w)[Len(out) + 1] = w
      BY <1>6, <1>7
    <3>. QED BY <3>1 DEF Last
  <2>. QED BY <1>6, <2>1 DEF Done, SaidKinds
<1>14. SoFar(f, With(out, w), Append(a, u), d)
  BY <1>7, <1>8, <1>9, <1>10, <1>12, <1>13 DEF SoFar
<1>. QED BY <1>14 DEF w, c

LEMMA FlowsOn ==
  ASSUME NEW p \in Formats, NEW f \in ClientFormats, NEW s, NEW in, NEW out,
         Flowing(p, f, s, in, out), in # <<>>,
         NEW c, c = ChunkToCanonical(p, Head(in))
  PROVE  /\ Relayed(p, f, s, With(out, Written(f, c)))
         /\ c.kind # "done" => Flowing(p, f, s, Tail(in), With(out, Written(f, c)))
<1>1. PICK a \in Seq(CanonBlock), b \in Seq(CanonBlock), t \in Seq(ReadChunk(p)),
           e \in Seq(Range(StreamEnd(p))) :
        /\ a \o b = Canonical(p, s) /\ SoFar(f, out, a, b)
        /\ ReadTo(p, t, b) /\ in = t \o e
  BY DEF Flowing
<1> DEFINE X == ReadChunk(p)
           E == Range(StreamEnd(p))
           o == With(out, Written(f, c))
<1>2. t \in Seq(X) /\ e \in Seq(E) /\ b \in Seq(CanonBlock) /\ Mapped(Reading(p), t) = b
  BY <1>1 DEF ReadTo
<1>3. CASE t = <<>>
  <2>1. in = e /\ e # <<>>
    <3> HIDE DEF E
    <3>1. <<>> \o e = e
      BY <1>2, ConcatEmptySeq
    <3>. QED BY <1>1, <1>3, <3>1
  <2>2. b = <<>>
    BY <1>2, <1>3, MappedEmpty
  <2>3. Head(e) \in E /\ Tail(e) \in Seq(E)
    <3> HIDE DEF E
    <3>. QED BY <1>2, <2>1
  <2>4. PICK i \in DOMAIN StreamEnd(p) : Head(e) = StreamEnd(p)[i]
    BY <2>3 DEF Range
  <2>5. c \in {Chunk("usage", <<>>), Chunk("done", <<>>), NoChunk}
    BY <2>1, <2>4, EndReads
  <2>6. SoFar(f, o, a, b)
    BY <1>1, <2>2, <2>5, SoFarEnd
  <2>7. Tail(in) = t \o Tail(e)
    <3> HIDE DEF E
    <3>1. <<>> \o Tail(e) = Tail(e)
      BY <2>3, ConcatEmptySeq
    <3>. QED BY <1>3, <2>1, <3>1
  <2> HIDE DEF o
  <2>8. Flowing(p, f, s, Tail(in), o)
    BY <1>1, <2>3, <2>6, <2>7 DEF Flowing
  <2>. QED BY <2>8, FlowingRelayed DEF o
<1>4. CASE t # <<>>
  <2> DEFINE h == Head(t)
             r == Tail(t)
             W == X \cup E
             u == Reading(p)[h]
  <2>1. h \in X /\ r \in Seq(X) /\ h = t[1]
    <3> HIDE DEF X
    <3>. QED BY <1>2, <1>4
  <2>2. Head(in) = h /\ Tail(in) = r \o e
    <3> HIDE DEF X, E
    <3>1. t \in Seq(W) /\ e \in Seq(W)
      BY <1>2
    <3> HIDE DEF W
    <3>2. Head(t \o e) = Head(t) /\ Tail(t \o e) = Tail(t) \o e
      BY <1>4, <3>1, HeadTail
    <3>. QED BY <1>1, <3>2
  <2>3. u \in CanonBlock /\ c = AsChunk(u)
    <3>1. PICK v \in CanonBlock : ChunkToCanonical(p, h) = AsChunk(v)
      BY <2>1 DEF ReadChunk
    <3>2. AsChunk(v).parts[1] = v
      BY DEF AsChunk, Chunk
    <3>3. u = v
      BY <2>1, <3>1, <3>2 DEF Reading
    <3>. QED BY <2>2, <3>1, <3>3
  <2>4. b # <<>> /\ Head(b) = u /\ Tail(b) = Mapped(Reading(p), r)
    <3> DEFINE R == Reading(p)
    <3> HIDE DEF X, R
    <3>1. Len(t) >= 1 /\ DOMAIN t = 1 .. Len(t) /\ Len(r) = Len(t) - 1
          /\ \A i \in 1 .. Len(t) - 1 : r[i] = t[i + 1]
      BY <1>2, <1>4
    <3>2. DOMAIN b = DOMAIN t /\ \A i \in DOMAIN t : b[i] = R[t[i]]
      BY <1>2 DEF Mapped, R
    <3>3. Len(b) = Len(t) /\ b # <<>>
      BY <1>2, <3>1, <3>2
    <3>4. Head(b) = b[1] /\ Len(Tail(b)) = Len(b) - 1 /\ Tail(b) \in Seq(CanonBlock)
          /\ \A i \in 1 .. Len(b) - 1 : Tail(b)[i] = b[i + 1]
      BY <1>2, <3>3
    <3>5. Head(b) = R[h]
      BY <2>1, <3>1, <3>2, <3>4
    <3>6. DOMAIN r = 1 .. Len(t) - 1
      BY <2>1, <3>1
    <3>7. ASSUME NEW i \in 1 .. Len(t) - 1 PROVE Tail(b)[i] = R[r[i]]
      <4>1. i + 1 \in DOMAIN t /\ i \in 1 .. Len(b) - 1
        BY <1>2, <3>1, <3>3
      <4>2. r[i] = t[i + 1]
        BY <3>1
      <4>3. Tail(b)[i] = b[i + 1]
        BY <3>4, <4>1
      <4>. QED BY <3>2, <4>1, <4>2, <4>3
    <3>8. Tail(b) = [i \in 1 .. Len(t) - 1 |-> R[r[i]]]
      <4>1. DOMAIN Tail(b) = 1 .. Len(t) - 1 /\ Tail(b) = [i \in DOMAIN Tail(b) |-> Tail(b)[i]]
        <5> DEFINE d == Tail(b)
        <5>1. d \in Seq(CanonBlock) /\ Len(d) = Len(t) - 1
          BY <3>3, <3>4
        <5> HIDE DEF d
        <5>2. DOMAIN d = 1 .. Len(t) - 1 /\ d = [i \in DOMAIN d |-> d[i]]
          BY <5>1
        <5>. QED BY <5>2 DEF d
      <4>. QED BY <3>7, <4>1
    <3>9. Tail(b) = Mapped(R, r)
      BY <3>6, <3>8 DEF Mapped
    <3>. QED BY <3>3, <3>5, <3>9 DEF R
  <2>5. Tail(b) \in Seq(CanonBlock) /\ Append(a, u) \in Seq(CanonBlock)
        /\ Append(a, u) \o Tail(b) = Canonical(p, s)
    <3>0. b \in Seq(CanonBlock) /\ b # <<>>
      BY <2>4
    <3>1. Append(a, Head(b)) \o Tail(b) = a \o b /\ Tail(b) \in Seq(CanonBlock)
      <4> DEFINE Y == CanonBlock
      <4>1. a \in Seq(Y) /\ b \in Seq(Y)
        OBVIOUS
      <4> HIDE DEF Y
      <4>2. Append(a, Head(b)) \o Tail(b) = a \o b
        BY <3>0, <4>1, HeadTail
      <4>3. Tail(b) \in Seq(Y)
        BY <3>0, <4>1, HeadTail
      <4>. QED BY <4>2, <4>3 DEF Y
    <3>2. Append(a, u) \in Seq(CanonBlock)
      BY <2>3
    <3>. QED BY <1>1, <2>4, <3>1, <3>2
  <2>6. ReadTo(p, r, Tail(b))
    BY <2>1, <2>4, <2>5 DEF ReadTo
  <2>7. SoFar(f, o, Append(a, u), Tail(b))
    BY <1>1, <2>3, SoFarMore
  <2> HIDE DEF o, u, r
  <2>8. Flowing(p, f, s, Tail(in), o)
    BY <1>2, <2>1, <2>2, <2>5, <2>6, <2>7 DEF Flowing
  <2>. QED BY <2>8, FlowingRelayed DEF o
<1>. QED BY <1>3, <1>4

(* What a client has heard of a stream is a beginning of what is told, and *)
(* all of it once it is told the stream is done.                           *)
LEMMA RelayedHeard ==
  ASSUME NEW p \in Formats, NEW f \in ClientFormats, NEW s \in Seq(HeardBlock(p, f)), NEW out,
         Relayed(p, f, s, out)
  PROVE  /\ IsPrefix(HeardIn(out), Told(p, s))
         /\ Done(out) => HeardIn(out) = Told(p, s)
<1>1. PICK a \in Seq(CanonBlock), b \in Seq(CanonBlock) :
        a \o b = Canonical(p, s) /\ SoFar(f, out, a, b)
  BY DEF Relayed
<1> DEFINE h == HeardOf(f)
           u == Spread(h, a)
           v == Spread(h, b)
<1>2. HeardIn(out) = u
  BY <1>1, ShownHeard DEF SoFar, HeardIn
<1>3. Sends(h, CanonBlock, Seq(AnyPiece))
  BY HeardSends
<1>4. Spread(h, Canonical(p, s)) = Told(p, s)
  BY StreamHeard
<1> HIDE DEF h
<1>5. Spread(h, a \o b) = u \o v
  <2> DEFINE X == CanonBlock
             Y == AnyPiece
  <2>1. Sends(h, X, Seq(Y)) /\ a \in Seq(X) /\ b \in Seq(X)
    BY <1>3
  <2> HIDE DEF X, Y
  <2>. QED BY <2>1, SpreadConcat
<1>6. u \in Seq(AnyPiece) /\ v \in Seq(AnyPiece)
  BY <1>3, SpreadType
<1>7. Done(out) => v = <<>>
  BY <1>1, SpreadEmpty DEF SoFar
<1> DEFINE w == Told(p, s)
<1>8. w = u \o v
  BY <1>1, <1>4, <1>5
<1> HIDE DEF u, v, w
<1>9. Len(u) <= Len(u \o v) /\ SubSeq(u, 1, Len(u)) = SubSeq(u \o v, 1, Len(u)) /\ u \o <<>> = u
  BY <1>6
<1>10. IsPrefix(u, u \o v)
  BY <1>6, <1>9 DEF IsPrefix
<1>. QED BY <1>2, <1>7, <1>8, <1>9, <1>10 DEF w

-----------------------------------------------------------------------------
(* What the client puts together.                                          *)
CallTypes == {"tool_use", "function", "functionCall"}
KeptAs(p) == IF p.type \in CallTypes THEN "tool_use" ELSE "text"

LEMMA PartAdded ==
  ASSUME NEW acc \in Seq(AnyBlock), NEW p \in AnyBlock
  PROVE  /\ AssemblePart(acc, p) \in Seq(AnyBlock)
         /\ AssemblePart(acc, p) # <<>>
         /\ Last(AssemblePart(acc, p)).type = KeptAs(p)
         /\ \/ /\ DOMAIN AssemblePart(acc, p) = DOMAIN acc
               /\ \A i \in DOMAIN acc : /\ AssemblePart(acc, p)[i].type = acc[i].type
                                        /\ AssemblePart(acc, p)[i].id = acc[i].id
            \/ /\ DOMAIN AssemblePart(acc, p) = 1 .. Len(acc) + 1
               /\ \A i \in DOMAIN acc : AssemblePart(acc, p)[i] = acc[i]
               /\ AssemblePart(acc, p)[Len(acc) + 1].type = KeptAs(p)
               /\ AssemblePart(acc, p)[Len(acc) + 1].id = p.id
               /\ p.name # "" \/ acc = <<>> \/ Last(acc).type # KeptAs(p)
<1> DEFINE type == KeptAs(p)
           b == [p EXCEPT !.type = type]
           n == Len(acc)
           next == AssemblePart(acc, p)
           more == acc # <<>> /\ Last(acc).type = type /\ p.name = ""
<1>1. next = IF more THEN [acc EXCEPT ![n].text = @ \o p.text] ELSE Append(acc, b)
  <2>1. b.type = type
    BY DEF AnyBlock
  <2>. QED BY <2>1 DEF AssemblePart, CallTypes, KeptAs
<1>2. b \in AnyBlock /\ b.type = type /\ b.id = p.id
  <2>1. type \in BlockTypes
    BY DEF KeptAs, BlockTypes
  <2> HIDE DEF type
  <2>. QED BY <2>1 DEF AnyBlock
<1>3. CASE more
  <2> DEFINE c == [acc[n] EXCEPT !.text = @ \o p.text]
  <2>1. n \in DOMAIN acc /\ acc[n] \in AnyBlock /\ Last(acc) = acc[n] /\ n \in Nat
    <3>1. acc # <<>>
      BY <1>3
    <3>2. n \in DOMAIN acc /\ n \in Nat
      <4> HIDE DEF more, next, b, type
      <4>. QED BY <3>1
    <3>3. acc[n] \in AnyBlock
      BY <3>2
    <3>. QED BY <3>2, <3>3 DEF Last
  <2>2. acc[n].text \o p.text \in Seq(Token)
    <3>1. acc[n].text \in Seq(Token) /\ p.text \in Seq(Token)
      BY <2>1 DEF AnyBlock
    <3>. QED BY <3>1, ConcatProperties
  <2>3. c \in AnyBlock /\ c.type = acc[n].type /\ c.id = acc[n].id
    BY <2>1, <2>2 DEF AnyBlock
  <2>4. next = [acc EXCEPT ![n] = c]
    BY <1>1, <1>3
  <2> HIDE DEF next, n, c, more, type, b
  <2>5. next \in Seq(AnyBlock) /\ DOMAIN next = DOMAIN acc /\ next[n] = c /\ Len(next) = Len(acc)
        /\ \A i \in DOMAIN acc : i # n => next[i] = acc[i]
    BY <2>1, <2>3, <2>4
  <2>6. next # <<>> /\ Last(next) = next[n]
    <3>1. Last(next) = next[Len(next)]
      BY DEF Last
    <3>. QED BY <2>1, <2>5, <3>1 DEF n
  <2>7. \A i \in DOMAIN acc : next[i].type = acc[i].type /\ next[i].id = acc[i].id
    BY <2>3, <2>5
  <2>8. Last(next).type = type
    BY <1>3, <2>1, <2>3, <2>5, <2>6 DEF more
  <2>. QED BY <2>5, <2>6, <2>7, <2>8 DEF next, type
<1>4. CASE ~more
  <2> HIDE DEF next, type, b
  <2>1. next = Append(acc, b) /\ n \in Nat
    <3>1. n \in Nat
      OBVIOUS
    <3> HIDE DEF more, n
    <3>2. next = Append(acc, b)
      BY <1>1, <1>4
    <3>. QED BY <3>1, <3>2
  <2>2. next \in Seq(AnyBlock) /\ DOMAIN next = 1 .. n + 1 /\ Len(next) = n + 1 /\ next[n + 1] = b
        /\ \A i \in DOMAIN acc : next[i] = acc[i]
    BY <1>2, <2>1
  <2>3. next # <<>> /\ Last(next) = b
    BY <2>2 DEF Last
  <2>4. p.name # "" \/ acc = <<>> \/ Last(acc).type # type
    BY <1>4
  <2>. QED BY <1>2, <2>2, <2>3, <2>4 DEF next, type
<1>. QED BY <1>3, <1>4

(* What Assembled's fold chooses: it puts together the parts at a set of   *)
(* places.                                                                 *)
AssembledSets(h, q) ==
  h = [T \in SUBSET DOMAIN q |-> IF T = {} THEN <<>> ELSE AssemblePart(h[T \ {Max(T)}], q[Max(T)])]

LEMMA AssembledFolds ==
  ASSUME NEW q PROVE FoldLeft(AssemblePart, <<>>, q) = (CHOOSE h : AssembledSets(h, q))[DOMAIN q]
BY DEF FoldLeft, MapThenFoldSet, AssembledSets

Assembles(U, q) ==
  /\ U \in [0 .. Len(q) -> Seq(AnyBlock)]
  /\ U[0] = <<>>
  /\ \A i \in 1 .. Len(q) : U[i] = AssemblePart(U[i - 1], q[i])

LEMMA AssembledIs ==
  ASSUME NEW q \in Seq(AnyBlock)
  PROVE  \E U : Assembles(U, q) /\ FoldLeft(AssemblePart, <<>>, q) = U[Len(q)]
<1> DEFINE n == Len(q)
           V == Seq(AnyBlock)
           e == <<>>
           g == [x \in (1 .. n) \X V |-> AssemblePart(x[2], q[x[1]])]
<1>1. n \in Nat /\ DOMAIN q = 1 .. n /\ \A i \in 1 .. n : q[i] \in AnyBlock
  OBVIOUS
<1>2. \A i \in 1 .. n, v \in V : g[<<i, v>>] = AssemblePart(v, q[i]) /\ AssemblePart(v, q[i]) \in V
  BY <1>1, PartAdded
<1>3. e \in V
  OBVIOUS
<1>4. g \in [(1 .. n) \X V -> V]
  BY <1>1, <1>2
<1> HIDE DEF n, g, V, e
<1>5. PICK h \in [SUBSET (1 .. n) -> V] : Folds(h, n, e, g)
  BY <1>1, <1>3, <1>4, FoldExists
<1>6. AssembledSets(h, q)
  <2>1. ASSUME NEW T \in SUBSET (1 .. n), T # {}
        PROVE  g[<<Max(T), h[T \ {Max(T)}]>>] = AssemblePart(h[T \ {Max(T)}], q[Max(T)])
    <3>1. Max(T) \in 1 .. n
      BY <1>1, <2>1, MaxIn
    <3>2. h[T \ {Max(T)}] \in V
      OBVIOUS
    <3>. QED BY <1>2, <3>1, <3>2
  <2>2. \A T \in SUBSET (1 .. n) :
          (IF T = {} THEN e ELSE g[<<Max(T), h[T \ {Max(T)}]>>])
             = IF T = {} THEN <<>> ELSE AssemblePart(h[T \ {Max(T)}], q[Max(T)])
    BY <2>1 DEF e
  <2>. QED BY <1>1, <1>5, <2>2 DEF Folds, AssembledSets
<1> DEFINE c == CHOOSE x : AssembledSets(x, q)
<1>7. AssembledSets(c, q)
  BY <1>6
<1>8. FoldLeft(AssemblePart, <<>>, q) = c[1 .. n]
  BY <1>1, AssembledFolds
<1> HIDE DEF c
<1> DEFINE U == [i \in 0 .. n |-> c[1 .. i]]
<1>9. U[0] = <<>>
  BY <1>1, <1>7, InitialSegments DEF AssembledSets
<1>10. ASSUME NEW i \in 1 .. n PROVE U[i] = AssemblePart(U[i - 1], q[i])
  <2>1. c[1 .. i] = AssemblePart(c[1 .. i - 1], q[i])
    <3>1. \A T \in SUBSET (1 .. n) : T # {} => c[T] = AssemblePart(c[T \ {Max(T)}], q[Max(T)])
      BY <1>1, <1>7 DEF AssembledSets
    <3>2. /\ 1 .. i \in SUBSET (1 .. n) /\ 1 .. i # {} /\ Max(1 .. i) = i
          /\ (1 .. i) \ {i} = 1 .. i - 1
      BY <1>1, InitialSegments
    <3>3. c[1 .. i] = AssemblePart(c[(1 .. i) \ {Max(1 .. i)}], q[Max(1 .. i)])
      BY <3>1, <3>2
    <3>. QED BY <3>2, <3>3
  <2>2. i \in 0 .. n /\ i - 1 \in 0 .. n
    BY <1>1
  <2>. QED BY <2>1, <2>2
<1>11. \A i \in 0 .. n : U[i] \in V
  <2> DEFINE S == {i \in 0 .. n : U[i] \in V}
  <2>1. 0 \in S
    BY <1>1, <1>3, <1>9 DEF e
  <2>2. ASSUME NEW k \in 0 .. n - 1, k \in S PROVE k + 1 \in S
    <3>1. k + 1 \in 1 .. n /\ (k + 1) - 1 = k
      BY <1>1
    <3>2. U[k + 1] = AssemblePart(U[k], q[k + 1]) /\ q[k + 1] \in AnyBlock /\ U[k] \in V
      <4> HIDE DEF U
      <4>. QED BY <1>1, <1>10, <2>2, <3>1
    <3>3. U[k + 1] \in V /\ k + 1 \in 0 .. n
      <4> DEFINE v == U[k]
      <4>1. v \in V /\ U[k + 1] = AssemblePart(v, q[k + 1])
        BY <3>2
      <4> HIDE DEF U, v
      <4>2. AssemblePart(v, q[k + 1]) \in V
        BY <1>2, <3>1, <4>1
      <4>3. k + 1 \in 0 .. n
        BY <1>1, <3>1
      <4>. QED BY <4>1, <4>2, <4>3
    <3> HIDE DEF U
    <3>. QED BY <3>3
  <2> HIDE DEF S
  <2>3. \A i \in 0 .. n : i \in S
    BY <1>1, <2>1, <2>2, Induction
  <2>. QED BY <2>3 DEF S
<1>12. U \in [0 .. n -> V] /\ n \in 0 .. n
  BY <1>1, <1>11
<1>13. U[n] = c[1 .. n]
  BY <1>12
<1> HIDE DEF U
<1>14. Assembles(U, q)
  BY <1>9, <1>10, <1>12 DEF Assembles, n, V
<1>. QED BY <1>8, <1>13, <1>14 DEF n

(* Parts in order: one without a name goes on with the call before it, and *)
(* named calls differ in their identifiers.                                *)
IsCall(u) == u.type \in CallTypes
Begins(u) == IsCall(u) /\ u.name # ""

Orderly(q) ==
  /\ \A i \in DOMAIN q : IsCall(q[i]) /\ q[i].name = "" => i # 1 /\ IsCall(q[i - 1])
  /\ \A i, j \in DOMAIN q : Begins(q[i]) /\ Begins(q[j]) /\ q[i].id = q[j].id => i = j

(* The calls put together of the first k parts.                            *)
Fine(acc, q, k) ==
  /\ acc \in Seq(AnyBlock)
  /\ Distinct(acc, {"tool_use"})
  /\ \A i \in DOMAIN acc : acc[i].type # "functionCall"
  /\ \A i \in DOMAIN acc : acc[i].type = "tool_use" =>
       \E j \in 1 .. k : Begins(q[j]) /\ q[j].id = acc[i].id
  /\ k # 0 => acc # <<>> /\ Last(acc).type = KeptAs(q[k])

LEMMA NotFirst == \A k \in Int : k # 1 => k - 1 # 0
OBVIOUS

LEMMA PartFine ==
  ASSUME NEW q \in Seq(AnyBlock), Orderly(q), NEW k \in 1 .. Len(q), NEW acc, Fine(acc, q, k - 1)
  PROVE  Fine(AssemblePart(acc, q[k]), q, k)
<1>a. k \in Int /\ (k # 1 => k - 1 # 0)
  <2>1. k \in 1 .. Len(q) /\ Len(q) \in Nat
    OBVIOUS
  <2>2. k \in Int
    BY <2>1
  <2>. QED BY <2>2, NotFirst
<1> DEFINE p == q[k]
           next == AssemblePart(acc, p)
<1>0. p \in AnyBlock /\ acc \in Seq(AnyBlock) /\ k \in DOMAIN q /\ k \in Nat /\ k # 0 /\ 1 .. k - 1 \subseteq 1 .. k
      /\ DOMAIN q = 1 .. Len(q)
  BY DEF Fine
<1>1. /\ next \in Seq(AnyBlock) /\ next # <<>> /\ Last(next).type = KeptAs(p)
      /\ \/ /\ DOMAIN next = DOMAIN acc
            /\ \A i \in DOMAIN acc : next[i].type = acc[i].type /\ next[i].id = acc[i].id
         \/ /\ DOMAIN next = 1 .. Len(acc) + 1
            /\ \A i \in DOMAIN acc : next[i] = acc[i]
            /\ next[Len(acc) + 1].type = KeptAs(p)
            /\ next[Len(acc) + 1].id = p.id
            /\ p.name # "" \/ acc = <<>> \/ Last(acc).type # KeptAs(p)
  BY <1>0, PartAdded
<1>2. /\ \A i, j \in DOMAIN acc :
            acc[i].type = "tool_use" /\ acc[j].type = "tool_use" /\ acc[i].id = acc[j].id => i = j
      /\ \A i \in DOMAIN acc : acc[i].type = "tool_use" =>
            \E j \in 1 .. k - 1 : Begins(q[j]) /\ q[j].id = acc[i].id
      /\ \A i \in DOMAIN acc : acc[i].type # "functionCall"
  BY DEF Fine, Distinct
<1> HIDE DEF next
<1>3. CASE /\ DOMAIN next = DOMAIN acc
           /\ \A i \in DOMAIN acc : next[i].type = acc[i].type /\ next[i].id = acc[i].id
  <2>1. Distinct(next, {"tool_use"})
    BY <1>2, <1>3 DEF Distinct
  <2>2. \A i \in DOMAIN next : next[i].type = "tool_use" =>
          \E j \in 1 .. k : Begins(q[j]) /\ q[j].id = next[i].id
    BY <1>0, <1>2, <1>3
  <2>3. \A i \in DOMAIN next : next[i].type # "functionCall"
    BY <1>2, <1>3
  <2>4. Fine(next, q, k)
    BY <1>1, <2>1, <2>2, <2>3 DEF Fine
  <2>. QED BY <2>4 DEF next
<1>4. CASE /\ DOMAIN next = 1 .. Len(acc) + 1
           /\ \A i \in DOMAIN acc : next[i] = acc[i]
           /\ next[Len(acc) + 1].type = KeptAs(p)
           /\ next[Len(acc) + 1].id = p.id
           /\ p.name # "" \/ acc = <<>> \/ Last(acc).type # KeptAs(p)
  <2> DEFINE n == Len(acc) + 1
  <2>1. n \notin DOMAIN acc /\ DOMAIN next = DOMAIN acc \cup {n} /\ n \in DOMAIN next
    <3>1. DOMAIN acc = 1 .. Len(acc) /\ Len(acc) \in Nat
      BY <1>0
    <3>2. Len(acc) + 1 \notin 1 .. Len(acc) /\ 1 .. Len(acc) + 1 = 1 .. Len(acc) \cup {Len(acc) + 1}
          /\ Len(acc) + 1 \in 1 .. Len(acc) + 1
      BY <3>1
    <3>. QED BY <1>4, <3>1, <3>2
  <2>2. IsCall(p) => p.name # ""
    <3> SUFFICES ASSUME IsCall(p), p.name = "" PROVE FALSE
      OBVIOUS
    <3>1. k # 1 /\ IsCall(q[k - 1])
      BY <1>0 DEF Orderly
    <3>2. k - 1 # 0
      BY <1>a, <3>1
    <3>3. acc # <<>> /\ Last(acc).type = KeptAs(q[k - 1])
      BY <3>2 DEF Fine
    <3>4. KeptAs(q[k - 1]) = "tool_use" /\ KeptAs(p) = "tool_use"
      BY <3>1 DEF KeptAs, IsCall
    <3>. QED BY <1>4, <3>3, <3>4
  <2>3. next[n].type = "tool_use" => Begins(p)
    BY <1>4, <2>2 DEF KeptAs, IsCall, Begins
  <2>4. ASSUME NEW i \in DOMAIN acc, acc[i].type = "tool_use", next[n].type = "tool_use"
        PROVE  acc[i].id # p.id
    <3>1. PICK j \in 1 .. k - 1 : Begins(q[j]) /\ q[j].id = acc[i].id
      BY <1>2, <2>4
    <3>2. j \in DOMAIN q /\ j # k
      BY <1>0
    <3>. QED BY <1>0, <2>3, <2>4, <3>1, <3>2 DEF Orderly
  <2>5. next[n].id = p.id
    BY <1>4
  <2> HIDE DEF n
  <2>6. ASSUME NEW i \in DOMAIN next, NEW j \in DOMAIN next,
               next[i].type = "tool_use", next[j].type = "tool_use", next[i].id = next[j].id
        PROVE  i = j
    <3>1. CASE i \in DOMAIN acc /\ j \in DOMAIN acc
      BY <1>2, <1>4, <2>6, <3>1
    <3>2. CASE i \in DOMAIN acc /\ j = n
      BY <1>4, <2>4, <2>5, <2>6, <3>2
    <3>3. CASE i = n /\ j \in DOMAIN acc
      BY <1>4, <2>4, <2>5, <2>6, <3>3
    <3>4. CASE i = n /\ j = n
      BY <3>4
    <3>. QED BY <2>1, <3>1, <3>2, <3>3, <3>4
  <2>7. ASSUME NEW i \in DOMAIN next, next[i].type = "tool_use"
        PROVE  \E j \in 1 .. k : Begins(q[j]) /\ q[j].id = next[i].id
    <3>1. CASE i \in DOMAIN acc
      BY <1>0, <1>2, <1>4, <2>7, <3>1
    <3>2. CASE i = n
      <4>1. k \in 1 .. k
        BY <1>0
      <4>. QED BY <2>3, <2>5, <2>7, <3>2, <4>1
    <3>. QED BY <2>1, <3>1, <3>2
  <2>8. Distinct(next, {"tool_use"})
    BY <2>6 DEF Distinct
  <2>9. \A i \in DOMAIN next : next[i].type # "functionCall"
    <3>1. next[n].type # "functionCall"
      BY <1>4 DEF KeptAs, n
    <3>. QED BY <1>2, <1>4, <2>1, <3>1
  <2>10. Fine(next, q, k)
    BY <1>1, <2>7, <2>8, <2>9 DEF Fine
  <2>. QED BY <2>10 DEF next
<1>. QED BY <1>1, <1>3, <1>4

LEMMA AssembledFine ==
  ASSUME NEW q \in Seq(AnyBlock)
  PROVE  /\ FoldLeft(AssemblePart, <<>>, q) \in Seq(AnyBlock)
         /\ Orderly(q) =>
              /\ Distinct(FoldLeft(AssemblePart, <<>>, q), {"tool_use"})
              /\ \A i \in DOMAIN FoldLeft(AssemblePart, <<>>, q) :
                   FoldLeft(AssemblePart, <<>>, q)[i].type # "functionCall"
<1> DEFINE n == Len(q)
<1>1. PICK U : Assembles(U, q) /\ FoldLeft(AssemblePart, <<>>, q) = U[n]
  BY AssembledIs
<1>2. n \in Nat /\ n \in 0 .. n
  OBVIOUS
<1>3. U[n] \in Seq(AnyBlock)
  BY <1>1, <1>2 DEF Assembles
<1>4. ASSUME Orderly(q)
      PROVE  Distinct(U[n], {"tool_use"}) /\ \A i \in DOMAIN U[n] : U[n][i].type # "functionCall"
  <2> DEFINE S == {k \in 0 .. n : Fine(U[k], q, k)}
  <2>1. 0 \in S
    <3>1. U[0] = <<>> /\ 0 \in 0 .. n
      BY <1>1, <1>2 DEF Assembles
    <3>2. Fine(<<>>, q, 0)
      BY DEF Fine, Distinct
    <3>. QED BY <3>1, <3>2
  <2>2. ASSUME NEW k \in 0 .. n - 1, k \in S PROVE k + 1 \in S
    <3> DEFINE m == k + 1
    <3>1. m \in 1 .. n /\ m \in 0 .. n /\ m - 1 = k
      BY <1>2
    <3>2. U[m] = AssemblePart(U[m - 1], q[m])
      BY <1>1, <3>1 DEF Assembles
    <3>3. Fine(U[m - 1], q, m - 1)
      BY <2>2, <3>1
    <3> HIDE DEF m
    <3>4. Fine(U[m], q, m)
      BY <1>4, <3>1, <3>2, <3>3, PartFine
    <3>. QED BY <3>1, <3>4 DEF m
  <2> HIDE DEF S, n
  <2>3. \A k \in 0 .. n : k \in S
    BY <1>2, <2>1, <2>2, Induction
  <2>4. Fine(U[n], q, n)
    BY <1>2, <2>3 DEF S
  <2>. QED BY <2>4 DEF Fine
<1>. QED BY <1>1, <1>3, <1>4

(* The parts of one block: words, or a call, named first and only once.    *)
PartsInOrder(d, b) ==
  \/ b.type # "tool_use" /\ \A i \in DOMAIN d : ~IsCall(d[i])
  \/ b.type = "tool_use" /\ \A i \in DOMAIN d : /\ IsCall(d[i])
                                                /\ d[i].name # "" <=> i = 1
                                                /\ i = 1 => d[i].id = b.id

LEMMA BlockInOrder ==
  ASSUME NEW p \in Formats \ {"gemini"}, NEW b \in TellBlock(p)
  PROVE  PartsInOrder(Canon(p)[b], b)
<1>0. /\ b \in AnyBlock /\ b.text \in Seq(Token) /\ b.id \in Id /\ b.name \in Name
      /\ b.type \in {"text", "tool_use", "thinking"}
      /\ b.type = "tool_use" => b.name # ""
  BY TellIs
<1>a. \A i \in DOMAIN b.text : b.text[i] \in Token
  <2> DEFINE t == b.text
  <2>1. t \in Seq(Token)
    BY <1>0
  <2> HIDE DEF t
  <2>2. \A i \in DOMAIN t : t[i] \in Token
    BY <2>1
  <2>. QED BY <2>2 DEF t
<1>1. CASE b.type # "tool_use"
  <2>1. Canon(p)[b] = Mapped(TextPart, b.text)
    BY <1>0, <1>1 DEF Canon
  <2>2. ASSUME NEW w \in Token PROVE ~IsCall(TextPart[w])
    BY DEF TextPart, Text, Block, IsCall, CallTypes
  <2>3. \A i \in DOMAIN b.text : b.text[i] \in Token
    BY <1>a
  <2>4. \A i \in DOMAIN Mapped(TextPart, b.text) : ~IsCall(Mapped(TextPart, b.text)[i])
    BY <2>2, <2>3 DEF Mapped
  <2>. QED BY <1>1, <2>1, <2>4 DEF PartsInOrder
<1>2. CASE b.type = "tool_use" /\ p \in {"anthropic", "openai", "plain"}
  <2> DEFINE e == <<>>
             u == ToolUse(b.id, b.name, e)
             a == Mapped(CallPart, b.text)
             d == <<u>> \o a
  <2>1. Canon(p)[b] = d
    BY <1>0, <1>2 DEF Canon
  <2>2. IsCall(u) /\ u.name # "" /\ u.id = b.id
    BY <1>0, <1>2 DEF ToolUse, Block, IsCall, CallTypes
  <2>3. ASSUME NEW w \in Token PROVE IsCall(CallPart[w]) /\ CallPart[w].name = ""
    BY DEF CallPart, ToolUse, Block, IsCall, CallTypes
  <2>4. \A i \in DOMAIN b.text : b.text[i] \in Token
    BY <1>a
  <2>5. /\ \A i \in DOMAIN a : IsCall(a[i]) /\ a[i].name = ""
    BY <2>3, <2>4 DEF Mapped
  <2>6. a \in Seq(CanonBlock) /\ u \in CanonBlock
    <3>1. a \in Seq(CanonBlock)
      BY <1>0, PartSends, MappedType
    <3>2. e \in Seq(Token)
      OBVIOUS
    <3> HIDE DEF e
    <3>3. ToolUse(b.id, b.name, e) \in CanonBlock
      BY <1>0, <3>2, CanonCall
    <3>. QED BY <3>1, <3>3
  <2> HIDE DEF u, a
  <2>7. /\ DOMAIN d = 1 .. Len(a) + 1 /\ Len(a) \in Nat /\ d[1] = u
        /\ \A i \in 2 .. Len(a) + 1 : i - 1 \in DOMAIN a /\ d[i] = a[i - 1]
    BY <2>6
  <2> HIDE DEF d
  <2>8. ASSUME NEW i \in DOMAIN d PROVE IsCall(d[i]) /\ (d[i].name # "" <=> i = 1) /\ (i = 1 => d[i].id = b.id)
    <3>1. CASE i = 1
      BY <2>2, <2>7, <3>1
    <3>2. CASE i # 1
      <4>1. i \in 2 .. Len(a) + 1
        BY <2>7, <3>2
      <4>2. d[i] = a[i - 1] /\ i - 1 \in DOMAIN a
        BY <2>7, <4>1
      <4>. QED BY <2>5, <3>2, <4>2
    <3>. QED BY <3>1, <3>2
  <2>. QED BY <1>2, <2>1, <2>8 DEF PartsInOrder
<1>3. CASE b.type = "tool_use" /\ p = "ollama"
  <2> DEFINE u == ToolUse(b.id, b.name, b.text)
  <2>1. Canon(p)[b] = <<u>>
    BY <1>0, <1>3 DEF Canon
  <2>2. IsCall(u) /\ u.name # "" /\ u.id = b.id
    BY <1>0, <1>3 DEF ToolUse, Block, IsCall, CallTypes
  <2> HIDE DEF u
  <2>3. \A i \in DOMAIN <<u>> : i = 1 /\ <<u>>[i] = u
    OBVIOUS
  <2>4. \A i \in DOMAIN <<u>> : IsCall(<<u>>[i]) /\ (<<u>>[i].name # "" <=> i = 1) /\ (i = 1 => <<u>>[i].id = b.id)
    BY <2>2, <2>3
  <2>. QED BY <1>3, <2>1, <2>4 DEF PartsInOrder
<1>. QED BY <1>1, <1>2, <1>3 DEF Formats

(* The named calls among the parts are calls of the answer.                *)
CallsFrom(c, s) ==
  \A i \in DOMAIN c : Begins(c[i]) => \E j \in DOMAIN s : s[j].type = "tool_use" /\ s[j].id = c[i].id

LEMMA OrderlyConcat ==
  ASSUME NEW c \in Seq(CanonBlock), NEW d \in Seq(CanonBlock), NEW b, PartsInOrder(d, b), Orderly(c),
         b.type = "tool_use" => \A i \in DOMAIN c : Begins(c[i]) => c[i].id # b.id
  PROVE  /\ Orderly(c \o d)
         /\ \A i \in DOMAIN (c \o d) : Begins((c \o d)[i]) =>
              \/ i \in DOMAIN c /\ (c \o d)[i] = c[i]
              \/ b.type = "tool_use" /\ (c \o d)[i].id = b.id
<1> DEFINE r == c \o d
           n == Len(c)
<1>1. /\ DOMAIN c = 1 .. n /\ n \in Nat /\ DOMAIN r = 1 .. n + Len(d) /\ DOMAIN d = 1 .. Len(d) /\ Len(d) \in Nat
      /\ \A i \in 1 .. n : r[i] = c[i]
      /\ \A i \in n + 1 .. n + Len(d) : r[i] = d[i - n] /\ i - n \in 1 .. Len(d)
  OBVIOUS
<1> HIDE DEF r, n
<1>2. ASSUME NEW i \in DOMAIN r
      PROVE  \/ i \in 1 .. n /\ r[i] = c[i]
             \/ i \in n + 1 .. n + Len(d) /\ r[i] = d[i - n] /\ i - n \in DOMAIN d
  <2>1. i \in 1 .. n \/ i \in n + 1 .. n + Len(d)
    BY <1>1
  <2>. QED BY <1>1, <2>1
<1>3. ASSUME NEW i \in n + 1 .. n + Len(d), IsCall(r[i])
      PROVE  b.type = "tool_use" /\ (r[i].name # "" <=> i = n + 1) /\ (i = n + 1 => r[i].id = b.id)
  <2>1. r[i] = d[i - n] /\ i - n \in DOMAIN d
    BY <1>1
  <2>2. i - n = 1 <=> i = n + 1
    BY <1>1
  <2>. QED BY <1>3, <2>1, <2>2 DEF PartsInOrder
<1>4. ASSUME NEW i \in DOMAIN r, IsCall(r[i]), r[i].name = "" PROVE i # 1 /\ IsCall(r[i - 1])
  <2>1. CASE i \in 1 .. n /\ r[i] = c[i]
    <3>1. i # 1 /\ IsCall(c[i - 1])
      BY <1>1, <1>4, <2>1 DEF Orderly
    <3>2. i - 1 \in 1 .. n
      BY <1>1, <2>1, <3>1
    <3>. QED BY <1>1, <3>1, <3>2
  <2>2. CASE i \in n + 1 .. n + Len(d) /\ r[i] = d[i - n] /\ i - n \in DOMAIN d
    <3>1. i # n + 1 /\ b.type = "tool_use"
      BY <1>3, <1>4, <2>2
    <3>2. i - 1 \in n + 1 .. n + Len(d) /\ i # 1
      BY <1>1, <2>2, <3>1
    <3>3. r[i - 1] = d[(i - 1) - n] /\ (i - 1) - n \in DOMAIN d
      BY <1>1, <3>2
    <3>4. IsCall(d[(i - 1) - n])
      BY <3>1, <3>3 DEF PartsInOrder
    <3>. QED BY <3>2, <3>3, <3>4
  <2>. QED BY <1>2, <2>1, <2>2
<1>5. ASSUME NEW i \in DOMAIN r, NEW j \in DOMAIN r, Begins(r[i]), Begins(r[j]), r[i].id = r[j].id
      PROVE  i = j
  <2>1. CASE i \in 1 .. n /\ j \in 1 .. n
    BY <1>1, <1>5, <2>1 DEF Orderly
  <2>2. ASSUME NEW k \in n + 1 .. n + Len(d), Begins(r[k])
        PROVE  k = n + 1 /\ r[k].id = b.id /\ b.type = "tool_use"
    BY <1>3, <2>2 DEF Begins
  <2>3. ASSUME NEW k \in 1 .. n, Begins(r[k]), b.type = "tool_use" PROVE r[k].id # b.id
    BY <1>1, <2>3
  <2>4. i \in 1 .. n \/ i \in n + 1 .. n + Len(d)
    BY <1>2
  <2>5. j \in 1 .. n \/ j \in n + 1 .. n + Len(d)
    BY <1>2
  <2>. QED BY <1>5, <2>1, <2>2, <2>3, <2>4, <2>5
<1>6. ASSUME NEW i \in DOMAIN r, Begins(r[i])
      PROVE  (i \in DOMAIN c /\ r[i] = c[i]) \/ (b.type = "tool_use" /\ r[i].id = b.id)
  <2>1. CASE i \in 1 .. n /\ r[i] = c[i]
    BY <1>1, <2>1
  <2>2. CASE i \in n + 1 .. n + Len(d)
    BY <1>3, <1>6, <2>2 DEF Begins
  <2>. QED BY <1>2, <2>1, <2>2
<1>7. Orderly(r)
  BY <1>4, <1>5 DEF Orderly
<1>. QED BY <1>6, <1>7 DEF r

LEMMA CanonicalOrderly ==
  ASSUME NEW p \in Formats \ {"gemini"}, NEW s \in Seq(TellBlock(p)), Distinct(s, {"tool_use"})
  PROVE  Orderly(Canonical(p, s))
<1> DEFINE X == TellBlock(p)
           g == Canon(p)
           P == {r \in Seq(X) : Distinct(r, {"tool_use"}) => Orderly(Spread(g, r)) /\ CallsFrom(Spread(g, r), r)}
<1>0. Sends(g, X, Seq(CanonBlock)) /\ \A b \in X : PartsInOrder(g[b], b)
  <2>1. p \in Formats /\ <<>> \in Seq(TellBlock(p))
    OBVIOUS
  <2>2. Sends(g, X, Seq(CanonBlock))
    BY <2>1, StreamReads
  <2>. QED BY <2>2, BlockInOrder
<1> HIDE DEF X, g
<1>1. <<>> \in P
  <2>1. Spread(g, <<>>) = <<>>
    BY SpreadEmpty
  <2>2. Orderly(<<>>) /\ CallsFrom(<<>>, <<>>)
    BY DEF Orderly, CallsFrom
  <2>3. <<>> \in Seq(X)
    OBVIOUS
  <2>. QED BY <2>1, <2>2, <2>3
<1>2. ASSUME NEW r \in Seq(X), NEW b \in X, r \in P PROVE Append(r, b) \in P
  <2> DEFINE rb == Append(r, b)
  <2>0. rb \in Seq(X) /\ DOMAIN rb = DOMAIN r \cup {Len(r) + 1} /\ rb[Len(r) + 1] = b
        /\ Len(r) + 1 \notin DOMAIN r /\ \A i \in DOMAIN r : rb[i] = r[i]
    <3>1. rb \in Seq(X) /\ DOMAIN r = 1 .. Len(r) /\ DOMAIN rb = 1 .. Len(r) + 1 /\ Len(r) \in Nat
          /\ rb[Len(r) + 1] = b /\ \A i \in DOMAIN r : rb[i] = r[i]
      OBVIOUS
    <3> HIDE DEF rb
    <3>2. Len(r) + 1 \notin 1 .. Len(r) /\ 1 .. Len(r) + 1 = 1 .. Len(r) \cup {Len(r) + 1}
      BY <3>1
    <3>. QED BY <3>1, <3>2
  <2> HIDE DEF rb
  <2> SUFFICES ASSUME Distinct(rb, {"tool_use"})
               PROVE  Orderly(Spread(g, rb)) /\ CallsFrom(Spread(g, rb), rb)
    BY <2>0 DEF rb
  <2>1. Distinct(r, {"tool_use"})
    BY <2>0 DEF Distinct
  <2> DEFINE c == Spread(g, r)
             d == g[b]
  <2>2. Orderly(c) /\ CallsFrom(c, r)
    BY <1>2, <2>1
  <2>3. Spread(g, rb) = c \o d
    BY <1>0, SpreadAppend DEF rb
  <2>4. c \in Seq(CanonBlock) /\ d \in Seq(CanonBlock) /\ PartsInOrder(d, b)
    <3>1. c \in Seq(CanonBlock)
      BY <1>0, SpreadType
    <3>. QED BY <1>0, <3>1 DEF Sends
  <2> HIDE DEF c, d
  <2>5. ASSUME b.type = "tool_use", NEW i \in DOMAIN c, Begins(c[i]) PROVE c[i].id # b.id
    <3>1. PICK j \in DOMAIN r : r[j].type = "tool_use" /\ r[j].id = c[i].id
      BY <2>2, <2>5 DEF CallsFrom
    <3>. QED BY <2>0, <2>5, <3>1 DEF Distinct
  <2>6. /\ Orderly(c \o d)
        /\ \A i \in DOMAIN (c \o d) : Begins((c \o d)[i]) =>
              \/ i \in DOMAIN c /\ (c \o d)[i] = c[i]
              \/ b.type = "tool_use" /\ (c \o d)[i].id = b.id
    BY <2>2, <2>4, <2>5, OrderlyConcat
  <2> DEFINE cd == c \o d
  <2> HIDE DEF cd
  <2>7. CallsFrom(cd, rb)
    <3> SUFFICES ASSUME NEW i \in DOMAIN cd, Begins(cd[i])
                 PROVE  \E j \in DOMAIN rb : rb[j].type = "tool_use" /\ rb[j].id = cd[i].id
      BY DEF CallsFrom
    <3>1. CASE i \in DOMAIN c /\ cd[i] = c[i]
      <4>1. PICK j \in DOMAIN r : r[j].type = "tool_use" /\ r[j].id = c[i].id
        BY <2>2, <3>1 DEF CallsFrom
      <4>2. j \in DOMAIN rb /\ rb[j] = r[j]
        BY <2>0
      <4>. QED BY <3>1, <4>1, <4>2
    <3>2. CASE b.type = "tool_use" /\ cd[i].id = b.id
      BY <2>0, <3>2
    <3>. QED BY <2>6, <3>1, <3>2 DEF cd
  <2>. QED BY <2>3, <2>6, <2>7 DEF cd
<1>3. Seq(X) \subseteq P
  <2> HIDE DEF P
  <2>. QED BY <1>1, <1>2, SequenceInduction
<1>. QED BY <1>3 DEF Canonical, X, g

(* Of a stream that came to its end the client makes a message of its      *)
(* format, and can tell its calls apart.                                   *)
LEMMA ShownOrderly ==
  ASSUME NEW f \in ClientFormats \ {"gemini"}, NEW c \in Seq(CanonBlock), Orderly(c)
  PROVE  Orderly(Mapped(Showing(f), c))
<1> DEFINE g == Showing(f)
           q == Mapped(g, c)
<1>1. ASSUME NEW u \in CanonBlock
      PROVE  (IsCall(g[u]) <=> IsCall(u)) /\ (IsCall(u) => g[u].name = u.name /\ g[u].id = u.id)
  <2>1. CASE u.type = "tool_use"
    <3>1. IsCall(u)
      BY <2>1 DEF IsCall, CallTypes
    <3>2. g[u].type \in {"tool_use", "function", "functionCall"} /\ g[u].name = u.name /\ g[u].id = u.id
      BY <2>1, ShownCall
    <3>. QED BY <3>1, <3>2 DEF IsCall, CallTypes
  <2>2. CASE u.type # "tool_use"
    <3>1. g[u] = u /\ u.type = "text"
      BY <2>2, Shows
    <3>. QED BY <3>1 DEF IsCall, CallTypes
  <2>. QED BY <2>1, <2>2
<1> HIDE DEF g
<1>2. DOMAIN q = DOMAIN c /\ \A i \in DOMAIN c : q[i] = g[c[i]] /\ c[i] \in CanonBlock
  BY DEF Mapped
<1>3. DOMAIN c = 1 .. Len(c) /\ Len(c) \in Nat
  OBVIOUS
<1> HIDE DEF q
<1>4. ASSUME NEW i \in DOMAIN q, IsCall(q[i]), q[i].name = "" PROVE i # 1 /\ IsCall(q[i - 1])
  <2>0. i \in DOMAIN c /\ IsCall(c[i]) /\ c[i].name = ""
    BY <1>1, <1>2, <1>4
  <2>1. i # 1 /\ IsCall(c[i - 1])
    BY <2>0 DEF Orderly
  <2>2. i - 1 \in DOMAIN c
    BY <1>2, <1>3, <2>1
  <2>. QED BY <1>1, <1>2, <2>1, <2>2
<1>5. ASSUME NEW i \in DOMAIN q, NEW j \in DOMAIN q, Begins(q[i]), Begins(q[j]), q[i].id = q[j].id
      PROVE  i = j
  <2>1. Begins(c[i]) /\ Begins(c[j]) /\ c[i].id = c[j].id
    BY <1>1, <1>2, <1>5 DEF Begins
  <2>. QED BY <1>2, <2>1 DEF Orderly
<1>6. Orderly(q)
  BY <1>4, <1>5 DEF Orderly
<1>. QED BY <1>6 DEF q, g

(* Whatever the blocks assembled, the calls among them are a sequence.     *)
LEMMA AssembledCalls ==
  ASSUME NEW f \in ClientFormats, NEW n \in Seq(AnyBlock)
  PROVE  IsSequence(CallsOf(WriteAnswer(f, n)))
<1> DEFINE m == WriteAnswer(f, n)
<1>7. CASE f \in {"openai", "ollama"}
  <2>1. f \in Chat
    BY <1>7 DEF Chat
  <2>2. CallsOf(m) \in Seq(AnyBlock)
    BY <2>1, ChatHears
  <2> HIDE DEF m
  <2>3. IsSequence(CallsOf(m))
    BY <2>2, Ranged
  <2>. QED BY <2>3 DEF m
<1>8. CASE f = "anthropic"
  <2>1. m = Plain("assistant", Arr(n))
    BY <1>8 DEF WriteAnswer, Chat
  <2> HIDE DEF m
  <2>2. CallsOf(m) = OfTypes(n, {"tool_use", "functionCall"})
    BY <2>1, ArrHears
  <2>3. CallsOf(m) \in Seq(AnyBlock)
    BY <2>2, OfTypesType
  <2>4. IsSequence(CallsOf(m))
    BY <2>3, Ranged
  <2>. QED BY <2>4 DEF m
<1>9. CASE f = "gemini"
  <2> DEFINE parts == [i \in DOMAIN n |-> IF n[i].type = "tool_use"
                                          THEN Block("functionCall", n[i].text, NoId, n[i].name)
                                          ELSE n[i]]
             R == Range(parts)
  <2>1. m = Plain("model", Arr(parts))
    BY <1>9 DEF WriteAnswer, Chat, Each
  <2>2. parts \in Seq(R)
    <3>1. \A i \in DOMAIN parts : parts[i] \in R
      BY DEF Range
    <3>2. DOMAIN parts = 1 .. Len(n) /\ Len(n) \in Nat /\ parts = [i \in DOMAIN parts |-> parts[i]]
      OBVIOUS
    <3> HIDE DEF parts, R
    <3>. QED BY <3>1, <3>2
  <2>3. m.calls = <<>> /\ m.content.blocks = parts
    BY <2>1 DEF Plain, Wire, Arr
  <2> HIDE DEF parts, m, R
  <2>4. OfTypes(parts, {"tool_use", "functionCall"}) \in Seq(R)
    BY <2>2, OfTypesSequence
  <2>5. CallsOf(m) = <<>> \o OfTypes(parts, {"tool_use", "functionCall"})
    BY <2>3 DEF CallsOf
  <2>6. CallsOf(m) \in Seq(R)
    BY <2>4, <2>5, ConcatEmptySeq
  <2>7. IsSequence(CallsOf(m))
    BY <2>6, Ranged
  <2>. QED BY <2>7 DEF m
<1>. QED BY <1>7, <1>8, <1>9 DEF ClientFormats

LEMMA StreamAnswered ==
  ASSUME NEW p \in Formats, NEW f \in ClientFormats, NEW s \in Seq(TellBlock(p)), Distinct(s, {"tool_use"}),
         NEW out, Relayed(p, f, s, out), Done(out)
  PROVE  /\ IsSequence(CallsOf(WriteAnswer(f, Assembled(out))))
         /\ p # "gemini" /\ f # "gemini" => ToldApart(CallsOf(WriteAnswer(f, Assembled(out))))
<1>1. PICK a \in Seq(CanonBlock), b \in Seq(CanonBlock) :
        a \o b = Canonical(p, s) /\ SoFar(f, out, a, b)
  BY DEF Relayed
<1> DEFINE q == Mapped(Showing(f), a)
           n == FoldLeft(AssemblePart, <<>>, q)
           m == WriteAnswer(f, n)
<1>2. a = Canonical(p, s)
  <2>1. b = <<>>
    BY <1>1 DEF SoFar
  <2>2. a \o <<>> = a
    BY ConcatEmptySeq
  <2>. QED BY <1>1, <2>1, <2>2
<1>3. q \in Seq(AnyBlock)
  BY Shows, MappedType
<1>4. Assembled(out) = n
  BY <1>1 DEF SoFar, Assembled
<1>5. n \in Seq(AnyBlock)
  <2> HIDE DEF q
  <2>. QED BY <1>3, AssembledFine
<1>6. ASSUME p # "gemini", f # "gemini"
      PROVE  Distinct(n, {"tool_use"}) /\ \A i \in DOMAIN n : n[i].type # "functionCall"
  <2>1. Orderly(a)
    BY <1>2, <1>6, CanonicalOrderly
  <2>2. Orderly(q)
    BY <1>6, <2>1, ShownOrderly
  <2> HIDE DEF q
  <2>. QED BY <1>3, <2>2, AssembledFine
<1> HIDE DEF q, n
<1>7. IsSequence(CallsOf(m))
  BY <1>5, AssembledCalls
<1>8. ASSUME p # "gemini", f # "gemini" PROVE ToldApart(CallsOf(m))
  <2>1. Distinct(n, {"tool_use"}) /\ \A i \in DOMAIN n : n[i].type # "functionCall"
    BY <1>6, <1>8
  <2>2. CASE f \in {"openai", "ollama"}
    <3>1. f \in Chat
      BY <2>2 DEF Chat
    <3>. QED BY <1>5, <2>1, <3>1, ChatHears
  <2>3. CASE f = "anthropic"
    <3>1. m = Plain("assistant", Arr(n))
      BY <2>3 DEF WriteAnswer, Chat
    <3> HIDE DEF m
    <3>. QED BY <1>5, <2>1, <3>1, ArrHears
  <2>. QED BY <1>8, <2>2, <2>3 DEF ClientFormats
<1>. QED BY <1>4, <1>7, <1>8 DEF m

-----------------------------------------------------------------------------
(* What a provider says, in the terms of streams.                          *)
LEMMA SaidTells ==
  ASSUME NEW p \in Formats, NEW s, Said(p, s)
  PROVE  s \in Seq(AnyBlock) /\ s \in Seq(TellBlock(p)) /\ Distinct(s, {"tool_use"})
<1>1. s \in Seq(AnyBlock) /\ Distinct(s, {"tool_use"}) /\ Saying(s, p = "anthropic")
  BY DEF Said, Saying
<1>2. ASSUME NEW i \in DOMAIN s PROVE s[i] \in TellBlock(p)
  <2>1. s[i] \in AnyBlock
    BY <1>1
  <2>. QED BY <1>1, <2>1 DEF Saying, TellBlock
<1>. QED BY <1>1, <1>2

LEMMA SaidHeard ==
  ASSUME NEW p \in Formats, NEW f \in ClientFormats, NEW s, Said(p, s),
         OfTypes(s, {"tool_use"}) = <<>> \/ ~Reshapes(f, p)
  PROVE  s \in Seq(HeardBlock(p, f))
<1>1. s \in Seq(AnyBlock) /\ s \in Seq(TellBlock(p))
  BY SaidTells
<1>2. ASSUME NEW i \in DOMAIN s PROVE s[i] \in HeardBlock(p, f)
  <2>1. s[i] \in TellBlock(p)
    BY <1>1
  <2>2. OfTypes(s, {"tool_use"}) = <<>> => s[i].type \notin {"tool_use"}
    BY <1>1, OfTypesNone
  <2>. QED BY <2>1, <2>2 DEF HeardBlock
<1>. QED BY <1>1, <1>2

(* A whole answer, read from a provider and written for a client.          *)
LEMMA WholeAnswer ==
  ASSUME NEW p \in Formats, NEW f \in ClientFormats, NEW said, said.cut \in BOOLEAN, Said(p, said.blocks),
         NEW r, r.message = WriteAnswer(p, said.blocks), r.stop = WireStop(p, said),
         NEW g, g = ResponseFromCanonical(f, ResponseToCanonical(p, r))
  PROVE  /\ IsSequence(CallsOf(g.message))
         /\ f # "gemini" => ToldApart(CallsOf(g.message))
         /\ ~(f = "gemini" /\ HasThoughts(said.blocks)) =>
              TalkOf(g.message) = Spoken("assistant", said.blocks)
         /\ "ollama" \notin {p, f} => (g.stop \in {"length", "max_tokens", "MAX_TOKENS"} <=> said.cut)
<1> DEFINE s == said.blocks
           res == ResponseToCanonical(p, r)
<1>1. Saying(s, p = "anthropic") /\ Distinct(s, {"tool_use"}) /\ s \in Seq(AnyBlock)
  BY SaidTells DEF Said
<1>2. PICK c : /\ res.content = c
               /\ Saying(c, p = "anthropic") /\ Distinct(c, {"tool_use"})
               /\ Spoken("assistant", c) = Spoken("assistant", s)
               /\ c = s \/ p # "anthropic"
  BY <1>1, Understood
<1>3. g = ResponseFromCanonical(f, res)
  OBVIOUS
<1> HIDE DEF s
<1>4. /\ IsSequence(CallsOf(g.message))
      /\ f # "gemini" /\ Distinct(c, {"tool_use"}) => ToldApart(CallsOf(g.message))
      /\ f # "gemini" \/ Saying(c, FALSE) => TalkOf(g.message) = Spoken("assistant", c)
  <2> DEFINE th == (p = "anthropic")
             m == ResponseFromCanonical(f, res).message
  <2>1. Saying(c, th) /\ res.content = c
    BY <1>2
  <2> HIDE DEF res, th
  <2>2. /\ IsSequence(CallsOf(m))
        /\ f # "gemini" /\ Distinct(c, {"tool_use"}) => ToldApart(CallsOf(m))
        /\ f # "gemini" \/ Saying(c, FALSE) => TalkOf(m) = Spoken("assistant", c)
    BY <2>1, Hears
  <2>. QED BY <1>3, <2>2
<1>5. ASSUME ~HasThoughts(s) PROVE Saying(c, FALSE)
  <2>1. CASE p # "anthropic"
    <3>1. (p = "anthropic") = FALSE
      BY <2>1
    <3>. QED BY <1>2, <3>1
  <2>2. CASE p = "anthropic"
    <3>1. c = s
      BY <1>2, <2>2
    <3>2. ASSUME NEW i \in DOMAIN s PROVE s[i].type # "thinking"
      <4>1. OfTypes(s, {"thinking"}) = <<>>
        BY <1>5 DEF HasThoughts
      <4>2. s[i].type \notin {"thinking"}
        BY <1>1, <4>1, OfTypesNone
      <4>. QED BY <4>2
    <3>. QED BY <1>1, <3>1, <3>2 DEF Saying
  <2>. QED BY <2>1, <2>2
<1>6. ASSUME "ollama" \notin {p, f} PROVE g.stop \in {"length", "max_tokens", "MAX_TOKENS"} <=> said.cut
  <2>1. p \in Formats \ {"ollama"} /\ f \in ClientFormats \ {"ollama"}
    BY <1>6
  <2>2. (said.cut => res.stop = "max_tokens") /\ (~said.cut => res.stop \in {"end", "tool_use"})
    BY <2>1, StopRead
  <2> HIDE DEF res
  <2>3. res.stop \in {"max_tokens", "end", "tool_use"} /\ (res.stop = "max_tokens" <=> said.cut)
    BY <2>2
  <2>4. g.stop \in {"length", "max_tokens", "MAX_TOKENS"} <=> res.stop = "max_tokens"
    BY <1>3, <2>1, <2>3, StopWritten
  <2>. QED BY <2>3, <2>4
<1>. QED BY <1>2, <1>4, <1>5, <1>6 DEF s

-----------------------------------------------------------------------------
(* Streams however they are cut.  Their chunks hold blocks, what is read   *)
(* of one is a canonical block at most, and what the client assembles of   *)
(* the parts written are blocks again: enough for the client to go on.     *)
InKinds == {"delta", "finish", "finish_reason", "usage", "[DONE]"}
InChunk == [kind : InKinds, parts : Seq(AnyBlock)]
Sharing == {"openai", "plain", "gemini"}

LEMMA EndIsIn == ASSUME NEW p \in Sharing PROVE StreamEnd(p) \in Seq(InChunk)
<1>1. ASSUME NEW kind \in InKinds PROVE Chunk(kind, <<>>) \in InChunk
  <2>1. <<>> \in Seq(AnyBlock)
    OBVIOUS
  <2>. QED BY <2>1 DEF Chunk, InChunk
<1>2. CASE p = "gemini"
  <2>1. StreamEnd(p) = <<Chunk("usage", <<>>), Chunk("finish", <<>>)>>
    BY <1>2 DEF StreamEnd
  <2>2. Chunk("usage", <<>>) \in InChunk /\ Chunk("finish", <<>>) \in InChunk
    BY <1>1 DEF InKinds
  <2>. QED BY <2>1, <2>2
<1>3. CASE p # "gemini"
  <2>1. StreamEnd(p) = <<Chunk("finish_reason", <<>>), Chunk("usage", <<>>), Chunk("[DONE]", <<>>)>>
    BY <1>3 DEF StreamEnd, Sharing
  <2>2. /\ Chunk("finish_reason", <<>>) \in InChunk /\ Chunk("usage", <<>>) \in InChunk
        /\ Chunk("[DONE]", <<>>) \in InChunk
    BY <1>1 DEF InKinds
  <2>. QED BY <2>1, <2>2
<1>. QED BY <1>2, <1>3

LEMMA PartIsBlock ==
  ASSUME NEW p \in Sharing, NEW b \in AnyBlock
  PROVE  WholePart(p, b) \in AnyBlock
<1>1. b.text \in Seq(Token) /\ b.name \in Name
  BY DEF AnyBlock
<1>2. CASE b.type # "tool_use"
  BY <1>2 DEF WholePart
<1>3. CASE b.type = "tool_use" /\ p = "gemini"
  <2>1. "functionCall" \in BlockTypes /\ NoId \in Id
    BY EmptyHanded DEF BlockTypes
  <2>2. WholePart(p, b) = Block("functionCall", b.text, NoId, b.name)
    BY <1>3 DEF WholePart
  <2>. QED BY <1>1, <2>1, <2>2, BlockType
<1>4. CASE b.type = "tool_use" /\ p # "gemini"
  <2>1. WholePart(p, b) = [b EXCEPT !.type = "function"]
    BY <1>4 DEF WholePart
  <2>. QED BY <2>1 DEF AnyBlock, BlockTypes
<1>. QED BY <1>2, <1>3, <1>4

LEMMA FragmentsAreIn ==
  ASSUME NEW b \in AnyBlock
  PROVE  /\ Fragments("delta", b) \in Seq(InChunk)
         /\ DOMAIN Fragments("delta", b) = DOMAIN b.text
         /\ Named("delta", b) \in InChunk
<1>0. "delta" \in InKinds /\ b.text \in Seq(Token) /\ b.type \in BlockTypes /\ b.id \in Id /\ b.name \in Name
  BY DEF InKinds, AnyBlock
<1>1. ASSUME NEW d \in AnyBlock PROVE Chunk("delta", <<d>>) \in InChunk
  <2>1. <<d>> \in Seq(AnyBlock)
    BY One
  <2>. QED BY <1>0, <2>1 DEF Chunk, InChunk
<1>2. ASSUME NEW i \in DOMAIN b.text PROVE Fragments("delta", b)[i] \in InChunk
  <2>1. <<b.text[i]>> \in Seq(Token)
    BY <1>0, One
  <2>2. [b EXCEPT !.text = <<b.text[i]>>, !.id = NoId, !.name = ""]
          = Block(b.type, <<b.text[i]>>, NoId, "")
    BY <2>1, Rewritten
  <2>3. Block(b.type, <<b.text[i]>>, NoId, "") \in AnyBlock
    BY <1>0, <2>1, NamelessBlock
  <2>. QED BY <1>1, <2>2, <2>3 DEF Fragments
<1>3. [b EXCEPT !.text = <<>>] \in AnyBlock
  <2>1. <<>> \in Seq(Token)
    OBVIOUS
  <2>. QED BY <2>1 DEF AnyBlock
<1>4. Named("delta", b) \in InChunk
  BY <1>1, <1>3 DEF Named
<1> DEFINE s == Fragments("delta", b)
<1>5. DOMAIN s = DOMAIN b.text /\ s = [i \in DOMAIN b.text |-> s[i]]
  BY DEF Fragments
<1> HIDE DEF s
<1>6. s \in Seq(InChunk)
  <2>1. \A i \in DOMAIN b.text : s[i] \in InChunk
    BY <1>2 DEF s
  <2>. QED BY <1>0, <1>5, <2>1
<1>. QED BY <1>4, <1>5, <1>6 DEF s

LEMMA BundledIn ==
  ASSUME NEW p \in Sharing, NEW s \in Seq(AnyBlock), NEW joined
  PROVE  Bundled(p, s, joined) \in Seq(InChunk)
<1> DEFINE places == [i \in DOMAIN s |-> i]
           Pick(i, j) == IF i <= j /\ i .. (j - 1) \subseteq joined THEN <<WholePart(p, s[j])>> ELSE <<>>
           Group(i) == FlattenSeq([k \in DOMAIN places |-> Pick(i, places[k])])
           Opened(i) == IF i - 1 \in joined THEN <<>>
                        ELSE <<Chunk(IF i .. Len(s) \subseteq joined THEN "finish" ELSE "delta", Group(i))>>
           chunks == [k \in DOMAIN places |-> Opened(places[k])]
           end == IF Len(s) \in joined THEN <<>> ELSE StreamEnd(p)
<1>1. DOMAIN places = DOMAIN s /\ DOMAIN s = 1 .. Len(s) /\ Len(s) \in Nat
      /\ \A k \in DOMAIN s : places[k] = k
  OBVIOUS
<1>2. Bundled(p, s, joined) = FlattenSeq(chunks) \o end
  BY DEF Bundled, FlatMap, Each
<1>3. ASSUME NEW i PROVE Group(i) \in Seq(AnyBlock)
  <2> DEFINE h == [k \in DOMAIN places |-> Pick(i, places[k])]
  <2>1. ASSUME NEW k \in DOMAIN s PROVE h[k] \in Seq(AnyBlock)
    <3>1. WholePart(p, s[k]) \in AnyBlock
      <4>1. s[k] \in AnyBlock
        OBVIOUS
      <4>. QED BY <4>1, PartIsBlock
    <3>2. <<WholePart(p, s[k])>> \in Seq(AnyBlock) /\ <<>> \in Seq(AnyBlock)
      BY <3>1, One
    <3>3. h[k] = Pick(i, k)
      BY <1>1
    <3>. QED BY <3>2, <3>3
  <2>2. h = [k \in 1 .. Len(s) |-> h[k]]
    BY <1>1
  <2> HIDE DEF h, places
  <2>3. h \in Seq(Seq(AnyBlock))
    BY <1>1, <2>1, <2>2
  <2>4. FlattenSeq(h) \in Seq(AnyBlock)
    BY <2>3, FlattenType
  <2>. QED BY <2>4 DEF h
<1>4. ASSUME NEW k \in DOMAIN s PROVE chunks[k] \in Seq(InChunk)
  <2>1. chunks[k] = Opened(k)
    BY <1>1
  <2> HIDE DEF Group
  <2>2. /\ Chunk("finish", Group(k)) \in InChunk
        /\ Chunk("delta", Group(k)) \in InChunk
    BY <1>3 DEF Chunk, InChunk, InKinds
  <2>3. /\ <<Chunk("finish", Group(k))>> \in Seq(InChunk)
        /\ <<Chunk("delta", Group(k))>> \in Seq(InChunk)
        /\ <<>> \in Seq(InChunk)
    BY <2>2, One
  <2>. QED BY <2>1, <2>3
<1>5. chunks = [k \in 1 .. Len(s) |-> chunks[k]]
  BY <1>1
<1> HIDE DEF chunks, places
<1>6. chunks \in Seq(Seq(InChunk))
  BY <1>1, <1>4, <1>5
<1>7. FlattenSeq(chunks) \in Seq(InChunk)
  BY <1>6, FlattenType
<1>8. end \in Seq(InChunk)
  BY EndIsIn
<1>. QED BY <1>2, <1>7, <1>8, ConcatProperties
(* A sequence of sequences asked by a function of the elements.             *)
LEMMA FlatMapped ==
  ASSUME NEW X, NEW Y, NEW g, Sends(g, X, Seq(Y)), NEW s \in Seq(X)
  PROVE  FlattenSeq([i \in DOMAIN s |-> g[s[i]]]) \in Seq(Y)
<1>1. FlattenSeq([i \in DOMAIN s |-> g[s[i]]]) = Spread(g, s)
  BY DEF Spread, Mapped
<1>. QED BY <1>1, SpreadType

LEMMA WovenIn ==
  ASSUME NEW p \in Sharing, NEW s \in Seq(AnyBlock)
  PROVE  Woven(p, s) \in Seq(InChunk)
<1> DEFINE words == OfTypes(s, {"text"})
           asked  == OfTypes(s, {"tool_use"})
           calls == Renamed(asked, "tool_use", "function")
           cut   == [b \in AnyBlock |-> Fragments("delta", b)]
           texts == [b \in AnyBlock |-> b.text]
           all   == FlattenSeq([i \in DOMAIN calls |-> calls[i].text])
           Pick(n, b) == IF n \in DOMAIN b.text THEN <<Fragments("delta", b)[n]>> ELSE <<>>
           Nth(n) == FlattenSeq([i \in DOMAIN calls |-> Pick(n, calls[i])])
           first == FlattenSeq([i \in DOMAIN words |-> Fragments("delta", words[i])])
           names == [i \in DOMAIN calls |-> Named("delta", calls[i])]
           places == [n \in DOMAIN all |-> n]
           turns == [k \in DOMAIN places |-> Nth(places[k])]
<1>1. Woven(p, s) = first \o names \o FlattenSeq(turns) \o StreamEnd(p)
  BY DEF Woven, FlatMap, Each
<1>2. words \in Seq(AnyBlock) /\ asked \in Seq(AnyBlock)
  BY OfTypesType
<1>3. calls \in Seq(AnyBlock)
  <2> DEFINE g == [b \in AnyBlock |-> IF b.type = "tool_use" THEN [b EXCEPT !.type = "function"] ELSE b]
  <2>1. Sends(g, AnyBlock, AnyBlock)
    BY DEF Sends, AnyBlock, BlockTypes
  <2> HIDE DEF asked
  <2>2. calls = Mapped(g, asked)
    <3>1. \A i \in DOMAIN asked : asked[i] \in AnyBlock
      BY <1>2
    <3>. QED BY <3>1 DEF Renamed, Each, Mapped
  <2> HIDE DEF g, calls
  <2>. QED BY <1>2, <2>1, <2>2, MappedType
<1>4. Sends(cut, AnyBlock, Seq(InChunk)) /\ Sends(texts, AnyBlock, Seq(Token))
  <2>1. ASSUME NEW b \in AnyBlock PROVE Fragments("delta", b) \in Seq(InChunk) /\ b.text \in Seq(Token)
    BY FragmentsAreIn DEF AnyBlock
  <2>. QED BY <2>1 DEF Sends
<1> HIDE DEF words, asked, calls
<1>5. first \in Seq(InChunk)
  <2>1. \A i \in DOMAIN words : words[i] \in AnyBlock
    BY <1>2
  <2>2. first = FlattenSeq([i \in DOMAIN words |-> cut[words[i]]])
    BY <2>1
  <2> HIDE DEF cut, first
  <2>. QED BY <1>2, <1>4, <2>2, FlatMapped
<1>6. all \in Seq(Token)
  <2>1. \A i \in DOMAIN calls : calls[i] \in AnyBlock
    BY <1>3
  <2>2. all = FlattenSeq([i \in DOMAIN calls |-> texts[calls[i]]])
    BY <2>1
  <2> HIDE DEF texts, all
  <2>. QED BY <1>3, <1>4, <2>2, FlatMapped
<1>7. names \in Seq(InChunk)
  <2>1. ASSUME NEW i \in DOMAIN calls PROVE names[i] \in InChunk
    <3>1. calls[i] \in AnyBlock
      BY <1>3
    <3>. QED BY <3>1, FragmentsAreIn
  <2>2. DOMAIN calls = 1 .. Len(calls) /\ Len(calls) \in Nat /\ names = [i \in DOMAIN calls |-> names[i]]
    BY <1>3
  <2> HIDE DEF names
  <2>. QED BY <2>1, <2>2
<1>8. ASSUME NEW n PROVE Nth(n) \in Seq(InChunk)
  <2> DEFINE g == [b \in AnyBlock |-> Pick(n, b)]
  <2>1. Sends(g, AnyBlock, Seq(InChunk))
    <3> SUFFICES ASSUME NEW b \in AnyBlock PROVE Pick(n, b) \in Seq(InChunk)
      BY DEF Sends
    <3>1. <<>> \in Seq(InChunk)
      OBVIOUS
    <3>2. ASSUME n \in DOMAIN b.text PROVE <<Fragments("delta", b)[n]>> \in Seq(InChunk)
      <4>1. Fragments("delta", b)[n] \in InChunk
        <5>1. n \in DOMAIN Fragments("delta", b) /\ Fragments("delta", b) \in Seq(InChunk)
          BY <3>2, FragmentsAreIn
        <5>. QED BY <5>1
      <4>. QED BY <4>1, One
    <3>. QED BY <3>1, <3>2
  <2>2. Nth(n) = FlattenSeq([i \in DOMAIN calls |-> g[calls[i]]])
    <3>1. \A i \in DOMAIN calls : calls[i] \in AnyBlock
      BY <1>3
    <3>. QED BY <3>1
  <2> HIDE DEF g, Nth
  <2>. QED BY <1>3, <2>1, <2>2, FlatMapped
<1>9. FlattenSeq(turns) \in Seq(InChunk)
  <2>1. DOMAIN all = 1 .. Len(all) /\ Len(all) \in Nat
    <3> HIDE DEF all
    <3>. QED BY <1>6
  <2> HIDE DEF Nth, all
  <2>2. turns = [k \in 1 .. Len(all) |-> Nth(k)]
    BY <2>1
  <2> HIDE DEF turns
  <2>3. turns \in Seq(Seq(InChunk))
    BY <1>8, <2>1, <2>2
  <2>. QED BY <2>3, FlattenType
<1> HIDE DEF first, names, turns
<1>10. StreamEnd(p) \in Seq(InChunk)
  BY EndIsIn
<1>11. first \o names \in Seq(InChunk)
  BY <1>5, <1>7, ConcatProperties
<1>12. (first \o names) \o FlattenSeq(turns) \in Seq(InChunk)
  BY <1>9, <1>11, ConcatProperties
<1>. QED BY <1>1, <1>10, <1>12, ConcatProperties

(* A stream that is not cut apart is one of those.                         *)
LEMMA StreamsIn ==
  ASSUME NEW p \in Formats, NEW s \in Seq(AnyBlock), NEW how, how # "apart", NEW in \in Streams(p, s, how)
  PROVE  p \in Sharing /\ in \in Seq(InChunk)
<1>1. CASE how = "bundled" /\ p \in {"openai", "plain", "gemini"}
  <2>1. \E joined : in = Bundled(p, s, joined)
    BY <1>1 DEF Streams
  <2>2. p \in Sharing
    BY <1>1 DEF Sharing
  <2>. QED BY <2>1, <2>2, BundledIn
<1>2. CASE /\ how = "woven" /\ p \in {"openai", "plain"}
           /\ Len(OfTypes(s, {"tool_use"})) >= 2
  <2>1. in = Woven(p, s)
    BY <1>2 DEF Streams
  <2>2. p \in Sharing
    BY <1>2 DEF Sharing
  <2>. QED BY <2>1, <2>2, WovenIn
<1>3. CASE /\ ~(how = "bundled" /\ p \in {"openai", "plain", "gemini"})
           /\ ~(how = "woven" /\ p \in {"openai", "plain"} /\ Len(OfTypes(s, {"tool_use"})) >= 2)
  <2>1. Streams(p, s, how) = {}
    BY <1>3 DEF Streams
  <2>. QED BY <2>1
<1>. QED BY <1>1, <1>2, <1>3
(* What is read of such a chunk: one canonical block, an end or nothing.   *)
Silent == {Chunk("usage", <<>>), Chunk("done", <<>>), NoChunk}

LEMMA DeltaRead ==
  ASSUME NEW c, c.parts \in Seq(AnyBlock)
  PROVE  OpenAIDelta(c) \in Silent \/ \E u \in CanonBlock : OpenAIDelta(c) = AsChunk(u)
<1> DEFINE texts == Words(c.parts)
           calls == OfTypes(c.parts, {"function"})
<1>1. texts \in Seq(Token) /\ calls \in Seq(AnyBlock)
  BY WordsIs, OfTypesType
<1>2. OpenAIDelta(c) = (CASE texts # <<>>                 -> Delta(texts)
                          [] texts = <<>> /\ calls # <<>> -> CallDelta(calls[1])
                          [] OTHER                        -> NoChunk)
  BY DEF OpenAIDelta
<1> HIDE DEF texts, calls
<1>3. CASE texts # <<>>
  <2>1. OpenAIDelta(c) = AsChunk(Text(texts)) /\ Text(texts) \in CanonBlock
    BY <1>1, <1>2, <1>3, CanonText
  <2>. QED BY <2>1
<1>4. CASE texts = <<>> /\ calls # <<>>
  <2>1. calls[1] \in AnyBlock
    BY <1>1, <1>4
  <2> DEFINE b == calls[1]
             u == ToolUse(b.id, b.name, b.text)
  <2>2. b.text \in Seq(Token) /\ b.id \in Id /\ b.name \in Name
    BY <2>1 DEF AnyBlock
  <2>3. OpenAIDelta(c) = Chunk("tool_use_delta", <<u>>)
    BY <1>2, <1>4 DEF CallDelta
  <2> HIDE DEF b
  <2>4. u \in CanonBlock /\ AsChunk(u) = Chunk("tool_use_delta", <<u>>)
    BY <2>2, CanonCall
  <2>. QED BY <2>3, <2>4
<1>5. CASE texts = <<>> /\ calls = <<>>
  BY <1>2, <1>5 DEF Silent
<1>. QED BY <1>3, <1>4, <1>5

LEMMA PartRead ==
  ASSUME NEW d \in AnyBlock, d.type \in {"text", "functionCall"}, NEW i \in Nat
  PROVE  LET b == GeminiPartToBlock(d, i)
         IN  \E u \in CanonBlock : (IF b.type = "text" THEN Delta(b.text) ELSE CallDelta(b)) = AsChunk(u)
<1> DEFINE b == GeminiPartToBlock(d, i)
           c == IF b.type = "text" THEN Delta(b.text) ELSE CallDelta(b)
<1>0. d.text \in Seq(Token) /\ d.name \in Name
  BY DEF AnyBlock
<1>1. CASE d.type = "text"
  <2>1. b = Text(d.text)
    BY <1>1 DEF GeminiPartToBlock
  <2> HIDE DEF b
  <2>2. b.type = "text" /\ b.text = d.text
    BY <1>0, <2>1, CanonText
  <2>3. c = AsChunk(Text(d.text)) /\ Text(d.text) \in CanonBlock
    BY <1>0, <2>2, CanonText
  <2>. QED BY <2>3 DEF b
<1>2. CASE d.type = "functionCall"
  <2> DEFINE id == GeminiId(d.name, i)
             u == ToolUse(id, d.name, d.text)
  <2>1. b = u
    BY <1>2 DEF GeminiPartToBlock
  <2>2. id \in Id
    <3>1. id = <<d.name, i - 1>> /\ i - 1 \in Int
      BY DEF GeminiId
    <3>2. <<d.name, i - 1>> \in Name \X Int
      BY <1>0, <3>1
    <3>. QED BY <3>1, <3>2 DEF Id
  <2> HIDE DEF b, id
  <2>3. u \in CanonBlock /\ u.type = "tool_use" /\ AsChunk(u) = Chunk("tool_use_delta", <<u>>)
        /\ u.id = id /\ u.name = d.name /\ u.text = d.text
    BY <1>0, <2>2, CanonCall
  <2>4. c = CallDelta(u)
    BY <2>1, <2>3
  <2>5. CallDelta(u) = Chunk("tool_use_delta", <<u>>)
    BY <2>3 DEF CallDelta
  <2>. QED BY <2>3, <2>4, <2>5 DEF b
<1>. QED BY <1>1, <1>2

LEMMA GeminiRead ==
  ASSUME NEW c, c.parts \in Seq(AnyBlock)
  PROVE  GeminiChunkToCanonical(c) \in Silent \/ \E u \in CanonBlock : GeminiChunkToCanonical(c) = AsChunk(u)
<1> DEFINE known == {i \in DOMAIN c.parts : c.parts[i].type \in {"text", "functionCall"}}
           first == CHOOSE i \in known : \A j \in known : i <= j
           r == GeminiChunkToCanonical(c)
<1>1. CASE c.kind = "delta" /\ known # {}
  <2>1. DOMAIN c.parts \subseteq Nat
    OBVIOUS
  <2>2. \E i \in known : \A j \in known : i <= j
    <3>1. known \subseteq Nat
      BY <2>1
    <3> HIDE DEF known
    <3>. QED BY <1>1, <3>1, LeastNat
  <2>3. first \in known
    <3> HIDE DEF known
    <3>. QED BY <2>2
  <2>4. first \in Nat /\ c.parts[first] \in AnyBlock /\ c.parts[first].type \in {"text", "functionCall"}
    <3>1. first \in DOMAIN c.parts /\ c.parts[first].type \in {"text", "functionCall"}
      BY <2>3
    <3> HIDE DEF first
    <3>. QED BY <2>1, <3>1
  <2>5. r = LET b == GeminiPartToBlock(c.parts[first], first)
            IN  IF b.type = "text" THEN Delta(b.text) ELSE CallDelta(b)
    BY <1>1 DEF GeminiChunkToCanonical
  <2> HIDE DEF first, known, r
  <2>6. \E u \in CanonBlock : r = AsChunk(u)
    BY <2>4, <2>5, PartRead
  <2>. QED BY <2>6 DEF r
<1>2. CASE ~(c.kind = "delta" /\ known # {})
  <2>1. r = IF c.kind = "usage" THEN Chunk("usage", <<>>)
            ELSE IF c.kind = "finish" THEN Chunk("done", <<>>) ELSE NoChunk
    BY <1>2 DEF GeminiChunkToCanonical
  <2> HIDE DEF r
  <2>2. r \in Silent
    BY <2>1 DEF Silent
  <2>. QED BY <2>2 DEF r
<1>. QED BY <1>1, <1>2

LEMMA SharedRead ==
  ASSUME NEW p \in Sharing, NEW c \in InChunk
  PROVE  ChunkToCanonical(p, c) \in Silent \/ \E u \in CanonBlock : ChunkToCanonical(p, c) = AsChunk(u)
<1>0. c.parts \in Seq(AnyBlock)
  BY DEF InChunk
<1>1. CASE p = "gemini"
  <2>1. ChunkToCanonical(p, c) = GeminiChunkToCanonical(c)
    BY <1>1 DEF ChunkToCanonical
  <2>. QED BY <1>0, <2>1, GeminiRead
<1>2. CASE p # "gemini"
  <2>1. ChunkToCanonical(p, c) = OpenAIChunkToCanonical(c)
    BY <1>2 DEF ChunkToCanonical, Sharing
  <2>2. OpenAIChunkToCanonical(c) \in Silent \/ OpenAIChunkToCanonical(c) = OpenAIDelta(c)
    <3>1. CASE c.kind = "delta"
      BY <3>1 DEF OpenAIChunkToCanonical
    <3>2. CASE c.kind # "delta"
      BY <3>2 DEF OpenAIChunkToCanonical, Silent
    <3>. QED BY <3>1, <3>2
  <2>. QED BY <1>0, <2>1, <2>2, DeltaRead
<1>. QED BY <1>1, <1>2

(* What the client is written of it is a chunk of its format.              *)
LEMMA SharedWritten ==
  ASSUME NEW p \in Sharing, NEW f \in ClientFormats, NEW c \in InChunk, NEW out \in Seq(OutChunk)
  PROVE  With(out, Written(f, ChunkToCanonical(p, c))) \in Seq(OutChunk)
<1> DEFINE r == ChunkToCanonical(p, c)
           w == Written(f, r)
<1>1. r \in Silent \/ \E u \in CanonBlock : r = AsChunk(u)
  BY SharedRead
<1> HIDE DEF r
<1>2. w.kind # "null" => w \in OutChunk
  <2>1. CASE r \in Silent
    BY <2>1, EndWritten DEF Silent
  <2>2. CASE \E u \in CanonBlock : r = AsChunk(u)
    <3>1. PICK u \in CanonBlock : r = AsChunk(u)
      BY <2>2
    <3>2. r.kind \in {"content_delta", "tool_use_delta"}
      BY <3>1 DEF AsChunk, Chunk
    <3>3. w = ChunkFromCanonical(f, r)
      BY <3>2 DEF Written
    <3>4. PICK kind \in SaidKinds : w = Chunk(kind, <<Showing(f)[u]>>)
      BY <3>1, <3>3, Writes
    <3>5. <<Showing(f)[u]>> \in Seq(AnyBlock)
      <4>1. Showing(f)[u] \in AnyBlock
        BY Shows DEF Sends
      <4>. QED BY <4>1, One
    <3>. QED BY <3>4, <3>5 DEF Chunk, OutChunk, OutKinds
  <2>. QED BY <1>1, <2>1, <2>2
<1> HIDE DEF w
<1>3. With(out, w) \in Seq(OutChunk)
  BY <1>2 DEF With
<1>. QED BY <1>3 DEF w, r

-----------------------------------------------------------------------------
(* The conversation.  The format a client is answered in is the one the    *)
(* router took it for when it asked.                                       *)
ClientFormat == IF phase = "answered" THEN client.format ELSE Format

TalkTyped ==
  /\ client.format \in ClientFormats
  /\ IsSequence(history) /\ made \in Nat
  /\ phase # "composing" => Provider \in Providers

Fresh ==
  /\ phase \in {"composing", "sent"} => outgoing = <<>>
  /\ phase \in {"composing", "sent", "streaming", "ended"} => got = NoAnswer

AnswerSound ==
  phase = "answered" =>
    /\ history # <<>> /\ IsSequence(CallsOf(Last(history)))
    /\ WholeAnswerHeard /\ CallsToldApart

StreamSound ==
  /\ phase \in {"streaming", "ended"} \/ outgoing # <<>> =>
       /\ style \in Cuts
       /\ IF style = "apart"
          THEN Said(Provider, answer.blocks) /\ Relayed(Provider, ClientFormat, answer.blocks, outgoing)
          ELSE Provider \in Sharing /\ outgoing \in Seq(OutChunk)
  /\ phase = "streaming" =>
       IF style = "apart"
       THEN Provider = "ollama" \/ Flowing(Provider, ClientFormat, answer.blocks, incoming, outgoing)
       ELSE incoming \in Seq(InChunk)

TalkInv == TalkTyped /\ Fresh /\ AnswerSound /\ StreamSound

LEMMA FormatIs == client.format \in ClientFormats => Format \in ClientFormats
BY DEF Format, DetectClientFormat, ClientFormats

LEMMA FormatStays == UNCHANGED <<client, history>> => Format' = Format
BY DEF Format, Body, DetectClientFormat

LEMMA ProviderIs == ASSUME NEW p \in Providers PROVE p \in Formats
BY ConversationAssumption DEF Formats

LEMMA TalkStarts == Init => TalkInv
<1> SUFFICES ASSUME Init PROVE TalkInv
  OBVIOUS
<1>1. PICK c \in Clients, s \in Systems, t \in BOOLEAN, g \in BOOLEAN :
        client = [format |-> c[1], known |-> c[2], system |-> s, tools |-> t, gpt |-> g]
  BY DEF Init
<1>2. client.format = c[1]
  BY <1>1
<1>3. c[1] \in ClientFormats /\ \A opening \in Openings[c[1]] : IsSequence(opening)
  BY ConversationAssumption DEF ClientFormats, IsSequence
<1>4. IsSequence(history)
  BY <1>2, <1>3 DEF Init
<1>5. phase = "composing" /\ outgoing = <<>> /\ got = NoAnswer /\ made = 10
  BY DEF Init
<1>. QED BY <1>2, <1>3, <1>4, <1>5 DEF TalkInv, TalkTyped, Fresh, AnswerSound, StreamSound

LEMMA SendSound ==
  ASSUME TalkInv, NEW p \in Providers, NEW path, Send(p, path)
  PROVE  TalkInv'
<1>1. /\ phase = "composing" /\ phase' \in {"sent", "failed"} /\ to' = <<p, path>>
      /\ UNCHANGED <<client, history, outgoing, got, made>>
  BY DEF Send, talk
<1>2. outgoing = <<>> /\ got = NoAnswer
  BY <1>1 DEF TalkInv, Fresh
<1>3. Provider' = p
  BY <1>1 DEF Provider
<1>4. TalkTyped'
  BY <1>1, <1>3 DEF TalkInv, TalkTyped
<1>. QED BY <1>1, <1>2, <1>4 DEF TalkInv, Fresh, AnswerSound, StreamSound

(* A sequence with a further element.                                      *)
LEMMA Appended ==
  ASSUME NEW s, IsSequence(s), NEW x
  PROVE  IsSequence(Append(s, x)) /\ Append(s, x) # <<>> /\ Last(Append(s, x)) = x
<1> DEFINE X == Range(s) \cup {x}
<1>1. s \in Seq(X) /\ x \in X
  <2>1. s \in Seq(Range(s))
    BY DEF IsSequence
  <2>. QED BY <2>1
<1> HIDE DEF X
<1>2. Append(s, x) \in Seq(X) /\ Append(s, x) # <<>> /\ Append(s, x)[Len(Append(s, x))] = x
  BY <1>1
<1>3. IsSequence(Append(s, x))
  BY <1>2, Ranged
<1>. QED BY <1>2, <1>3 DEF Last

LEMMA JoinedSequences ==
  ASSUME NEW s, IsSequence(s), NEW t, IsSequence(t)
  PROVE  IsSequence(s \o t)
<1> DEFINE X == Range(s) \cup Range(t)
<1>1. s \in Seq(X) /\ t \in Seq(X)
  <2>1. s \in Seq(Range(s)) /\ t \in Seq(Range(t))
    BY DEF IsSequence
  <2> DEFINE A == Range(s)
             B == Range(t)
  <2> HIDE DEF A, B
  <2>2. s \in Seq(A) /\ t \in Seq(B)
    BY <2>1 DEF A, B
  <2>3. s \in Seq(A \cup B) /\ t \in Seq(A \cup B)
    BY <2>2
  <2>. QED BY <2>3 DEF A, B
<1> HIDE DEF X
<1>2. s \o t \in Seq(X)
  BY <1>1, ConcatProperties
<1>. QED BY <1>2, Ranged

(* What a provider says, as the model records it.                          *)
LEMMA KnownSays ==
  ASSUME TalkInv, phase = "sent", NEW said \in SaidBy(Provider), NEW known,
         known = [said EXCEPT !.blocks = Identified(@)]
  PROVE  /\ Provider \in Formats /\ Said(Provider, known.blocks) /\ known.cut \in BOOLEAN
         /\ made + Len(known.blocks) \in Nat
<1>1. Provider \in Providers /\ made \in Nat
  BY DEF TalkInv, TalkTyped
<1>2. Provider \in Formats
  BY <1>1, ProviderIs
<1>3. Said(Provider, Identified(said.blocks)) /\ said.cut \in BOOLEAN
  BY <1>1, IdentifiedSays
<1>4. said \in [blocks : Seq(AnswerBlock), cut : BOOLEAN]
  BY <1>1, AnswersAssumption DEF Tells
<1>5. known.blocks = Identified(said.blocks) /\ known.cut = said.cut
  BY <1>4
<1>6. known.blocks \in Seq(AnyBlock)
  BY <1>2, <1>3, <1>5, SaidTells
<1>7. Len(known.blocks) \in Nat
  BY <1>6
<1>. QED BY <1>1, <1>2, <1>3, <1>5, <1>7

LEMMA WholeSound ==
  ASSUME TalkInv, NEW said, AnswerWhole(said), Provider \in Formats, Said(Provider, said.blocks),
         said.cut \in BOOLEAN, made + Len(said.blocks) \in Nat
  PROVE  TalkInv'
<1> DEFINE p == Provider
           f == Format
           r == WireAnswer(said)
           g == ResponseFromCanonical(f, ResponseToCanonical(p, r))
<1>1. /\ phase = "sent" /\ answer' = said /\ made' = made + Len(said.blocks)
      /\ UNCHANGED <<client, to, outgoing>>
      /\ \/ phase' = "failed" /\ UNCHANGED <<got, history>>
         \/ /\ got' = g /\ phase' = IF Reads THEN "answered" ELSE "misread"
            /\ history' = IF Reads THEN Append(history, got'.message) ELSE history
  BY DEF AnswerWhole
<1>2. /\ client.format \in ClientFormats /\ IsSequence(history) /\ p \in Providers
      /\ outgoing = <<>> /\ got = NoAnswer
  BY <1>1 DEF TalkInv, TalkTyped, Fresh
<1>3. Provider' = Provider /\ outgoing' = <<>> /\ client'.format = client.format
  BY <1>1, <1>2 DEF Provider
<1>4. StreamSound'
  BY <1>1, <1>3 DEF StreamSound
<1>5. CASE phase' # "answered"
  <2>1. UNCHANGED history
    BY <1>1, <1>5
  <2>2. TalkTyped'
    BY <1>1, <1>2, <1>3, <2>1 DEF TalkTyped
  <2>3. Fresh' /\ AnswerSound'
    BY <1>1, <1>3, <1>5 DEF Fresh, AnswerSound
  <2>. QED BY <1>4, <2>2, <2>3 DEF TalkInv
<1>6. CASE phase' = "answered"
  <2>1. Reads /\ got' = g /\ history' = Append(history, g.message)
    BY <1>1, <1>6
  <2>2. f = client.format /\ f \in ClientFormats
    BY <1>2, <2>1 DEF Reads
  <2>3. r.message = WriteAnswer(p, said.blocks) /\ r.stop = WireStop(p, said)
    BY DEF WireAnswer
  <2>4. g = ResponseFromCanonical(f, ResponseToCanonical(p, r))
    OBVIOUS
  <2> HIDE DEF g, p, f, r
  <2>5. /\ IsSequence(CallsOf(g.message))
        /\ f # "gemini" => ToldApart(CallsOf(g.message))
        /\ ~(f = "gemini" /\ HasThoughts(said.blocks)) =>
             TalkOf(g.message) = Spoken("assistant", said.blocks)
        /\ "ollama" \notin {p, f} => (g.stop \in {"length", "max_tokens", "MAX_TOKENS"} <=> said.cut)
    <3>1. p \in Formats /\ Said(p, said.blocks)
      BY DEF p
    <3>. QED BY <2>2, <2>3, <2>4, <3>1, WholeAnswer
  <2>6. IsSequence(history') /\ history' # <<>> /\ Last(history') = g.message
    BY <1>2, <2>1, Appended
  <2>7. TalkTyped'
    BY <1>1, <1>2, <1>3, <2>6 DEF TalkTyped, p
  <2>8. Fresh'
    BY <1>6 DEF Fresh
  <2>9. CallsToldApart'
    BY <1>3, <2>2, <2>5, <2>6 DEF CallsToldApart, ToldApart, ToldApartIn
  <2>10. WholeAnswerHeard'
    <3> SUFFICES ASSUME ~(client'.format = "gemini" /\ HasThoughts(answer'.blocks))
                 PROVE  /\ TalkOf(got'.message) = Spoken("assistant", answer'.blocks)
                        /\ "ollama" \notin {Provider', client'.format} =>
                             (got'.stop \in {"length", "max_tokens", "MAX_TOKENS"} <=> answer'.cut)
      BY DEF WholeAnswerHeard, HasThoughts, StopTold
    <3>. QED BY <1>1, <1>3, <2>1, <2>2, <2>5 DEF p
  <2>11. AnswerSound'
    BY <2>5, <2>6, <2>9, <2>10 DEF AnswerSound
  <2>. QED BY <1>4, <2>7, <2>8, <2>11 DEF TalkInv
<1>. QED BY <1>5, <1>6

LEMMA InChunksSound ==
  ASSUME TalkInv, NEW said, AnswerInChunks(said), Provider \in Formats, Said(Provider, said.blocks),
         made + Len(said.blocks) \in Nat
  PROVE  TalkInv'
<1>1. /\ phase = "sent" /\ phase' = "streaming" /\ answer' = said /\ made' = made + Len(said.blocks)
      /\ style' \in Cuts /\ incoming' \in Streams(Provider, said.blocks, style') /\ outgoing' = <<>>
      /\ UNCHANGED <<client, history, to, got>>
  BY DEF AnswerInChunks
<1>2. Provider' = Provider /\ Format' = Format
  BY <1>1, FormatStays DEF Provider
<1>3. Format \in ClientFormats /\ said.blocks \in Seq(TellBlock(Provider)) /\ said.blocks \in Seq(AnyBlock)
  BY FormatIs, SaidTells DEF TalkInv, TalkTyped
<1>4. ClientFormat' = Format
  BY <1>1, <1>2 DEF ClientFormat
<1>5. StreamSound'
  <2>1. CASE style' = "apart"
    <3>1. incoming' = StreamAnswer(Provider, said.blocks)
      BY <1>1, <2>1 DEF Streams
    <3>2. Flowing(Provider, Format, said.blocks, incoming', outgoing')
      BY <1>1, <1>3, <3>1, FlowStarts
    <3>. QED BY <1>1, <1>2, <1>4, <2>1, <3>2, FlowingRelayed DEF StreamSound
  <2>2. CASE style' # "apart"
    <3>1. Provider \in Sharing /\ incoming' \in Seq(InChunk)
      BY <1>1, <1>3, <2>2, StreamsIn
    <3>2. outgoing' \in Seq(OutChunk)
      <4>1. <<>> \in Seq(OutChunk)
        OBVIOUS
      <4>. QED BY <1>1, <4>1
    <3>. QED BY <1>1, <1>2, <2>2, <3>1, <3>2 DEF StreamSound
  <2>. QED BY <2>1, <2>2
<1>6. TalkTyped' /\ Fresh' /\ AnswerSound'
  BY <1>1, <1>2 DEF TalkInv, TalkTyped, Fresh, AnswerSound
<1>. QED BY <1>5, <1>6 DEF TalkInv

LEMMA RelaySound ==
  ASSUME TalkInv, Relay
  PROVE  TalkInv'
<1> DEFINE p == Provider
           f == Format
           s == answer.blocks
           c == ReadLine(Head(incoming))
<1>1. /\ phase = "streaming" /\ incoming # <<>>
      /\ UNCHANGED <<client, history, to, answer, style, got, made>>
      /\ \/ phase' = "failed" /\ UNCHANGED outgoing
         \/ /\ incoming' = IF c.kind = "done" THEN <<>> ELSE Tail(incoming)
            /\ outgoing' = With(outgoing, Written(f, c))
            /\ phase' = IF c.kind = "done" THEN "ended" ELSE phase
  <2>1. (IF Kept(c) THEN WriteChunk(c) ELSE NoChunk) = Written(f, c)
    BY DEF Kept, WriteChunk, Written
  <2>2. \A w : (IF Kept(w) THEN Append(outgoing, w) ELSE outgoing) = With(outgoing, w)
    BY DEF Kept, With
  <2>. QED BY <2>1, <2>2 DEF Relay
<1>2. Provider' = p /\ Format' = f /\ answer'.blocks = s
  BY <1>1, FormatStays DEF Provider
<1>3. ClientFormat = f /\ ClientFormat' = f
  BY <1>1, <1>2 DEF ClientFormat
<1>4. p \in Providers /\ p \in Formats /\ f \in ClientFormats
  BY <1>1, FormatIs, ProviderIs DEF TalkInv, TalkTyped
<1>5. TalkTyped' /\ Fresh' /\ AnswerSound'
  BY <1>1, <1>2 DEF TalkInv, TalkTyped, Fresh, AnswerSound
<1>6. CASE phase' = "failed" /\ UNCHANGED outgoing
  <2>1. StreamSound'
    BY <1>1, <1>2, <1>3, <1>6 DEF TalkInv, StreamSound
  <2>. QED BY <1>5, <2>1 DEF TalkInv
<1>7. CASE /\ incoming' = IF c.kind = "done" THEN <<>> ELSE Tail(incoming)
           /\ outgoing' = With(outgoing, Written(f, c))
           /\ phase' = IF c.kind = "done" THEN "ended" ELSE phase
  <2>1. CASE style = "apart" /\ p = "ollama"
    <3>1. c = NoChunk
      BY <2>1 DEF ReadLine
    <3>2. c.kind = "null"
      BY <3>1 DEF NoChunk, Chunk
    <3> HIDE DEF c
    <3>3. Written(f, c) = NoChunk
      BY <3>2 DEF Written
    <3>4. With(outgoing, NoChunk) = outgoing
      BY DEF With, NoChunk, Chunk
    <3>5. outgoing' = outgoing
      BY <1>7, <3>3, <3>4
    <3>6. StreamSound'
      BY <1>1, <1>2, <1>3, <2>1, <3>5 DEF TalkInv, StreamSound
    <3>. QED BY <1>5, <3>6 DEF TalkInv
  <2>2. CASE style = "apart" /\ p # "ollama"
    <3>1. c = ChunkToCanonical(p, Head(incoming))
      BY <2>2 DEF ReadLine
    <3>2. Said(p, s) /\ Relayed(p, f, s, outgoing) /\ Flowing(p, f, s, incoming, outgoing)
      BY <1>1, <1>3, <2>2 DEF TalkInv, StreamSound
    <3> HIDE DEF p, f, s, c
    <3>3. /\ Relayed(p, f, s, With(outgoing, Written(f, c)))
          /\ c.kind # "done" => Flowing(p, f, s, Tail(incoming), With(outgoing, Written(f, c)))
      BY <1>1, <1>4, <3>1, <3>2, FlowsOn
    <3>4. Relayed(p, f, s, outgoing')
      BY <1>7, <3>3
    <3>5. phase' = "streaming" => Flowing(p, f, s, incoming', outgoing')
      BY <1>7, <3>3
    <3>6. style \in Cuts
      BY <1>1 DEF TalkInv, StreamSound
    <3>7. StreamSound'
      BY <1>1, <1>2, <1>3, <2>2, <3>2, <3>4, <3>5, <3>6 DEF StreamSound
    <3>. QED BY <1>5, <3>7 DEF TalkInv
  <2>3. CASE style # "apart"
    <3>1. style \in Cuts /\ p \in Sharing /\ outgoing \in Seq(OutChunk) /\ incoming \in Seq(InChunk)
      BY <1>1, <2>3 DEF TalkInv, StreamSound
    <3>2. c = ChunkToCanonical(p, Head(incoming))
      BY <3>1 DEF ReadLine, Sharing
    <3>3. Head(incoming) \in InChunk /\ Tail(incoming) \in Seq(InChunk) /\ <<>> \in Seq(InChunk)
      BY <1>1, <3>1
    <3> HIDE DEF p, f, c
    <3>4. With(outgoing, Written(f, c)) \in Seq(OutChunk)
      BY <1>4, <3>1, <3>2, <3>3, SharedWritten
    <3>5. outgoing' \in Seq(OutChunk) /\ incoming' \in Seq(InChunk)
      BY <1>7, <3>3, <3>4
    <3>6. StreamSound'
      BY <1>1, <1>2, <2>3, <3>1, <3>5 DEF StreamSound
    <3>. QED BY <1>5, <3>6 DEF TalkInv
  <2>. QED BY <2>1, <2>2, <2>3
<1>. QED BY <1>1, <1>6, <1>7

LEMMA SourceEndsSound ==
  ASSUME TalkInv, SourceEnds
  PROVE  TalkInv'
<1>1. /\ phase = "streaming" /\ phase' = "ended"
      /\ UNCHANGED <<client, history, to, answer, style, outgoing, got, made>>
  BY DEF SourceEnds
<1>2. Provider' = Provider /\ Format' = Format
  BY <1>1, FormatStays DEF Provider
<1>3. ClientFormat = Format /\ ClientFormat' = Format
  BY <1>1, <1>2 DEF ClientFormat
<1>4. StreamSound'
  BY <1>1, <1>2, <1>3 DEF TalkInv, StreamSound
<1>5. TalkTyped' /\ Fresh' /\ AnswerSound'
  BY <1>1, <1>2 DEF TalkInv, TalkTyped, Fresh, AnswerSound
<1>. QED BY <1>4, <1>5 DEF TalkInv

LEMMA AssembleSound ==
  ASSUME TalkInv, Assemble
  PROVE  TalkInv'
<1> DEFINE f == Format
           m == WriteAnswer(f, Assembled(outgoing))
<1>1. /\ phase = "ended" /\ UNCHANGED <<client, to, answer, style, incoming, outgoing, got, made>>
      /\ \/ /\ Reads /\ Complete /\ phase' = "answered"
            /\ history' = Append(history, WriteAnswer(client.format, Assembled(outgoing)))
         \/ phase' = (IF Reads THEN "failed" ELSE "misread") /\ UNCHANGED history
  BY DEF Assemble, talk
<1>2. /\ Provider' = Provider /\ Provider \in Formats /\ Provider \in Providers /\ got = NoAnswer
      /\ client.format \in ClientFormats /\ IsSequence(history) /\ made \in Nat
  BY <1>1, ProviderIs DEF TalkInv, TalkTyped, Fresh, Provider
<1>3. /\ style \in Cuts /\ style # "none"
      /\ style = "apart" =>
           Said(Provider, answer.blocks) /\ Relayed(Provider, f, answer.blocks, outgoing)
      /\ style # "apart" => Provider \in Sharing /\ outgoing \in Seq(OutChunk)
  BY <1>1, ConversationAssumption DEF TalkInv, StreamSound, ClientFormat
<1>4. Fresh'
  BY <1>1 DEF Fresh
<1>5. CASE UNCHANGED history /\ phase' \notin {"answered", "streaming"}
  <2>1. Format' = f
    BY <1>1, <1>5, FormatStays
  <2>2. ClientFormat' = f
    BY <1>5, <2>1 DEF ClientFormat
  <2>3. StreamSound'
    BY <1>1, <1>2, <1>3, <1>5, <2>2 DEF StreamSound
  <2>4. TalkTyped'
    BY <1>1, <1>2, <1>5 DEF TalkTyped
  <2>5. AnswerSound'
    BY <1>5 DEF AnswerSound
  <2>. QED BY <1>4, <2>3, <2>4, <2>5 DEF TalkInv
<1>6. CASE /\ Reads /\ Complete /\ phase' = "answered"
           /\ history' = Append(history, WriteAnswer(client.format, Assembled(outgoing)))
  <2>1. f = client.format /\ ClientFormat' = f
    BY <1>1, <1>6 DEF Reads, ClientFormat
  <2>2. history' = Append(history, m)
    BY <1>6, <2>1
  <2>3. IsSequence(history') /\ history' # <<>> /\ Last(history') = m
    BY <1>2, <2>2, Appended
  <2>4. f \in ClientFormats /\ Done(outgoing)
    BY <1>2, <1>6, <2>1 DEF Complete, Done
  <2>5. /\ IsSequence(CallsOf(m))
        /\ style = "apart" /\ Provider # "gemini" /\ f # "gemini" => ToldApart(CallsOf(m))
    <3> HIDE DEF f
    <3>1. CASE style = "apart"
      <4>1. answer.blocks \in Seq(TellBlock(Provider)) /\ Distinct(answer.blocks, {"tool_use"})
        BY <1>2, <1>3, <3>1, SaidTells
      <4>. QED BY <1>2, <1>3, <2>4, <3>1, <4>1, StreamAnswered
    <3>2. CASE style # "apart"
      <4>1. PartsOf(outgoing) \in Seq(AnyBlock)
        BY <1>3, <3>2, PartsOfIs
      <4>2. Assembled(outgoing) \in Seq(AnyBlock)
        BY <4>1, AssembledFine DEF Assembled
      <4>3. IsSequence(CallsOf(m))
        BY <2>4, <4>2, AssembledCalls
      <4>. QED BY <3>2, <4>3
    <3>. QED BY <3>1, <3>2
  <2> HIDE DEF m
  <2>7. StreamSound'
    BY <1>1, <1>2, <1>3, <1>6, <2>1 DEF StreamSound
  <2>8. TalkTyped'
    BY <1>1, <1>2, <2>3 DEF TalkTyped
  <2>9. WholeAnswerHeard'
    BY <1>1, <1>2 DEF WholeAnswerHeard, NoAnswer
  <2>10. CallsToldApart'
    <3>1. /\ client'.format = f /\ Provider' = Provider /\ got' = NoAnswer
          /\ style' = style /\ style # "none"
      BY <1>1, <1>2, <1>3, <2>1
    <3> HIDE DEF f
    <3>. QED BY <2>3, <2>5, <3>1 DEF CallsToldApart, ToldApart, ToldApartIn
  <2>11. AnswerSound'
    BY <2>3, <2>5, <2>9, <2>10 DEF AnswerSound
  <2>. QED BY <1>4, <2>7, <2>8, <2>11 DEF TalkInv
<1>. QED BY <1>1, <1>5, <1>6

(* Going on ends what was sound of the answer, and starts afresh.          *)
LEMMA ContinueSound ==
  ASSUME TalkInv, NEW messages, IsSequence(messages), Continue(messages)
  PROVE  TalkInv'
<1>1. /\ phase' = "composing" /\ history' = history \o messages /\ outgoing' = <<>> /\ got' = NoAnswer
      /\ UNCHANGED <<client, made>>
  BY DEF Continue
<1>2. IsSequence(history \o messages)
  BY JoinedSequences DEF TalkInv, TalkTyped
<1>3. TalkTyped'
  BY <1>1, <1>2 DEF TalkInv, TalkTyped
<1>. QED BY <1>1, <1>3 DEF TalkInv, Fresh, AnswerSound, StreamSound, NoAnswer

LEMMA Alone == ASSUME NEW x PROVE IsSequence(<<x>>)
<1>1. x \in {x}
  OBVIOUS
<1>. QED BY <1>1, One, Ranged

LEMMA ResultsSequence ==
  ASSUME NEW f \in ClientFormats, NEW calls, IsSequence(calls), NEW results
  PROVE  IsSequence(WriteResults(f, calls, results))
<1>1. CASE f \in Chat
  <2> DEFINE w == [i \in DOMAIN calls |-> Wire("tool", Str(results[i]), <<>>, calls[i].id)]
             X == {Wire("tool", Str(results[i]), <<>>, calls[i].id) : i \in DOMAIN calls}
  <2>1. calls \in Seq(Range(calls))
    BY DEF IsSequence
  <2>2. DOMAIN calls = 1 .. Len(calls) /\ Len(calls) \in Nat
    BY <2>1
  <2>3. \A i \in DOMAIN calls : w[i] \in X
    OBVIOUS
  <2>4. w = [i \in DOMAIN calls |-> w[i]] /\ DOMAIN w = DOMAIN calls
    OBVIOUS
  <2>5. WriteResults(f, calls, results) = w
    BY <1>1 DEF WriteResults, Chat
  <2> HIDE DEF w, X
  <2>6. w \in Seq(X)
    BY <2>2, <2>3, <2>4
  <2>. QED BY <2>5, <2>6, Ranged
<1>2. CASE f \notin Chat
  <2>1. f \in {"anthropic", "gemini"}
    BY <1>2 DEF ClientFormats, Chat
  <2>2. \E x : WriteResults(f, calls, results) = <<x>>
    BY <2>1 DEF WriteResults, Chat
  <2>. QED BY <2>2, Alone
<1>. QED BY <1>1, <1>2

LEMMA ReturnSound ==
  ASSUME TalkInv, ReturnResults
  PROVE  TalkInv'
<1> DEFINE calls   == CallsOf(Last(history))
           results == SubSeq(Results, Len(CallsAmong(Exchange(history))) - Len(calls) + 1, Len(Results))
           w       == WriteResults(client.format, calls, results)
<1>1. Continue(w)
  BY DEF ReturnResults
<1>2. phase = "answered"
  BY <1>1 DEF Continue
<1>3. IsSequence(calls) /\ client.format \in ClientFormats
  BY <1>2 DEF TalkInv, TalkTyped, AnswerSound
<1> HIDE DEF calls, results
<1>4. IsSequence(w)
  BY <1>3, ResultsSequence
<1> HIDE DEF w
<1>. QED BY <1>1, <1>4, ContinueSound

LEMMA AskSound ==
  ASSUME TalkInv, AskMore
  PROVE  TalkInv'
<1> DEFINE more == Plain("user", IF client.format = "gemini" THEN Arr(<<Text(<<"more">>)>>)
                                 ELSE Str(<<"more">>))
<1>1. Continue(<<more>>)
  BY DEF AskMore
<1> HIDE DEF more
<1>. QED BY <1>1, Alone, ContinueSound

LEMMA AnswerSteps ==
  ASSUME TalkInv, Answer
  PROVE  TalkInv'
<1>1. PICK said \in SaidBy(Provider) :
        LET known == [said EXCEPT !.blocks = Identified(@)]
        IN  AnswerWhole(known) \/ AnswerInChunks(known)
  BY DEF Answer
<1> DEFINE known == [said EXCEPT !.blocks = Identified(@)]
<1>2. AnswerWhole(known) \/ AnswerInChunks(known)
  BY <1>1
<1>3. known = [said EXCEPT !.blocks = Identified(@)]
  OBVIOUS
<1> HIDE DEF known
<1>4. phase = "sent"
  BY <1>2 DEF AnswerWhole, AnswerInChunks
<1>5. /\ Provider \in Formats /\ Said(Provider, known.blocks) /\ known.cut \in BOOLEAN
      /\ made + Len(known.blocks) \in Nat
  BY <1>3, <1>4, KnownSays
<1>. QED BY <1>2, <1>5, WholeSound, InChunksSound

LEMMA TalkStep == TalkInv /\ [Next]_vars => TalkInv'
<1> SUFFICES ASSUME TalkInv, [Next]_vars PROVE TalkInv'
  OBVIOUS
<1>1. ASSUME NEW p \in Providers, NEW path \in {"fallback", "compose", "library"}, Send(p, path)
      PROVE  TalkInv'
  BY <1>1, SendSound
<1>2. CASE Answer
  BY <1>2, AnswerSteps
<1>3. CASE Relay
  BY <1>3, RelaySound
<1>4. CASE SourceEnds
  BY <1>4, SourceEndsSound
<1>5. CASE Assemble
  BY <1>5, AssembleSound
<1>6. CASE ReturnResults
  BY <1>6, ReturnSound
<1>7. CASE AskMore
  BY <1>7, AskSound
<1>8. CASE UNCHANGED vars
  <2>1. /\ UNCHANGED <<client, history, phase, to, answer, style, incoming, outgoing, got, made>>
        /\ Provider' = Provider /\ Format' = Format
    BY <1>8, FormatStays DEF vars, talk, Provider
  <2>2. ClientFormat' = ClientFormat
    BY <2>1 DEF ClientFormat
  <2>3. WholeAnswerHeard' = WholeAnswerHeard /\ CallsToldApart' = CallsToldApart
    BY <2>1 DEF WholeAnswerHeard, CallsToldApart, ToldApartIn, StopTold
  <2>4. TalkTyped' /\ Fresh' /\ AnswerSound'
    BY <2>1, <2>3 DEF TalkInv, TalkTyped, Fresh, AnswerSound
  <2>5. StreamSound'
    BY <2>1, <2>2 DEF TalkInv, StreamSound
  <2>. QED BY <2>4, <2>5 DEF TalkInv
<1>. QED BY <1>1, <1>2, <1>3, <1>4, <1>5, <1>6, <1>7, <1>8 DEF Next

(* The invariant says of whole answers what is to be shown; of a stream,   *)
(* that what was written is a beginning of the answer: the client hears it. *)
LEMMA TalkHeard == TalkInv => AnswerHeard
<1> SUFFICES ASSUME TalkInv PROVE AnswerHeard
  OBVIOUS
<1>1. WholeAnswerHeard /\ CallsToldApart
  BY DEF TalkInv, AnswerSound, WholeAnswerHeard, CallsToldApart
<1>2. ASSUME style = "apart", ~CallsReshaped, Reads, outgoing # <<>>
      PROVE  /\ IsPrefix(HeardIn(outgoing), Streamed)
             /\ Complete => HeardIn(outgoing) = Streamed
  <2> DEFINE p == Provider
             f == client.format
             s == answer.blocks
             pieces == AllPieces("assistant", s)
  <2>1. f = Format /\ ClientFormat = f
    BY <1>2 DEF Reads, ClientFormat
  <2>2. p \in Formats /\ f \in ClientFormats
    <3>1. phase # "composing"
      BY <1>2 DEF TalkInv, Fresh
    <3>. QED BY <3>1, ProviderIs DEF TalkInv, TalkTyped
  <2>3. Said(p, s) /\ Relayed(p, f, s, outgoing)
    BY <1>2, <2>1 DEF TalkInv, StreamSound
  <2>4. OfTypes(s, {"tool_use"}) = <<>> \/ ~Reshapes(f, p)
    BY <1>2 DEF CallsReshaped, HasCalls, Reshapes
  <2>5. Streamed = [i \in DOMAIN pieces |->
                      IF pieces[i].kind = "thought" THEN [pieces[i] EXCEPT !.kind = "text"] ELSE pieces[i]]
    BY DEF Streamed, Each
  <2>6. (Complete <=> Done(outgoing))
    BY DEF Complete, Done
  <2> HIDE DEF p, f, s
  <2>7. s \in Seq(HeardBlock(p, f)) /\ s \in Seq(TellBlock(p))
    BY <2>2, <2>3, <2>4, SaidHeard, SaidTells
  <2>8. Mapped(ToText, pieces) = Told(p, s) /\ pieces \in Seq(AnyPiece)
    BY <2>2, <2>7, StreamedIs
  <2> HIDE DEF pieces
  <2>9. Streamed = Mapped(ToText, pieces)
    <3>1. \A i \in DOMAIN pieces : pieces[i] \in AnyPiece
      BY <2>8
    <3>2. \A i \in DOMAIN pieces :
            ToText[pieces[i]] =
              IF pieces[i].kind = "thought" THEN [pieces[i] EXCEPT !.kind = "text"] ELSE pieces[i]
      BY <3>1 DEF ToText
    <3>. QED BY <2>5, <3>2 DEF Mapped
  <2>10. /\ IsPrefix(HeardIn(outgoing), Told(p, s))
         /\ Done(outgoing) => HeardIn(outgoing) = Told(p, s)
    BY <2>2, <2>3, <2>7, RelayedHeard
  <2>. QED BY <2>6, <2>8, <2>9, <2>10
<1>3. StreamHeardInOrder
  BY <1>2 DEF StreamHeardInOrder
<1>. QED BY <1>1, <1>3 DEF AnswerHeard

(* Whatever formats the providers and clients have, whatever a provider    *)
(* says and however it cuts its streams: the whole answer router.ts makes  *)
(* of what provider.ts read, with the two transformers, tells the client   *)
(* its words, its calls and that it was cut off.  The chunks stream.ts     *)
(* writes of a stream with one part to a chunk tell it a beginning, and    *)
(* all once it is told the stream is done.  Calls have identifiers of      *)
(* their own.  Nothing is claimed of a stream whose chunks hold several    *)
(* parts or weave the arguments of several calls: the code loses some.     *)
THEOREM AnswersAlwaysHeard == Spec => []AnswerHeard
<1>1. Init => TalkInv
  BY TalkStarts
<1>2. TalkInv /\ [Next]_vars => TalkInv'
  BY TalkStep
<1>3. TalkInv => AnswerHeard
  BY TalkHeard
<1>. QED BY <1>1, <1>2, <1>3, PTL DEF Spec
=============================================================================
