--------------------------- MODULE SseStreamProofs ---------------------------
(***************************************************************************)
(* The SSE parser, for every body and every way to cut it into chunks.     *)
(*                                                                         *)
(* Everything the model computes from a text is computed character by      *)
(* character, by a machine in the sense of DataLemmas: the reference       *)
(* reader (Read) and the scanner of a block (Scanned).  Three facts carry  *)
(* the proof:                                                              *)
(*   - reading two texts one after the other is reading them joined;       *)
(*   - reading a block and its blank line is parsing the block             *)
(*     (BlockRead), so cutting a block off the buffer changes nothing;     *)
(*   - breaking every character of two bytes commutes with reading         *)
(*     (BrokenRead), and what is decoded is, once broken, what arrived     *)
(*     (RawIsBroken), wherever it was cut.                                 *)
(***************************************************************************)
EXTENDS SseStream, DataLemmas

-----------------------------------------------------------------------------
(* Decoding                                                                *)

Piece(c) == IF c \in {"hi", "lo"} THEN <<"bad">> ELSE <<c>>
Pieces(bytes) == [k \in DOMAIN bytes |-> Decoded(bytes, k)]
EndsInHi(s) == s # <<>> /\ s[Len(s)] = "hi"

LEMMA DecodedType ==
  ASSUME NEW s \in Seq(Bytes), NEW k \in 1..Len(s)
  PROVE  Decoded(s, k) \in Seq(Chars)
<1>1. s[k] \in Bytes
  BY ElementOfSeq
<1>2. <<>> \in Seq(Chars) /\ <<"wide">> \in Seq(Chars) /\ <<"bad">> \in Seq(Chars)
  BY DEF Chars
<1>3. s[k] \notin {"hi", "lo"} => <<s[k]>> \in Seq(Chars)
  BY <1>1 DEF Chars
<1>. QED  BY <1>2, <1>3 DEF Decoded

LEMMA PiecesType == \A s \in Seq(Bytes) : Pieces(s) \in Seq(Seq(Chars))
<1> TAKE s \in Seq(Bytes)
<1>1. Len(s) \in Nat /\ DOMAIN s = 1..Len(s)
  BY LenProperties
<1>2. Pieces(s) \in [1..Len(s) -> Seq(Chars)]
  BY <1>1, DecodedType DEF Pieces
<1>. QED  BY <1>1, <1>2, IsASeq

LEMMA DecodeType == \A s \in Seq(Bytes) : Decode(s) \in Seq(Chars)
  BY PiecesType, FlatIn DEF Decode, Pieces

(* A byte that does not complete a character.                              *)
LEMMA PiecesAfter ==
  ASSUME NEW s \in Seq(Bytes), NEW c \in Bytes, ~(EndsInHi(s) /\ c = "lo")
  PROVE  Pieces(Append(s, c)) = Append(Pieces(s), Piece(c))
<1> DEFINE t == Append(s, c)
<1>1. /\ Len(s) \in Nat /\ DOMAIN s = 1..Len(s) /\ t \in Seq(Bytes)
      /\ Len(t) = Len(s) + 1 /\ DOMAIN t = 1..(Len(s) + 1)
      /\ t[Len(s) + 1] = c /\ \A k \in 1..Len(s) : t[k] = s[k]
  BY LenProperties, AppendProperties
<1>2. Len(s) # 0 => (s # <<>>)
  BY EmptySeq
<1>. HIDE DEF t
<1>3. ASSUME NEW k \in 1..Len(s)  PROVE Decoded(t, k) = Decoded(s, k)
  <2>1. k > 1 => t[k - 1] = s[k - 1]
    BY <1>1
  <2>2. t[k] = s[k] /\ k < Len(t)
    BY <1>1
  <2>3. k < Len(s) => t[k + 1] = s[k + 1]
    BY <1>1
  <2>4. ~(k < Len(s)) => k = Len(s) /\ t[k + 1] = c /\ Len(s) # 0
    <3>1. k \in Nat /\ k # 0 /\ k <= Len(s) /\ Len(s) \in Nat
      BY <1>1
    <3>2. ~(k < Len(s)) => k = Len(s) /\ Len(s) # 0
      BY <3>1
    <3>3. t[Len(s) + 1] = c
      BY <1>1
    <3>. QED  BY <3>2, <3>3
  <2>5. (t[k] = "hi" /\ t[k + 1] = "lo") <=> (s[k] = "hi" /\ k < Len(s) /\ s[k + 1] = "lo")
    BY <1>2, <2>2, <2>3, <2>4 DEF EndsInHi
  <2>. QED  BY <2>1, <2>2, <2>5 DEF Decoded
<1>4. Decoded(t, Len(s) + 1) = Piece(c)
  <2>1. Len(s) + 1 > 1 => t[(Len(s) + 1) - 1] = s[Len(s)] /\ Len(s) # 0
    BY <1>1
  <2>2. ~(Len(s) + 1 < Len(t)) /\ t[Len(s) + 1] = c
    BY <1>1
  <2>3. ~(c = "lo" /\ Len(s) + 1 > 1 /\ t[(Len(s) + 1) - 1] = "hi")
    BY <1>2, <2>1 DEF EndsInHi
  <2>. QED  BY <2>2, <2>3 DEF Decoded, Piece
<1> DEFINE f == Pieces(s)
           g == Pieces(t)
<1>5. Maps(f, s)
  BY DEF Maps, Pieces
<1>6. Maps(g, t)
  BY DEF Maps, Pieces
<1>7. AgreeOn(f, g, s)
  BY <1>1, <1>3 DEF AgreeOn, Pieces
<1>8. g[Len(s) + 1] = Piece(c)
  BY <1>1, <1>4 DEF Pieces
<1>. HIDE DEF f, g
<1>9. g = Append(f, g[Len(s) + 1])
  BY <1>5, <1>6, <1>7, MapAfter DEF t
<1>. QED  BY <1>8, <1>9 DEF f, g, t

LEMMA PieceType == \A c \in Bytes : Piece(c) \in Seq(Chars)
<1> TAKE c \in Bytes
<1>1. <<"bad">> \in Seq(Chars)
  BY DEF Chars
<1>2. c \notin {"hi", "lo"} => <<c>> \in Seq(Chars)
  BY DEF Chars
<1>. QED  BY <1>1, <1>2 DEF Piece

LEMMA DecodeAfter ==
  ASSUME NEW s \in Seq(Bytes), NEW c \in Bytes, ~(EndsInHi(s) /\ c = "lo")
  PROVE  Decode(Append(s, c)) = Decode(s) \o Piece(c)
<1>1. Pieces(Append(s, c)) = Append(Pieces(s), Piece(c))
  BY PiecesAfter
<1>2. Pieces(s) \in Seq(Seq(Chars)) /\ Piece(c) \in Seq(Chars)
  BY PiecesType, PieceType
<1>3. FlattenSeq(Append(Pieces(s), Piece(c))) = FlattenSeq(Pieces(s)) \o Piece(c)
  BY <1>2, FlatAfter
<1>. QED  BY <1>1, <1>3 DEF Decode, Pieces

(* The two bytes of a character.                                           *)
LEMMA DecodePair ==
  ASSUME NEW u \in Seq(Bytes)
  PROVE  Decode(Append(Append(u, "hi"), "lo")) = Decode(u) \o <<"wide">>
<1> DEFINE s == Append(u, "hi")
           t == Append(s, "lo")
           f == Pieces(u)
           g == [k \in DOMAIN s |-> Decoded(t, k)]
           h == Pieces(t)
<1>1. /\ "hi" \in Bytes /\ "lo" \in Bytes /\ Len(u) \in Nat
      /\ s \in Seq(Bytes) /\ t \in Seq(Bytes)
      /\ Len(s) = Len(u) + 1 /\ Len(t) = Len(u) + 2
      /\ DOMAIN u = 1..Len(u) /\ DOMAIN s = 1..(Len(u) + 1) /\ DOMAIN t = 1..(Len(u) + 2)
  BY LenProperties, AppendProperties DEF Bytes
<1>2. /\ \A k \in 1..Len(u) : t[k] = u[k]
      /\ t[Len(u) + 1] = "hi" /\ t[Len(u) + 2] = "lo"
  <2>1. \A k \in 1..Len(u) : s[k] = u[k]
    BY <1>1, AppendProperties
  <2>2. s[Len(u) + 1] = "hi"
    BY <1>1, AppendProperties
  <2>3. \A k \in 1..Len(s) : t[k] = s[k]
    BY <1>1, AppendProperties
  <2>4. t[Len(s) + 1] = "lo"
    BY <1>1, AppendProperties
  <2>. HIDE DEF s, t
  <2>5. Len(s) + 1 = Len(u) + 2 /\ Len(u) + 1 \in 1..Len(s)
          /\ \A k \in 1..Len(u) : k \in 1..Len(s)
    BY <1>1
  <2>. QED  BY <2>1, <2>2, <2>3, <2>4, <2>5
<1>. HIDE DEF t
<1>3. ASSUME NEW k \in 1..Len(u)  PROVE Decoded(t, k) = Decoded(u, k)
  <2>1. k \in Nat /\ k # 0 /\ k <= Len(u) /\ k < Len(t) /\ t[k] = u[k]
    BY <1>1, <1>2
  <2>2. k > 1 => t[k - 1] = u[k - 1]
    BY <1>1, <1>2
  <2>3. k < Len(u) => t[k + 1] = u[k + 1]
    BY <1>1, <1>2
  <2>4. ~(k < Len(u)) => t[k + 1] = "hi"
    <3>1. k \in Nat /\ Len(u) \in Nat /\ k <= Len(u)
      BY <1>1, <2>1
    <3>2. ~(k < Len(u)) => k = Len(u)
      BY <3>1
    <3>. QED  BY <1>2, <3>2
  <2>5. (t[k] = "hi" /\ t[k + 1] = "lo") <=> (u[k] = "hi" /\ k < Len(u) /\ u[k + 1] = "lo")
    BY <2>1, <2>3, <2>4
  <2>. QED  BY <2>1, <2>2, <2>5 DEF Decoded
<1>4. Decoded(t, Len(u) + 1) = <<>>
  <2>1. Len(u) + 1 < Len(t) /\ t[(Len(u) + 1) + 1] = "lo"
    BY <1>1, <1>2
  <2>. QED  BY <1>2, <2>1 DEF Decoded
<1>5. Decoded(t, Len(u) + 2) = <<"wide">>
  <2>1. Len(u) + 2 > 1 /\ t[(Len(u) + 2) - 1] = "hi"
    BY <1>1, <1>2
  <2>. QED  BY <1>2, <2>1 DEF Decoded
<1>6. Maps(f, u)
  BY DEF Maps, Pieces
<1>7. Maps(g, s)
  BY DEF Maps
<1>8. Maps(h, t)
  BY DEF Maps, Pieces
<1>9. AgreeOn(f, g, u)
  BY <1>1, <1>3 DEF AgreeOn, Pieces
<1>10. AgreeOn(g, h, s)
  BY <1>1 DEF AgreeOn, Pieces
<1>11. g[Len(u) + 1] = <<>> /\ h[Len(u) + 2] = <<"wide">> /\ Len(s) + 1 = Len(u) + 2
  BY <1>1, <1>4, <1>5 DEF Pieces
<1>. HIDE DEF f, g, h
<1>12. g = Append(f, g[Len(u) + 1])
  BY <1>1, <1>6, <1>7, <1>9, MapAfter
<1>13. h = Append(g, h[Len(s) + 1])
  <2>. HIDE DEF s
  <2>. QED  BY <1>1, <1>7, <1>8, <1>10, MapAfter DEF t
<1>14. f \in Seq(Seq(Chars)) /\ <<>> \in Seq(Chars) /\ <<"wide">> \in Seq(Chars)
  BY PiecesType DEF f, Chars
<1>15. g \in Seq(Seq(Chars)) /\ FlattenSeq(g) = FlattenSeq(f) \o <<>>
  <2>1. g = Append(f, <<>>)
    BY <1>11, <1>12
  <2>. QED  BY <1>14, <2>1, FlatAfter, AppendProperties
<1>16. FlattenSeq(h) = FlattenSeq(g) \o <<"wide">>
  <2>1. h = Append(g, <<"wide">>)
    BY <1>11, <1>13
  <2>. QED  BY <1>14, <1>15, <2>1, FlatAfter
<1>17. FlattenSeq(f) \in Seq(Chars) /\ FlattenSeq(f) \o <<>> = FlattenSeq(f)
  BY <1>14, FlatIn, ConcatEmptySeq
<1>18. FlattenSeq(f) = Decode(u) /\ FlattenSeq(h) = Decode(t)
  BY DEF f, h, Pieces, Decode
<1>. QED  BY <1>15, <1>16, <1>17, <1>18 DEF t

LEMMA DecodeEmpty == Decode(<<>>) = <<>>
<1> DEFINE e == <<>>
<1>1. e \in Seq(Bytes) /\ Len(e) = 0 /\ e = <<>>
  BY EmptySeq
<1>2. Pieces(e) \in Seq(Seq(Chars)) /\ DOMAIN Pieces(e) = 1..0
  <2>1. DOMAIN e = 1..0
    BY <1>1
  <2>. HIDE DEF e
  <2>. QED  BY <1>1, <2>1, PiecesType DEF Pieces
<1>3. Pieces(e) = <<>>
  BY <1>2, EmptySeq
<1>. QED  BY <1>3, FlatEmpty DEF Decode, Pieces

(* Texts that are decoded one by one are decoded right, unless the first   *)
(* ends inside a character.                                                *)
LEMMA DecodeConcat ==
  ASSUME NEW s \in Seq(Bytes), ~EndsInHi(s)
  PROVE  \A t \in Seq(Bytes) : Decode(s \o t) = Decode(s) \o Decode(t)
<1> DEFINE D == {t \in Seq(Bytes) : Decode(s \o t) = Decode(s) \o Decode(t)}
<1>0. Decode(s) \in Seq(Chars)
  BY DecodeType
<1>1. <<>> \in D
  <2>1. s \o <<>> = s /\ <<>> \in Seq(Bytes) /\ Decode(s) \o <<>> = Decode(s)
    BY <1>0, ConcatEmptySeq, EmptySeq
  <2>. QED  BY <2>1, DecodeEmpty
<1>2. ASSUME NEW t \in Seq(Bytes), NEW c \in Bytes, ~(EndsInHi(t) /\ c = "lo")
      PROVE  /\ Decode(s \o Append(t, c)) = Decode(s \o t) \o Piece(c)
             /\ Decode(Append(t, c)) = Decode(t) \o Piece(c)
  <2>1. s \o Append(t, c) = Append(s \o t, c) /\ s \o t \in Seq(Bytes)
    BY AppendProperties, ConcatProperties
  <2>2. ~(EndsInHi(s \o t) /\ c = "lo")
    <3>1. CASE t = <<>>
      BY <3>1, ConcatEmptySeq
    <3>2. CASE t # <<>>
      <4>1. Len(t) \in Nat /\ Len(s) \in Nat /\ Len(t) # 0
        BY <3>2, LenProperties, EmptySeq
      <4>2. Len(s \o t) = Len(s) + Len(t) /\ (s \o t)[Len(s) + Len(t)] = t[Len(t)]
        BY <4>1, ConcatProperties
      <4>. QED  BY <1>2, <3>2, <4>2 DEF EndsInHi
    <3>. QED  BY <3>1, <3>2
  <2>3. Decode(Append(t, c)) = Decode(t) \o Piece(c)
    BY <1>2, DecodeAfter
  <2>4. Decode(Append(s \o t, c)) = Decode(s \o t) \o Piece(c)
    <3> DEFINE w == s \o t
    <3>1. w \in Seq(Bytes) /\ ~(EndsInHi(w) /\ c = "lo")
      BY <2>1, <2>2
    <3>. HIDE DEF w
    <3>2. Decode(Append(w, c)) = Decode(w) \o Piece(c)
      BY <3>1, DecodeAfter
    <3>. QED  BY <3>2 DEF w
  <2>. QED  BY <2>1, <2>3, <2>4
<1>3. ASSUME NEW t \in Seq(Bytes), t \in D, NEW c \in Bytes, ~(EndsInHi(t) /\ c = "lo")
      PROVE  Append(t, c) \in D
  <2>1. Append(t, c) \in Seq(Bytes)
    BY AppendProperties
  <2>2. Decode(t) \in Seq(Chars) /\ Piece(c) \in Seq(Chars)
    BY DecodeType, PieceType
  <2>3. (Decode(s) \o Decode(t)) \o Piece(c) = Decode(s) \o (Decode(t) \o Piece(c))
    BY <1>0, <2>2, ConcatAssociative
  <2>. QED  BY <1>2, <1>3, <2>1, <2>3
<1>4. ASSUME NEW t \in Seq(Bytes), t \in D, EndsInHi(t)
      PROVE  Append(t, "lo") \in D
  <2>0. "hi" \in Bytes /\ "lo" \in Bytes /\ Append(t, "lo") \in Seq(Bytes)
    BY AppendProperties DEF Bytes
  <2>1. PICK u \in Seq(Bytes) : t = Append(u, "hi")
    <3>1. t # <<>>
      BY <1>4 DEF EndsInHi
    <3>2. PICK u \in Seq(Bytes), c \in Bytes : t = Append(u, c)
      BY <3>1, SequenceEmptyOrAppend
    <3>3. t[Len(t)] = c
      BY <3>2, AppendProperties
    <3>. QED  BY <1>4, <3>2, <3>3 DEF EndsInHi
  <2>2. /\ Decode(s \o t) = Decode(s \o u) \o <<"bad">>
        /\ Decode(t) = Decode(u) \o <<"bad">>
    BY <1>2, <2>0, <2>1 DEF Piece
  <2>3. /\ s \o u \in Seq(Bytes) /\ Decode(s \o u) \in Seq(Chars) /\ Decode(u) \in Seq(Chars)
        /\ <<"bad">> \in Seq(Chars) /\ <<"wide">> \in Seq(Chars)
        /\ Decode(s) \o Decode(u) \in Seq(Chars)
    <3>1. <<"bad">> \in Seq(Chars) /\ <<"wide">> \in Seq(Chars)
      BY DEF Chars
    <3>2. s \o u \in Seq(Bytes) /\ Decode(u) \in Seq(Chars)
      BY DecodeType, ConcatProperties
    <3>3. Decode(s \o u) \in Seq(Chars)
      BY <3>2, DecodeType
    <3>4. Decode(s) \o Decode(u) \in Seq(Chars)
      BY <1>0, <3>2, ConcatProperties
    <3>. QED  BY <3>1, <3>2, <3>3, <3>4
  <2>4. Decode(s \o u) = Decode(s) \o Decode(u)
    <3>1. Decode(s \o u) \o <<"bad">> = Decode(s) \o (Decode(u) \o <<"bad">>)
      BY <1>4, <2>2
    <3>2. Decode(s \o u) \in Seq(Chars) /\ Decode(u) \in Seq(Chars)
      BY <2>3
    <3> DEFINE e == <<"bad">>
    <3>e. e \in Seq(Chars)
      BY <2>3
    <3>. HIDE DEF e
    <3>3. (Decode(s) \o Decode(u)) \o e = Decode(s) \o (Decode(u) \o e)
      BY <1>0, <3>2, <3>e, ConcatAssociative
    <3>4. Decode(s \o u) \o e = (Decode(s) \o Decode(u)) \o e
      BY <3>1, <3>3, Zenon DEF e
    <3>5. Decode(s) \o Decode(u) \in Seq(Chars)
      BY <2>3
    <3>. QED  BY <3>2, <3>4, <3>5, <3>e, ConcatSimplifications
  <2>5. Decode(Append(t, "lo")) = Decode(u) \o <<"wide">>
    BY <2>1, DecodePair
  <2>6. Decode(s \o Append(t, "lo")) = Decode(s \o u) \o <<"wide">>
    <3>1. s \o Append(t, "lo") = Append(Append(s \o u, "hi"), "lo")
      <4>1. s \o Append(t, "lo") = Append(s \o t, "lo")
        BY <2>0, AppendProperties
      <4>2. s \o Append(u, "hi") = Append(s \o u, "hi")
        BY <2>0, AppendProperties
      <4>. QED  BY <2>1, <4>1, <4>2
    <3> DEFINE w == s \o u
    <3>2. w \in Seq(Bytes)
      BY <2>3
    <3>. HIDE DEF w
    <3>3. Decode(Append(Append(w, "hi"), "lo")) = Decode(w) \o <<"wide">>
      BY <3>2, DecodePair
    <3>. QED  BY <3>1, <3>3 DEF w
  <2>7. (Decode(s) \o Decode(u)) \o <<"wide">> = Decode(s) \o (Decode(u) \o <<"wide">>)
    BY <1>0, <2>3, ConcatAssociative
  <2>. QED  BY <2>0, <2>4, <2>5, <2>6, <2>7
<1>5. \A t \in Seq(Bytes) : t \in D => \A c \in Bytes : Append(t, c) \in D
  <2>. HIDE DEF D
  <2>. QED  BY <1>3, <1>4
<1>. HIDE DEF D
<1>6. Seq(Bytes) \subseteq D
  BY <1>1, <1>5, SeqInduction
<1>. QED  BY <1>6 DEF D

-----------------------------------------------------------------------------
(* Text whose characters are broken                                        *)

BrokenPiece(c) == IF c = "wide" THEN <<"bad", "bad">> ELSE <<c>>
BrokenPieces(s) == [k \in DOMAIN s |-> BrokenPiece(s[k])]

LEMMA BrokenPieceType == \A c \in Chars : BrokenPiece(c) \in Seq(Chars)
<1> TAKE c \in Chars
<1>1. <<"bad", "bad">> \in Seq(Chars)
  BY DEF Chars
<1>2. <<c>> \in Seq(Chars)
  OBVIOUS
<1>. QED  BY <1>1, <1>2 DEF BrokenPiece

LEMMA BrokenPiecesType == \A s \in Seq(Chars) : BrokenPieces(s) \in Seq(Seq(Chars))
<1> TAKE s \in Seq(Chars)
<1>1. Len(s) \in Nat /\ DOMAIN s = 1..Len(s) /\ \A k \in 1..Len(s) : s[k] \in Chars
  BY LenProperties, ElementOfSeq
<1>2. BrokenPieces(s) \in [1..Len(s) -> Seq(Chars)]
  BY <1>1, BrokenPieceType DEF BrokenPieces
<1>. QED  BY <1>1, <1>2, IsASeq

LEMMA BrokenIsFlat == \A s : Broken(s) = FlattenSeq(BrokenPieces(s))
  BY DEF Broken, BrokenPieces, BrokenPiece

LEMMA BrokenType == \A s \in Seq(Chars) : Broken(s) \in Seq(Chars)
  BY BrokenPiecesType, BrokenIsFlat, FlatIn

LEMMA BrokenEmpty == Broken(<<>>) = <<>>
<1> DEFINE e == <<>>
<1>1. e \in Seq(Chars) /\ DOMAIN e = 1..0
  BY EmptySeq
<1>2. BrokenPieces(e) \in Seq(Seq(Chars)) /\ DOMAIN BrokenPieces(e) = 1..0
  <2>. HIDE DEF e
  <2>. QED  BY <1>1, BrokenPiecesType DEF BrokenPieces
<1>3. BrokenPieces(e) = <<>>
  BY <1>2, EmptySeq
<1>. QED  BY <1>3, BrokenIsFlat, FlatEmpty

LEMMA BrokenAfter ==
  ASSUME NEW s \in Seq(Chars), NEW c \in Chars
  PROVE  Broken(Append(s, c)) = Broken(s) \o BrokenPiece(c)
<1> DEFINE t == Append(s, c)
           f == BrokenPieces(s)
           g == BrokenPieces(t)
<1>1. /\ Len(s) \in Nat /\ DOMAIN s = 1..Len(s) /\ DOMAIN t = 1..(Len(s) + 1)
      /\ t[Len(s) + 1] = c /\ \A k \in 1..Len(s) : t[k] = s[k]
  BY LenProperties, AppendProperties
<1>. HIDE DEF t
<1>2. Maps(f, s)
  BY DEF Maps, BrokenPieces
<1>3. Maps(g, t)
  BY DEF Maps, BrokenPieces
<1>4. AgreeOn(f, g, s)
  BY <1>1 DEF AgreeOn, BrokenPieces
<1>5. g[Len(s) + 1] = BrokenPiece(c)
  BY <1>1 DEF BrokenPieces
<1>6. f \in Seq(Seq(Chars)) /\ BrokenPiece(c) \in Seq(Chars)
  BY BrokenPiecesType, BrokenPieceType
<1>7. Broken(s) = FlattenSeq(f) /\ Broken(t) = FlattenSeq(g)
  BY BrokenIsFlat
<1>. HIDE DEF f, g
<1>8. g = Append(f, BrokenPiece(c))
  BY <1>2, <1>3, <1>4, <1>5, MapAfter DEF t
<1>9. FlattenSeq(Append(f, BrokenPiece(c))) = FlattenSeq(f) \o BrokenPiece(c)
  BY <1>6, FlatAfter
<1>. QED  BY <1>7, <1>8, <1>9 DEF t

LEMMA BrokenConcat ==
  ASSUME NEW s \in Seq(Chars)
  PROVE  \A t \in Seq(Chars) : Broken(s \o t) = Broken(s) \o Broken(t)
<1> DEFINE D == {t \in Seq(Chars) : Broken(s \o t) = Broken(s) \o Broken(t)}
<1>0. Broken(s) \in Seq(Chars)
  BY BrokenType
<1>1. <<>> \in D
  <2>1. s \o <<>> = s /\ <<>> \in Seq(Chars) /\ Broken(s) \o <<>> = Broken(s)
    BY <1>0, ConcatEmptySeq, EmptySeq
  <2>. QED  BY <2>1, BrokenEmpty
<1>2. ASSUME NEW t \in Seq(Chars), t \in D, NEW c \in Chars  PROVE Append(t, c) \in D
  <2>1. s \o Append(t, c) = Append(s \o t, c) /\ s \o t \in Seq(Chars)
          /\ Append(t, c) \in Seq(Chars)
    BY AppendProperties, ConcatProperties
  <2>2. Broken(Append(t, c)) = Broken(t) \o BrokenPiece(c)
    BY BrokenAfter
  <2>3. Broken(Append(s \o t, c)) = Broken(s \o t) \o BrokenPiece(c)
    BY <2>1, BrokenAfter
  <2>4. (Broken(s) \o Broken(t)) \o BrokenPiece(c) = Broken(s) \o (Broken(t) \o BrokenPiece(c))
    <3>1. Broken(t) \in Seq(Chars) /\ BrokenPiece(c) \in Seq(Chars)
      BY BrokenType, BrokenPieceType
    <3>. QED  BY <1>0, <3>1, ConcatAssociative
  <2>. QED  BY <1>2, <2>1, <2>2, <2>3, <2>4
<1>. HIDE DEF D
<1>3. Seq(Chars) \subseteq D
  BY <1>1, <1>2, SeqInduction
<1>. QED  BY <1>3 DEF D

(* What breaking a text leaves as it is: whether there is one, what it     *)
(* begins with when that is no character of two bytes, and what follows.   *)
FirstKept(s) ==
  s # <<>> =>
    /\ Broken(s) # <<>>
    /\ Broken(s)[1] = IF s[1] = "wide" THEN "bad" ELSE s[1]
    /\ s[1] # "wide" => Broken(Tail(s)) = Tail(Broken(s))

LEMMA BrokenFirst == \A s \in Seq(Chars) : FirstKept(s)
<1> DEFINE D == {s \in Seq(Chars) : FirstKept(s)}
<1>1. <<>> \in D
  BY EmptySeq DEF FirstKept
<1>2. ASSUME NEW s \in Seq(Chars), s \in D, NEW c \in Chars  PROVE Append(s, c) \in D
  <2> DEFINE t == Append(s, c)
  <2>1. /\ t \in Seq(Chars) /\ Broken(t) = Broken(s) \o BrokenPiece(c)
        /\ Broken(s) \in Seq(Chars) /\ BrokenPiece(c) \in Seq(Chars)
    BY AppendProperties, BrokenAfter, BrokenType, BrokenPieceType
  <2>2. CASE s = <<>>
    <3>1. t = <<c>>
      BY <2>2
    <3>2. Broken(t) = BrokenPiece(c)
      BY <2>1, <2>2, BrokenEmpty, ConcatEmptySeq
    <3>3. t[1] = c /\ Tail(t) = <<>>
      BY <3>1
    <3>4. BrokenPiece(c) # <<>> /\ BrokenPiece(c)[1] = IF c = "wide" THEN "bad" ELSE c
      BY DEF BrokenPiece
    <3>5. c # "wide" => Tail(BrokenPiece(c)) = <<>>
      BY DEF BrokenPiece
    <3>. HIDE DEF t
    <3>6. FirstKept(t)
      BY <3>2, <3>3, <3>4, <3>5, BrokenEmpty, Zenon DEF FirstKept
    <3>. QED  BY <2>1, <3>6 DEF t
  <2>3. CASE s # <<>>
    <3>1. /\ Broken(s) # <<>> /\ Broken(s)[1] = IF s[1] = "wide" THEN "bad" ELSE s[1]
          /\ s[1] # "wide" => Broken(Tail(s)) = Tail(Broken(s))
      BY <1>2, <2>3 DEF FirstKept
    <3>2. t[1] = s[1] /\ Tail(t) = Append(Tail(s), c) /\ Tail(s) \in Seq(Chars)
      BY <2>3
    <3>3. /\ Broken(t) # <<>> /\ Broken(t)[1] = Broken(s)[1]
          /\ Tail(Broken(t)) = Tail(Broken(s)) \o BrokenPiece(c)
      <4> DEFINE b == Broken(s)
                 p == BrokenPiece(c)
      <4>1. b \in Seq(Chars) /\ b # <<>> /\ p \in Seq(Chars) /\ Broken(t) = b \o p
        BY <2>1, <3>1
      <4>. HIDE DEF b, p
      <4>2. b \o p # <<>> /\ (b \o p)[1] = b[1] /\ Tail(b \o p) = Tail(b) \o p
        BY <4>1
      <4>. QED  BY <4>1, <4>2 DEF b, p
    <3>4. Broken(Tail(t)) = Broken(Tail(s)) \o BrokenPiece(c)
      BY <3>2, BrokenAfter
    <3>. HIDE DEF t
    <3>5. FirstKept(t)
      BY <3>1, <3>2, <3>3, <3>4 DEF FirstKept
    <3>. QED  BY <2>1, <3>5 DEF t
  <2>. QED  BY <2>2, <2>3
<1>. HIDE DEF D
<1>3. Seq(Chars) \subseteq D
  BY <1>1, <1>2, SeqInduction
<1>. QED  BY <1>3 DEF D

-----------------------------------------------------------------------------
(* What arrives, with every byte of a cut character as U+FFFD, which is    *)
(* what the text becomes whether or not a chunk ends inside a character.   *)

RawOf(c) == IF c \in {"hi", "lo"} THEN "bad" ELSE c
Raw(bytes) == [k \in DOMAIN bytes |-> RawOf(bytes[k])]

LEMMA RawOfType == \A c \in Bytes : RawOf(c) \in Chars /\ <<RawOf(c)>> = Piece(c)
  BY DEF RawOf, Piece, Chars

LEMMA RawType == \A s \in Seq(Bytes) : Raw(s) \in Seq(Chars)
<1> TAKE s \in Seq(Bytes)
<1>1. Len(s) \in Nat /\ DOMAIN s = 1..Len(s) /\ \A k \in 1..Len(s) : s[k] \in Bytes
  BY LenProperties, ElementOfSeq
<1>2. Raw(s) \in [1..Len(s) -> Chars]
  BY <1>1, RawOfType DEF Raw
<1>. QED  BY <1>1, <1>2, IsASeq

LEMMA RawEmpty == Raw(<<>>) = <<>>
<1> DEFINE e == <<>>
<1>1. e \in Seq(Bytes) /\ DOMAIN e = 1..0
  BY EmptySeq
<1>2. Raw(e) \in Seq(Chars) /\ DOMAIN Raw(e) = 1..0
  <2>. HIDE DEF e
  <2>. QED  BY <1>1, RawType DEF Raw
<1>. QED  BY <1>2, EmptySeq

LEMMA RawAfter ==
  ASSUME NEW s \in Seq(Bytes), NEW c \in Bytes
  PROVE  Raw(Append(s, c)) = Append(Raw(s), RawOf(c))
<1> DEFINE t == Append(s, c)
           f == Raw(s)
           g == Raw(t)
<1>1. /\ Len(s) \in Nat /\ DOMAIN s = 1..Len(s) /\ DOMAIN t = 1..(Len(s) + 1)
      /\ t[Len(s) + 1] = c /\ \A k \in 1..Len(s) : t[k] = s[k]
  BY LenProperties, AppendProperties
<1>. HIDE DEF t
<1>2. Maps(f, s)
  BY DEF Maps, Raw
<1>3. Maps(g, t)
  BY DEF Maps, Raw
<1>4. AgreeOn(f, g, s)
  BY <1>1 DEF AgreeOn, Raw
<1>5. g[Len(s) + 1] = RawOf(c)
  BY <1>1 DEF Raw
<1>. HIDE DEF f, g
<1>6. g = Append(f, RawOf(c))
  BY <1>2, <1>3, <1>4, <1>5, MapAfter DEF t
<1>. QED  BY <1>6 DEF f, g, t

LEMMA RawConcat ==
  ASSUME NEW s \in Seq(Bytes)
  PROVE  \A t \in Seq(Bytes) : Raw(s \o t) = Raw(s) \o Raw(t)
<1> DEFINE D == {t \in Seq(Bytes) : Raw(s \o t) = Raw(s) \o Raw(t)}
<1>0. Raw(s) \in Seq(Chars)
  BY RawType
<1>1. <<>> \in D
  <2>1. s \o <<>> = s /\ <<>> \in Seq(Bytes) /\ Raw(s) \o <<>> = Raw(s)
    BY <1>0, ConcatEmptySeq, EmptySeq
  <2>. QED  BY <2>1, RawEmpty
<1>2. ASSUME NEW t \in Seq(Bytes), t \in D, NEW c \in Bytes  PROVE Append(t, c) \in D
  <2>1. s \o Append(t, c) = Append(s \o t, c) /\ s \o t \in Seq(Bytes)
          /\ Append(t, c) \in Seq(Bytes)
    BY AppendProperties, ConcatProperties
  <2>2. Raw(Append(t, c)) = Append(Raw(t), RawOf(c))
    BY RawAfter
  <2>3. Raw(Append(s \o t, c)) = Append(Raw(s \o t), RawOf(c))
    BY <2>1, RawAfter
  <2>4. Append(Raw(s) \o Raw(t), RawOf(c)) = Raw(s) \o Append(Raw(t), RawOf(c))
    <3> DEFINE a == Raw(s)
               b == Raw(t)
               x == RawOf(c)
    <3>1. a \in Seq(Chars) /\ b \in Seq(Chars) /\ x \in Chars
      BY <1>0, RawType, RawOfType
    <3>. HIDE DEF a, b, x
    <3>2. a \o Append(b, x) = Append(a \o b, x)
      BY <3>1, AppendConcat
    <3>. QED  BY <3>2 DEF a, b, x
  <2>. QED  BY <1>2, <2>1, <2>2, <2>3, <2>4
<1>. HIDE DEF D
<1>3. Seq(Bytes) \subseteq D
  BY <1>1, <1>2, SeqInduction
<1>. QED  BY <1>3 DEF D

LEMMA RawIsBroken == \A s \in Seq(Bytes) : Broken(Decode(s)) = Raw(s)
<1> DEFINE D == {s \in Seq(Bytes) : Broken(Decode(s)) = Raw(s)}
<1>1. <<>> \in D
  BY DecodeEmpty, BrokenEmpty, RawEmpty, EmptySeq
<1>2. ASSUME NEW s \in Seq(Bytes), NEW c \in Bytes, ~(EndsInHi(s) /\ c = "lo")
      PROVE  Broken(Decode(Append(s, c))) = Append(Broken(Decode(s)), RawOf(c))
  <2>1. Decode(Append(s, c)) = Decode(s) \o Piece(c) /\ Decode(s) \in Seq(Chars)
    BY <1>2, DecodeAfter, DecodeType
  <2>2. Piece(c) = <<RawOf(c)>> /\ RawOf(c) \in Chars /\ RawOf(c) # "wide"
    BY RawOfType DEF RawOf, Bytes
  <2> DEFINE d == Decode(s)
             x == RawOf(c)
  <2>3. d \in Seq(Chars) /\ x \in Chars /\ BrokenPiece(x) = <<x>>
    BY <2>1, <2>2 DEF BrokenPiece
  <2>4. Decode(Append(s, c)) = d \o <<x>>
    BY <2>1, <2>2
  <2>. HIDE DEF d, x
  <2>5. d \o <<x>> = Append(d, x)
    BY <2>3, AppendIsConcat
  <2>6. Broken(Append(d, x)) = Broken(d) \o <<x>> /\ Broken(d) \in Seq(Chars)
    BY <2>3, BrokenAfter, BrokenType
  <2>7. Broken(d) \o <<x>> = Append(Broken(d), x)
    BY <2>3, <2>6, AppendIsConcat
  <2>8. Broken(Decode(Append(s, c))) = Append(Broken(d), x)
    BY <2>4, <2>5, <2>6, <2>7, Zenon
  <2>. QED  BY <2>8 DEF d, x
<1>3. ASSUME NEW s \in Seq(Bytes), s \in D, NEW c \in Bytes, ~(EndsInHi(s) /\ c = "lo")
      PROVE  Append(s, c) \in D
  <2>1. Append(s, c) \in Seq(Bytes) /\ Raw(Append(s, c)) = Append(Raw(s), RawOf(c))
    BY RawAfter, AppendProperties
  <2>2. Broken(Decode(Append(s, c))) = Append(Broken(Decode(s)), RawOf(c))
    BY <1>2, <1>3
  <2>. QED  BY <1>3, <2>1, <2>2
<1>4. ASSUME NEW s \in Seq(Bytes), s \in D, EndsInHi(s)
      PROVE  Append(s, "lo") \in D
  <2>0. "hi" \in Bytes /\ "lo" \in Bytes /\ Append(s, "lo") \in Seq(Bytes)
          /\ RawOf("hi") = "bad" /\ RawOf("lo") = "bad"
    BY AppendProperties DEF Bytes, RawOf
  <2>1. PICK u \in Seq(Bytes) : s = Append(u, "hi")
    <3>1. s # <<>>
      BY <1>4 DEF EndsInHi
    <3>2. PICK u \in Seq(Bytes), c \in Bytes : s = Append(u, c)
      BY <3>1, SequenceEmptyOrAppend
    <3>3. s[Len(s)] = c
      BY <3>2, AppendProperties
    <3>. QED  BY <1>4, <3>2, <3>3 DEF EndsInHi
  <2>2. Decode(Append(s, "lo")) = Decode(u) \o <<"wide">> /\ Decode(u) \in Seq(Chars)
    BY <2>1, DecodePair, DecodeType
  <2>3. Broken(Decode(s)) = Append(Broken(Decode(u)), "bad")
    BY <1>2, <2>0, <2>1
  <2>4. Raw(Append(s, "lo")) = Append(Broken(Decode(s)), "bad")
    BY <1>4, <2>0, RawAfter
  <2>5. Broken(Decode(Append(s, "lo"))) = Broken(Decode(u)) \o <<"bad", "bad">>
    <3> DEFINE d == Decode(u)
    <3>1. d \in Seq(Chars) /\ "wide" \in Chars /\ BrokenPiece("wide") = <<"bad", "bad">>
      BY <2>2 DEF Chars, BrokenPiece
    <3>. HIDE DEF d
    <3>2. d \o <<"wide">> = Append(d, "wide")
      BY <3>1, AppendIsConcat
    <3>3. Broken(Append(d, "wide")) = Broken(d) \o BrokenPiece("wide")
      BY <3>1, BrokenAfter
    <3>. QED  BY <2>2, <3>1, <3>2, <3>3 DEF d
  <2>6. Append(Append(Broken(Decode(u)), "bad"), "bad") = Broken(Decode(u)) \o <<"bad", "bad">>
    <3> DEFINE b == Broken(Decode(u))
    <3>1. b \in Seq(Chars) /\ "bad" \in Chars
      BY <2>2, BrokenType DEF Chars
    <3>. HIDE DEF b
    <3>2. Append(Append(b, "bad"), "bad") = b \o <<"bad", "bad">>
      BY <3>1
    <3>. QED  BY <3>2 DEF b
  <2>. QED  BY <2>0, <2>3, <2>4, <2>5, <2>6
<1>5. \A s \in Seq(Bytes) : s \in D => \A c \in Bytes : Append(s, c) \in D
  <2>. HIDE DEF D
  <2>. QED  BY <1>3, <1>4
<1>. HIDE DEF D
<1>6. Seq(Bytes) \subseteq D
  BY <1>1, <1>5, SeqInduction
<1>. QED  BY <1>6 DEF D

-----------------------------------------------------------------------------
(* Reading a text line by line, and scanning a block                       *)

Events == [event_type : Seq(Chars), data : Seq(Chars)]
Readers == [out : Seq(Events), type : Seq(Chars), data : Seq(Chars), some : BOOLEAN,
            line : Seq(Chars)]
ReadStep == [c \in Chars |-> [r \in Readers |-> ReadChar(r, c)]]
Read(s, from) == RunEnd(Readers, ReadStep, s, from)

Scanners == [line : Seq(Chars), type : Seq(Chars), data : Seq(Seq(Chars))]
ScanStep == [c \in Chars |-> [r \in Scanners |-> Scan(r, c)]]
Scanned(s) == RunEnd(Scanners, ScanStep, s, NoFields)

LEMMA TailIn == \A T : \A s \in Seq(T) : s # <<>> => Tail(s) \in Seq(T)
  BY HeadTailProperties

LEMMA FreshType == Fresh \in Readers
<1>1. <<>> \in Seq(Chars) /\ <<>> \in Seq(Events)
  BY EmptySeq
<1>. QED  BY <1>1 DEF Fresh, FreshWith, Readers

LEMMA DispatchType == \A r \in Readers : Dispatch(r) \in Readers
<1> TAKE r \in Readers
<1>1. <<>> \in Seq(Chars)
  BY EmptySeq
<1>2. CASE r.some
  <2>1. [event_type |-> r.type, data |-> r.data] \in Events /\ r.out \in Seq(Events)
    BY DEF Readers, Events
  <2>2. Append(r.out, [event_type |-> r.type, data |-> r.data]) \in Seq(Events)
    BY <2>1, AppendProperties
  <2>3. Dispatch(r)
          = FreshWith(Append(r.out, [event_type |-> r.type, data |-> r.data]))
    BY <1>2 DEF Dispatch
  <2>. QED  BY <2>2, <2>3, FreshType DEF Readers, FreshWith
<1>3. CASE ~r.some
  BY <1>1, <1>3 DEF Dispatch, Readers
<1>. QED  BY <1>2, <1>3

LEMMA TakeLineType == \A r \in Readers : TakeLine(r) \in Readers
<1> TAKE r \in Readers
<1>1. r.line \in Seq(Chars) /\ r.data \in Seq(Chars) /\ <<"nl">> \in Seq(Chars)
  BY DEF Readers, Chars, Bytes
<1>2. CASE r.line = <<>>
  <2>1. TakeLine(r) = Dispatch(r)
    BY <1>2 DEF TakeLine, IsField
  <2>. QED  BY <2>1, DispatchType
<1>3. CASE r.line # <<>>
  <2>1. Tail(r.line) \in Seq(Chars)
    BY <1>1, <1>3, TailIn
  <2>2. r.data \o <<"nl">> \o Tail(r.line) \in Seq(Chars)
    BY <1>1, <2>1, ConcatProperties
  <2>3. \/ TakeLine(r) = [r EXCEPT !.type = Tail(r.line)]
        \/ TakeLine(r) = [r EXCEPT !.data = IF r.some THEN @ \o <<"nl">> \o Tail(r.line)
                                                      ELSE Tail(r.line),
                                   !.some = TRUE]
        \/ TakeLine(r) = r
    BY <1>3 DEF TakeLine
  <2>. QED  BY <2>1, <2>2, <2>3 DEF Readers
<1>. QED  BY <1>2, <1>3

LEMMA ReadCharType == \A c \in Chars : \A r \in Readers : ReadChar(r, c) \in Readers
<1> TAKE c \in Chars
<1> TAKE r \in Readers
<1>1. TakeLine(r) \in Readers /\ <<>> \in Seq(Chars)
  BY TakeLineType, EmptySeq
<1>2. Append(r.line, c) \in Seq(Chars)
  BY AppendProperties DEF Readers
<1>. QED  BY <1>1, <1>2 DEF ReadChar, Readers

LEMMA ReadStepType ==
  /\ ReadStep \in [Chars -> [Readers -> Readers]]
  /\ \A c \in Chars : \A r \in Readers : ReadStep[c][r] = ReadChar(r, c)
  BY ReadCharType DEF ReadStep

LEMMA ReadIn == \A s \in Seq(Chars) : \A r \in Readers : Read(s, r) \in Readers
  BY ReadStepType, RunEndIn DEF Read

LEMMA ReadStart == \A r \in Readers : Read(<<>>, r) = r
<1> TAKE r \in Readers
<1> DEFINE e == <<>>
<1>1. e \in Seq(Chars) /\ e = <<>>
  BY EmptySeq
<1>. HIDE DEF e
<1>2. RunEnd(Readers, ReadStep, e, r) = r
  BY <1>1, ReadStepType, RunEndAtStart
<1>. QED  BY <1>1, <1>2 DEF Read

LEMMA ReadAfter ==
  ASSUME NEW s \in Seq(Chars), NEW c \in Chars, NEW r \in Readers
  PROVE  Read(Append(s, c), r) = ReadChar(Read(s, r), c)
<1>1. RunEnd(Readers, ReadStep, Append(s, c), r) = ReadStep[c][RunEnd(Readers, ReadStep, s, r)]
  BY ReadStepType, RunEndAfter
<1>. QED  BY <1>1, ReadIn, ReadStepType DEF Read

LEMMA ReadConcat ==
  ASSUME NEW s \in Seq(Chars), NEW t \in Seq(Chars), NEW r \in Readers
  PROVE  Read(s \o t, r) = Read(t, Read(s, r))
  BY ReadStepType, RunConcat DEF Read

LEMMA ReadLinesIsRead == \A s \in Seq(Chars) : ReadLines(s) = Read(s, Fresh).out
<1> TAKE s \in Seq(Chars)
<1> DEFINE Solves(g) ==
      g = [k \in 0..Len(s) |-> IF k = 0 THEN Fresh ELSE ReadChar(g[k - 1], s[k])]
<1>1. PICK f : Runs(f, Readers, ReadStep, s, Fresh) /\ Read(s, Fresh) = f[Len(s)]
  BY ReadStepType, FreshType, RunIs DEF Read
<1>2. /\ Len(s) \in Nat /\ \A k \in 1..Len(s) : s[k] \in Chars
      /\ f[0] = Fresh /\ f \in [0..Len(s) -> Readers]
      /\ \A k \in 1..Len(s) : f[k] = ReadStep[s[k]][f[k - 1]]
  BY <1>1, LenProperties, ElementOfSeq DEF Runs, Obeys
<1>3. ASSUME NEW k \in 1..Len(s)  PROVE f[k] = ReadChar(f[k - 1], s[k])
  <2>1. f[k - 1] \in Readers /\ s[k] \in Chars
    BY <1>2
  <2>. QED  BY <1>2, <2>1, ReadStepType
<1>4. Solves(f)
  <2>1. ASSUME NEW k \in 0..Len(s)
        PROVE  f[k] = IF k = 0 THEN Fresh ELSE ReadChar(f[k - 1], s[k])
    <3>1. k = 0 \/ k \in 1..Len(s)
      BY <1>2
    <3>. QED  BY <1>2, <1>3, <3>1
  <2>. QED  BY <1>2, <2>1
<1> DEFINE reading == CHOOSE g : Solves(g)
<1>5. Solves(reading)
  <2>. HIDE DEF Solves
  <2>. QED  BY <1>4, Zenon
<1>6. ReadLines(s) = reading[Len(s)].out
  BY Zenon DEF ReadLines
<1>7. \A k \in 0..Len(s) : reading[k] = IF k = 0 THEN Fresh ELSE ReadChar(reading[k - 1], s[k])
  <2>. HIDE DEF reading
  <2>. QED  BY <1>5
<1>. HIDE DEF reading, Solves
<1> DEFINE D == {k \in Nat : k <= Len(s) => reading[k] = f[k]}
<1>8. 0 \in D
  BY <1>2, <1>7
<1>9. ASSUME NEW k \in Nat, k \in D, k + 1 <= Len(s)  PROVE reading[k + 1] = f[k + 1]
  <2>1. k + 1 \in 1..Len(s) /\ k + 1 \in 0..Len(s) /\ (k + 1) - 1 = k /\ reading[k] = f[k]
    BY <1>2, <1>9
  <2>. QED  BY <1>3, <1>7, <2>1
<1>10. \A k \in Nat : k \in D => k + 1 \in D
  BY <1>9
<1>. HIDE DEF D
<1>11. Nat \subseteq D
  BY <1>8, <1>10, Induction
<1>12. reading[Len(s)] = f[Len(s)]
  BY <1>2, <1>11 DEF D
<1>. QED  BY <1>1, <1>6, <1>12

LEMMA NoFieldsType == NoFields \in Scanners
<1>1. <<>> \in Seq(Chars) /\ <<>> \in Seq(Seq(Chars))
  BY EmptySeq
<1>. QED  BY <1>1 DEF NoFields, Scanners

LEMMA TakeFieldType == \A r \in Scanners : TakeField(r) \in Scanners
<1> TAKE r \in Scanners
<1>1. /\ r.line \in Seq(Chars) /\ r.type \in Seq(Chars) /\ r.data \in Seq(Seq(Chars))
      /\ <<>> \in Seq(Chars)
  BY EmptySeq DEF Scanners
<1>2. IsField(r.line, "event") => Tail(r.line) \in Seq(Chars)
  BY <1>1, TailIn DEF IsField
<1>3. IsField(r.line, "data") => Append(r.data, Tail(r.line)) \in Seq(Seq(Chars))
  BY <1>1, TailIn, AppendProperties DEF IsField
<1>. QED  BY <1>1, <1>2, <1>3 DEF TakeField, Scanners

LEMMA ScanStepType ==
  /\ ScanStep \in [Chars -> [Scanners -> Scanners]]
  /\ \A c \in Chars : \A r \in Scanners : ScanStep[c][r] = Scan(r, c)
<1>1. ASSUME NEW c \in Chars, NEW r \in Scanners  PROVE Scan(r, c) \in Scanners
  <2>1. Append(r.line, c) \in Seq(Chars)
    BY AppendProperties DEF Scanners
  <2>. QED  BY <2>1, TakeFieldType DEF Scan, Scanners
<1>. QED  BY <1>1 DEF ScanStep

LEMMA ScannedIn == \A s \in Seq(Chars) : Scanned(s) \in Scanners
  BY ScanStepType, NoFieldsType, RunEndIn DEF Scanned

LEMMA ScannedStart == Scanned(<<>>) = NoFields
<1> DEFINE e == <<>>
<1>1. e \in Seq(Chars) /\ e = <<>>
  BY EmptySeq
<1>. HIDE DEF e
<1>2. RunEnd(Scanners, ScanStep, e, NoFields) = NoFields
  BY <1>1, ScanStepType, NoFieldsType, RunEndAtStart
<1>. QED  BY <1>1, <1>2 DEF Scanned

LEMMA ScannedAfter ==
  ASSUME NEW s \in Seq(Chars), NEW c \in Chars
  PROVE  Scanned(Append(s, c)) = Scan(Scanned(s), c)
<1>1. RunEnd(Scanners, ScanStep, Append(s, c), NoFields)
        = ScanStep[c][RunEnd(Scanners, ScanStep, s, NoFields)]
  BY ScanStepType, NoFieldsType, RunEndAfter
<1>. QED  BY <1>1, ScannedIn, ScanStepType DEF Scanned

LEMMA ParseBlockIs ==
  ASSUME NEW s \in Seq(Chars)
  PROVE  ParseBlock(s) = LET r == TakeField(Scanned(s)) IN
           IF r.data = <<>> THEN <<>> ELSE <<[event_type |-> r.type, data |-> Join(r.data)]>>
<1> DEFINE Solves(g) ==
      g = [k \in 0..Len(s) |-> IF k = 0 THEN NoFields ELSE Scan(g[k - 1], s[k])]
<1>1. PICK f : Runs(f, Scanners, ScanStep, s, NoFields) /\ Scanned(s) = f[Len(s)]
  BY ScanStepType, NoFieldsType, RunIs DEF Scanned
<1>2. /\ Len(s) \in Nat /\ \A k \in 1..Len(s) : s[k] \in Chars
      /\ f[0] = NoFields /\ f \in [0..Len(s) -> Scanners]
      /\ \A k \in 1..Len(s) : f[k] = ScanStep[s[k]][f[k - 1]]
  BY <1>1, LenProperties, ElementOfSeq DEF Runs, Obeys
<1>3. ASSUME NEW k \in 1..Len(s)  PROVE f[k] = Scan(f[k - 1], s[k])
  <2>1. f[k - 1] \in Scanners /\ s[k] \in Chars
    BY <1>2
  <2>. QED  BY <1>2, <2>1, ScanStepType
<1>4. Solves(f)
  <2>1. ASSUME NEW k \in 0..Len(s)
        PROVE  f[k] = IF k = 0 THEN NoFields ELSE Scan(f[k - 1], s[k])
    <3>1. k = 0 \/ k \in 1..Len(s)
      BY <1>2
    <3>. QED  BY <1>2, <1>3, <3>1
  <2>. QED  BY <1>2, <2>1
<1> DEFINE scanned == CHOOSE g : Solves(g)
<1>5. Solves(scanned)
  <2>. HIDE DEF Solves
  <2>. QED  BY <1>4, Zenon
<1>6. ParseBlock(s) = LET r == TakeField(scanned[Len(s)]) IN
        IF r.data = <<>> THEN <<>> ELSE <<[event_type |-> r.type, data |-> Join(r.data)]>>
  BY Zenon DEF ParseBlock
<1>7. \A k \in 0..Len(s) : scanned[k] = IF k = 0 THEN NoFields ELSE Scan(scanned[k - 1], s[k])
  <2>. HIDE DEF scanned
  <2>. QED  BY <1>5
<1>. HIDE DEF scanned, Solves
<1> DEFINE D == {k \in Nat : k <= Len(s) => scanned[k] = f[k]}
<1>8. 0 \in D
  BY <1>2, <1>7
<1>9. ASSUME NEW k \in Nat, k \in D, k + 1 <= Len(s)  PROVE scanned[k + 1] = f[k + 1]
  <2>1. k + 1 \in 1..Len(s) /\ k + 1 \in 0..Len(s) /\ (k + 1) - 1 = k /\ scanned[k] = f[k]
    BY <1>2, <1>9
  <2>. QED  BY <1>3, <1>7, <2>1
<1>10. \A k \in Nat : k \in D => k + 1 \in D
  BY <1>9
<1>. HIDE DEF D
<1>11. Nat \subseteq D
  BY <1>8, <1>10, Induction
<1>12. scanned[Len(s)] = f[Len(s)]
  BY <1>2, <1>11 DEF D
<1>. QED  BY <1>1, <1>6, <1>12

-----------------------------------------------------------------------------
(* Reading a broken text leads to the broken result                        *)

BrokenReader(r) ==
  [out |-> BrokenEvents(r.out), type |-> Broken(r.type), data |-> Broken(r.data),
   some |-> r.some, line |-> Broken(r.line)]

LEMMA BrokenEventsType ==
  ASSUME NEW es \in Seq(Events)
  PROVE  BrokenEvents(es) \in Seq(Events)
<1>1. Len(es) \in Nat /\ DOMAIN es = 1..Len(es) /\ \A k \in 1..Len(es) : es[k] \in Events
  BY LenProperties, ElementOfSeq
<1>2. BrokenEvents(es) \in [1..Len(es) -> Events]
  BY <1>1, BrokenType DEF BrokenEvents, Events
<1>. QED  BY <1>1, <1>2, IsASeq

LEMMA BrokenEventsAfter ==
  ASSUME NEW es \in Seq(Events), NEW e \in Events
  PROVE  BrokenEvents(Append(es, e))
           = Append(BrokenEvents(es),
                    [event_type |-> Broken(e.event_type), data |-> Broken(e.data)])
<1> DEFINE t == Append(es, e)
           f == BrokenEvents(es)
           g == BrokenEvents(t)
           x == [event_type |-> Broken(e.event_type), data |-> Broken(e.data)]
<1>1. /\ Len(es) \in Nat /\ DOMAIN es = 1..Len(es) /\ DOMAIN t = 1..(Len(es) + 1)
      /\ t[Len(es) + 1] = e /\ \A k \in 1..Len(es) : t[k] = es[k]
  BY LenProperties, AppendProperties
<1>. HIDE DEF t
<1>2. Maps(f, es)
  BY DEF Maps, BrokenEvents
<1>3. Maps(g, t)
  BY DEF Maps, BrokenEvents
<1>4. AgreeOn(f, g, es)
  BY <1>1 DEF AgreeOn, BrokenEvents
<1>5. g[Len(es) + 1] = x
  BY <1>1 DEF BrokenEvents
<1>. HIDE DEF f, g, x
<1>6. g = Append(f, x)
  BY <1>2, <1>3, <1>4, <1>5, MapAfter DEF t
<1>. QED  BY <1>6 DEF f, g, t, x

LEMMA BrokenReaderType == \A r \in Readers : BrokenReader(r) \in Readers
  BY BrokenType, BrokenEventsType DEF BrokenReader, Readers

LEMMA BrokenNone == BrokenEvents(<<>>) = <<>>
<1> DEFINE e == <<>>
<1>1. e \in Seq(Events) /\ DOMAIN e = 1..0
  BY EmptySeq
<1>2. BrokenEvents(e) \in Seq(Events) /\ DOMAIN BrokenEvents(e) = 1..0
  <2>. HIDE DEF e
  <2>. QED  BY <1>1, BrokenEventsType DEF BrokenEvents
<1>. QED  BY <1>2, EmptySeq

LEMMA BrokenFresh == BrokenReader(Fresh) = Fresh
  BY BrokenNone, BrokenEmpty DEF BrokenReader, Fresh, FreshWith

LEMMA BrokenDispatch ==
  ASSUME NEW r \in Readers
  PROVE  Dispatch(BrokenReader(r)) = BrokenReader(Dispatch(r))
<1>1. CASE r.some
  <2> DEFINE e == [event_type |-> r.type, data |-> r.data]
             b == [event_type |-> Broken(r.type), data |-> Broken(r.data)]
  <2>1. e \in Events /\ r.out \in Seq(Events)
    BY DEF Readers, Events
  <2>2. BrokenEvents(Append(r.out, e)) = Append(BrokenEvents(r.out), b)
    <3>1. e.event_type = r.type /\ e.data = r.data
      OBVIOUS
    <3>. HIDE DEF e
    <3>. QED  BY <2>1, <3>1, BrokenEventsAfter
  <2>3. Dispatch(r) = FreshWith(Append(r.out, e))
    BY <1>1 DEF Dispatch
  <2>4. Dispatch(BrokenReader(r)) = FreshWith(Append(BrokenEvents(r.out), b))
    BY <1>1 DEF Dispatch, BrokenReader
  <2>. HIDE DEF e, b
  <2>5. BrokenReader(Dispatch(r)) = FreshWith(BrokenEvents(Append(r.out, e)))
    <3> DEFINE q == Dispatch(r)
    <3>1. q.out = Append(r.out, e) /\ q.type = <<>> /\ q.data = <<>>
            /\ q.some = FALSE /\ q.line = <<>>
      BY <2>3 DEF FreshWith
    <3>. HIDE DEF q
    <3>2. BrokenReader(q) = [out |-> BrokenEvents(Append(r.out, e)), type |-> <<>>,
                             data |-> <<>>, some |-> FALSE, line |-> <<>>]
      BY <3>1, BrokenEmpty DEF BrokenReader
    <3>. QED  BY <3>2 DEF q, FreshWith
  <2>. QED  BY <2>2, <2>4, <2>5
<1>2. CASE ~r.some
  BY <1>2, BrokenEmpty DEF Dispatch, BrokenReader, Readers
<1>. QED  BY <1>1, <1>2

LEMMA BrokenField ==
  ASSUME NEW s \in Seq(Chars)
  PROVE  /\ Broken(s) = <<>> <=> s = <<>>
         /\ IsField(Broken(s), "event") <=> IsField(s, "event")
         /\ IsField(Broken(s), "data") <=> IsField(s, "data")
         /\ IsField(s, "event") => Tail(Broken(s)) = Broken(Tail(s))
         /\ IsField(s, "data") => Tail(Broken(s)) = Broken(Tail(s))
<1>1. FirstKept(s)
  BY BrokenFirst
<1>2. CASE s = <<>>
  BY <1>2, BrokenEmpty DEF IsField
<1>3. CASE s # <<>>
  BY <1>1, <1>3 DEF IsField, FirstKept
<1>. QED  BY <1>2, <1>3

LEMMA BrokenTakeLine ==
  ASSUME NEW r \in Readers
  PROVE  TakeLine(BrokenReader(r)) = BrokenReader(TakeLine(r))
<1> DEFINE b == BrokenReader(r)
<1>0. /\ r.line \in Seq(Chars) /\ r.data \in Seq(Chars)
      /\ b.line = Broken(r.line) /\ b.data = Broken(r.data) /\ b.some = r.some
      /\ b \in Readers
  BY BrokenReaderType DEF BrokenReader, Readers
<1>f. /\ b.line = <<>> <=> r.line = <<>>
      /\ IsField(b.line, "event") <=> IsField(r.line, "event")
      /\ IsField(b.line, "data") <=> IsField(r.line, "data")
      /\ IsField(r.line, "event") => Tail(b.line) = Broken(Tail(r.line))
      /\ IsField(r.line, "data") => Tail(b.line) = Broken(Tail(r.line))
  BY <1>0, BrokenField
<1>1. CASE r.line = <<>>
  <2>1. TakeLine(r) = Dispatch(r) /\ TakeLine(b) = Dispatch(b)
    BY <1>1, <1>f DEF TakeLine, IsField
  <2>. QED  BY <2>1, BrokenDispatch
<1>2. CASE r.line # <<>> /\ IsField(r.line, "event")
  <2>1. r.line[1] # "data" /\ ~IsField(r.line, "data")
    BY <1>2 DEF IsField
  <2>2. TakeLine(r) = [r EXCEPT !.type = Tail(r.line)]
    BY <1>2, <2>1 DEF TakeLine
  <2>3. TakeLine(b) = [b EXCEPT !.type = Tail(b.line)]
    <3>. HIDE DEF b
    <3>. QED  BY <1>2, <1>f, <2>1 DEF TakeLine
  <2>4. TakeLine(b) = [b EXCEPT !.type = Broken(Tail(r.line))]
    BY <1>2, <1>f, <2>3
  <2>. QED  BY <2>2, <2>4 DEF BrokenReader, Readers
<1>3. CASE r.line # <<>> /\ IsField(r.line, "data")
  <2>1. ~IsField(r.line, "event")
    BY <1>3 DEF IsField
  <2> DEFINE t == Tail(r.line)
             d == IF r.some THEN r.data \o <<"nl">> \o t ELSE t
             e == IF r.some THEN Broken(r.data) \o <<"nl">> \o Broken(t) ELSE Broken(t)
  <2>2. TakeLine(r) = [r EXCEPT !.data = d, !.some = TRUE]
    BY <1>3, <2>1 DEF TakeLine
  <2>3. TakeLine(b) = [b EXCEPT !.data = IF b.some THEN b.data \o <<"nl">> \o Tail(b.line)
                                                   ELSE Tail(b.line),
                                !.some = TRUE]
    <3>. HIDE DEF b
    <3>. QED  BY <1>3, <1>f, <2>1 DEF TakeLine
  <2>4. TakeLine(b) = [b EXCEPT !.data = e, !.some = TRUE]
    BY <1>0, <1>3, <1>f, <2>3
  <2>5. Broken(d) = e
    <3>1. t \in Seq(Chars) /\ <<"nl">> \in Seq(Chars)
      BY <1>0, <1>3, TailIn DEF Chars, Bytes
    <3> DEFINE n == <<"nl">>
               a == r.data
    <3>2. n \in Seq(Chars) /\ a \in Seq(Chars) /\ Broken(n) = n
      <4>1. "nl" \in Chars /\ <<>> \in Seq(Chars) /\ BrokenPiece("nl") = n
              /\ Append(<<>>, "nl") = n /\ <<>> \o n = n
        BY <3>1 DEF Chars, Bytes, BrokenPiece
      <4>2. Broken(Append(<<>>, "nl")) = Broken(<<>>) \o BrokenPiece("nl")
        BY <4>1, BrokenAfter
      <4>. QED  BY <1>0, <3>1, <4>1, <4>2, BrokenEmpty
    <3>. HIDE DEF n, t, a
    <3>3. a \o n \in Seq(Chars)
      BY <3>2, ConcatProperties
    <3>4. Broken((a \o n) \o t) = Broken(a \o n) \o Broken(t)
      BY <3>1, <3>3, BrokenConcat
    <3>5. Broken(a \o n) = Broken(a) \o n
      BY <3>2, BrokenConcat
    <3>. QED  BY <3>4, <3>5 DEF n, a
  <2>. HIDE DEF d, e
  <2>. QED  BY <2>2, <2>4, <2>5 DEF BrokenReader, Readers
<1>4. CASE r.line # <<>> /\ ~IsField(r.line, "event") /\ ~IsField(r.line, "data")
  <2>1. TakeLine(r) = r
    BY <1>4 DEF TakeLine
  <2>2. TakeLine(b) = b
    <3>. HIDE DEF b
    <3>. QED  BY <1>4, <1>f DEF TakeLine
  <2>. QED  BY <2>1, <2>2
<1>. QED  BY <1>1, <1>2, <1>3, <1>4

LEMMA BrokenLine ==
  ASSUME NEW r \in Readers, NEW l
  PROVE  BrokenReader([r EXCEPT !.line = l]) = [BrokenReader(r) EXCEPT !.line = Broken(l)]
<1> DEFINE q == [r EXCEPT !.line = l]
<1>1. q.out = r.out /\ q.type = r.type /\ q.data = r.data /\ q.some = r.some /\ q.line = l
  BY DEF Readers
<1>. HIDE DEF q
<1>2. BrokenReader(q) = [BrokenReader(r) EXCEPT !.line = Broken(l)]
  BY <1>1 DEF BrokenReader
<1>. QED  BY <1>2 DEF q

LEMMA AppendTwo ==
  ASSUME NEW T, NEW s \in Seq(T), NEW c \in T, NEW d \in T
  PROVE  Append(Append(s, c), d) = s \o <<c, d>>
  OBVIOUS

LEMMA BrokenReadChar ==
  ASSUME NEW r \in Readers, NEW c \in Chars
  PROVE  /\ c # "wide" => ReadChar(BrokenReader(r), c) = BrokenReader(ReadChar(r, c))
         /\ c = "wide" => ReadChar(ReadChar(BrokenReader(r), "bad"), "bad")
                            = BrokenReader(ReadChar(r, c))
<1> DEFINE b == BrokenReader(r)
<1>0. /\ r.line \in Seq(Chars) /\ b \in Readers /\ b.line = Broken(r.line)
      /\ b.line \in Seq(Chars)
  BY BrokenReaderType DEF BrokenReader, Readers
<1>1. CASE c = "nl"
  <2> DEFINE t == TakeLine(r)
  <2>1. TakeLine(b) = BrokenReader(t) /\ t \in Readers
    BY BrokenTakeLine, TakeLineType
  <2>2. ReadChar(b, c) = [TakeLine(b) EXCEPT !.line = <<>>] /\ ReadChar(r, c) = [t EXCEPT !.line = <<>>]
    <3>. HIDE DEF b
    <3>. QED  BY <1>1 DEF ReadChar
  <2>. HIDE DEF t, b
  <2>3. [BrokenReader(t) EXCEPT !.line = <<>>] = BrokenReader([t EXCEPT !.line = <<>>])
    BY <2>1, BrokenEmpty, BrokenLine, EmptySeq
  <2>. QED  BY <1>1, <2>1, <2>2, <2>3 DEF b
<1>2. CASE c # "nl"
  <2>1. ReadChar(r, c) = [r EXCEPT !.line = Append(@, c)]
    BY <1>2 DEF ReadChar
  <2>2. BrokenReader(ReadChar(r, c)) = [b EXCEPT !.line = Broken(r.line) \o BrokenPiece(c)]
    <3>1. Broken(Append(r.line, c)) = Broken(r.line) \o BrokenPiece(c)
      BY <1>0, BrokenAfter
    <3>2. BrokenReader([r EXCEPT !.line = Append(r.line, c)])
            = [b EXCEPT !.line = Broken(Append(r.line, c))]
      BY BrokenLine
    <3>3. ReadChar(r, c) = [r EXCEPT !.line = Append(r.line, c)]
      BY <2>1
    <3>. HIDE DEF b
    <3>. QED  BY <3>1, <3>2, <3>3
  <2>3. CASE c # "wide"
    <3>1. ReadChar(b, c) = [b EXCEPT !.line = Append(b.line, c)]
      BY <1>2 DEF ReadChar
    <3>2. Append(b.line, c) = Broken(r.line) \o BrokenPiece(c)
      <4>1. Append(b.line, c) = b.line \o <<c>>
        BY <1>0, AppendIsConcat
      <4>. QED  BY <1>0, <2>3, <4>1 DEF BrokenPiece
    <3>. QED  BY <2>2, <2>3, <3>1, <3>2
  <2>4. CASE c = "wide"
    <3> DEFINE x == ReadChar(b, "bad")
    <3>1. x = [b EXCEPT !.line = Append(b.line, "bad")]
      BY DEF ReadChar
    <3>2. ReadChar(x, "bad") = [x EXCEPT !.line = Append(x.line, "bad")]
      <4>. HIDE DEF x
      <4>. QED  BY DEF ReadChar
    <3>3. x.line = Append(b.line, "bad")
      <4>. HIDE DEF x, b
      <4>. QED  BY <1>0, <3>1 DEF Readers
    <3>4. ReadChar(x, "bad") = [b EXCEPT !.line = Append(Append(b.line, "bad"), "bad")]
      <4>. HIDE DEF x, b
      <4>. QED  BY <1>0, <3>1, <3>2, <3>3 DEF Readers
    <3>5. Append(Append(b.line, "bad"), "bad") = Broken(r.line) \o BrokenPiece(c)
      <4> DEFINE l == b.line
      <4>1. l \in Seq(Chars) /\ "bad" \in Chars /\ BrokenPiece(c) = <<"bad", "bad">>
              /\ l = Broken(r.line)
        BY <1>0, <2>4 DEF Chars, BrokenPiece
      <4>. HIDE DEF l
      <4>2. Append(Append(l, "bad"), "bad") = l \o <<"bad", "bad">>
        BY <4>1
      <4>. QED  BY <4>1, <4>2 DEF l
    <3>. HIDE DEF x
    <3>6. ReadChar(x, "bad") = BrokenReader(ReadChar(r, c))
      BY <2>2, <3>4, <3>5
    <3>. QED  BY <2>4, <3>6 DEF x
  <2>. QED  BY <2>3, <2>4
<1>. QED  BY <1>1, <1>2

LEMMA BrokenRead ==
  ASSUME NEW r \in Readers
  PROVE  \A s \in Seq(Chars) : Read(Broken(s), BrokenReader(r)) = BrokenReader(Read(s, r))
<1> DEFINE b == BrokenReader(r)
           D == {s \in Seq(Chars) : Read(Broken(s), b) = BrokenReader(Read(s, r))}
<1>0. b \in Readers
  BY BrokenReaderType
<1>1. <<>> \in D
  <2>1. <<>> \in Seq(Chars) /\ Read(<<>>, r) = r
    BY ReadStart, EmptySeq
  <2>2. Read(<<>>, b) = b
    BY <1>0, ReadStart
  <2>. QED  BY <2>1, <2>2, BrokenEmpty
<1>2. ASSUME NEW s \in Seq(Chars), s \in D, NEW c \in Chars  PROVE Append(s, c) \in D
  <2> DEFINE q == Read(s, r)
             p == Read(Broken(s), b)
  <2>1. /\ q \in Readers /\ p = BrokenReader(q) /\ p \in Readers
        /\ Broken(s) \in Seq(Chars) /\ Append(s, c) \in Seq(Chars)
        /\ "bad" \in Chars
    BY <1>2, ReadIn, BrokenReaderType, BrokenType, AppendProperties DEF Chars
  <2>2. Read(Append(s, c), r) = ReadChar(q, c)
    BY ReadAfter
  <2>3. Broken(Append(s, c)) = Broken(s) \o BrokenPiece(c)
    BY BrokenAfter
  <2>4. /\ c # "wide" => ReadChar(p, c) = BrokenReader(ReadChar(q, c))
        /\ c = "wide" => ReadChar(ReadChar(p, "bad"), "bad") = BrokenReader(ReadChar(q, c))
    <3>. HIDE DEF p, q
    <3>. QED  BY <2>1, BrokenReadChar
  <2>5. CASE c # "wide"
    <3>1. Broken(s) \o BrokenPiece(c) = Append(Broken(s), c)
      BY <2>1, <2>5, AppendIsConcat DEF BrokenPiece
    <3>2. Read(Append(Broken(s), c), b) = ReadChar(p, c)
      <4>. HIDE DEF b
      <4>. QED  BY <1>0, <2>1, ReadAfter
    <3>. HIDE DEF b, p, q
    <3>. QED  BY <2>1, <2>2, <2>3, <2>4, <2>5, <3>1, <3>2
  <2>6. CASE c = "wide"
    <3> DEFINE u == Broken(s)
    <3>1. u \in Seq(Chars) /\ Append(u, "bad") \in Seq(Chars)
      BY <2>1, AppendProperties
    <3>2. Broken(s) \o BrokenPiece(c) = Append(Append(u, "bad"), "bad")
      <4>1. BrokenPiece(c) = <<"bad", "bad">>
        BY <2>6 DEF BrokenPiece
      <4>. HIDE DEF u
      <4>2. Append(Append(u, "bad"), "bad") = u \o <<"bad", "bad">>
        BY <2>1, <3>1, AppendTwo
      <4>. QED  BY <4>1, <4>2 DEF u
    <3>3. Read(Append(u, "bad"), b) = ReadChar(p, "bad")
      <4>. HIDE DEF b
      <4>. QED  BY <1>0, <2>1, <3>1, ReadAfter
    <3>4. Read(Append(Append(u, "bad"), "bad"), b) = ReadChar(Read(Append(u, "bad"), b), "bad")
      <4>. HIDE DEF b, u
      <4>. QED  BY <1>0, <2>1, <3>1, ReadAfter
    <3>. HIDE DEF b, p, q, u
    <3>. QED  BY <2>1, <2>2, <2>3, <2>4, <2>6, <3>2, <3>3, <3>4
  <2>. QED  BY <2>5, <2>6
<1>. HIDE DEF D
<1>3. Seq(Chars) \subseteq D
  BY <1>1, <1>2, SeqInduction
<1>. QED  BY <1>3 DEF D

-----------------------------------------------------------------------------
(* A block that is cut off and parsed leads where reading it leads         *)

LEMMA JoinIsGlued == \A ls : Join(ls) = Glued(ls, <<"nl">>)
  BY DEF Join, Glued, GluePieces

LEMMA JoinType == \A ls \in Seq(Seq(Chars)) : Join(ls) \in Seq(Chars)
<1>1. <<"nl">> \in Seq(Chars)
  BY DEF Chars, Bytes
<1>. QED  BY <1>1, GluePiecesType, JoinIsGlued

LEMMA JoinNone == Join(<<>>) = <<>>
  BY GluedNone, JoinIsGlued

LEMMA JoinAfter ==
  ASSUME NEW ls \in Seq(Seq(Chars)), NEW l \in Seq(Chars)
  PROVE  Join(Append(ls, l)) = IF ls = <<>> THEN l ELSE Join(ls) \o <<"nl">> \o l
<1>1. <<"nl">> \in Seq(Chars)
  BY DEF Chars, Bytes
<1>2. Glued(Append(ls, l), <<"nl">>)
        = IF ls = <<>> THEN l ELSE Glued(ls, <<"nl">>) \o <<"nl">> \o l
  BY <1>1, GluedAfter
<1>3. Join(Append(ls, l)) = Glued(Append(ls, l), <<"nl">>) /\ Join(ls) = Glued(ls, <<"nl">>)
  BY JoinIsGlued
<1>. QED  BY <1>2, <1>3

(* Where the scanner of a block and the reader of the same text meet.      *)
Matches(r, q, es) ==
  /\ r \in Readers /\ q \in Scanners
  /\ r.out = es /\ r.type = q.type /\ r.data = Join(q.data) /\ r.line = q.line
  /\ r.some <=> q.data # <<>>

LEMMA FreshWithType == \A es \in Seq(Events) : FreshWith(es) \in Readers
<1>1. <<>> \in Seq(Chars)
  BY EmptySeq
<1>. QED  BY <1>1 DEF FreshWith, Readers

LEMMA SameReader ==
  ASSUME NEW r \in Readers, NEW q \in Readers
  PROVE  /\ r.out = q.out /\ r.type = q.type /\ r.data = q.data
         /\ r.some = q.some /\ r.line = q.line
         => r = q
<1>1. r = [out |-> r.out, type |-> r.type, data |-> r.data, some |-> r.some, line |-> r.line]
  BY DEF Readers
<1>2. q = [out |-> q.out, type |-> q.type, data |-> q.data, some |-> q.some, line |-> q.line]
  BY DEF Readers
<1>. QED  BY <1>1, <1>2, Zenon

LEMMA FreshMatches == \A es \in Seq(Events) : Matches(FreshWith(es), NoFields, es)
<1> TAKE es \in Seq(Events)
<1>1. FreshWith(es) \in Readers /\ NoFields \in Scanners /\ Join(<<>>) = <<>>
  BY FreshWithType, NoFieldsType, JoinNone
<1>. QED  BY <1>1 DEF Matches, FreshWith, NoFields

LEMMA MatchTake ==
  ASSUME NEW es, NEW r, NEW q, Matches(r, q, es), r.line # <<>>
  PROVE  Matches(ReadChar(r, "nl"), TakeField(q), es)
<1> DEFINE u == ReadChar(r, "nl")
           p == TakeField(q)
           t == Tail(r.line)
<1>1. /\ r \in Readers /\ q \in Scanners /\ r.line = q.line /\ "nl" \in Chars
      /\ r.out = es /\ r.type = q.type /\ r.data = Join(q.data)
      /\ (r.some <=> q.data # <<>>)
      /\ r.line \in Seq(Chars) /\ q.data \in Seq(Seq(Chars))
  BY DEF Matches, Chars, Bytes, Readers, Scanners
<1>2. u \in Readers /\ p \in Scanners /\ u = [TakeLine(r) EXCEPT !.line = <<>>]
  BY <1>1, ReadCharType, TakeFieldType DEF ReadChar
<1>3. p = [line |-> <<>>,
           type |-> IF IsField(r.line, "event") THEN t ELSE q.type,
           data |-> IF IsField(r.line, "data") THEN Append(q.data, t) ELSE q.data]
  BY <1>1 DEF TakeField
<1>4. t \in Seq(Chars)
  BY <1>1, TailIn
<1>5. TakeLine(r) \in Readers
  BY <1>1, TakeLineType
<1>6. u.out = TakeLine(r).out /\ u.type = TakeLine(r).type /\ u.data = TakeLine(r).data
        /\ u.some = TakeLine(r).some /\ u.line = <<>>
  BY <1>2, <1>5 DEF Readers
<1>. HIDE DEF u, p
<1>7. CASE IsField(r.line, "event")
  <2>1. ~IsField(r.line, "data")
    BY <1>7 DEF IsField
  <2>2. TakeLine(r) = [r EXCEPT !.type = t]
    BY <1>7, <2>1 DEF TakeLine
  <2>. QED  BY <1>1, <1>2, <1>3, <1>6, <1>7, <2>1, <2>2 DEF Matches, Readers, u, p
<1>8. CASE IsField(r.line, "data")
  <2>1. ~IsField(r.line, "event")
    BY <1>8 DEF IsField
  <2> DEFINE d == IF r.some THEN r.data \o <<"nl">> \o t ELSE t
  <2>2. TakeLine(r) = [r EXCEPT !.data = d, !.some = TRUE]
    BY <1>8, <2>1 DEF TakeLine
  <2>3. Join(Append(q.data, t)) = d
    <3>1. Join(Append(q.data, t)) = IF q.data = <<>> THEN t ELSE Join(q.data) \o <<"nl">> \o t
      <4>. HIDE DEF t
      <4>. QED  BY <1>1, <1>4, JoinAfter
    <3>2. r.data = Join(q.data) /\ (r.some <=> q.data # <<>>)
      BY <1>1
    <3>. HIDE DEF t
    <3>. QED  BY <3>1, <3>2, Zenon
  <2>4. Append(q.data, t) # <<>>
    BY <1>1, <1>4, AppendProperties
  <2>5. p.line = <<>> /\ p.type = q.type /\ p.data = Append(q.data, t)
    BY <1>3, <1>8, <2>1
  <2>. HIDE DEF d, t
  <2>6. u.out = es /\ u.type = q.type /\ u.data = d /\ u.some = TRUE
    <3> DEFINE w == TakeLine(r)
    <3>1. w.out = r.out /\ w.type = r.type /\ w.data = d /\ w.some = TRUE
      BY <1>1, <2>2 DEF Readers
    <3>2. u.out = w.out /\ u.type = w.type /\ u.data = w.data /\ u.some = w.some
      BY <1>6
    <3>. HIDE DEF w
    <3>. QED  BY <1>1, <3>1, <3>2
  <2>7. Matches(u, p, es)
    BY <1>2, <1>6, <2>3, <2>4, <2>5, <2>6 DEF Matches
  <2>. QED  BY <2>7 DEF u, p
<1>9. CASE ~IsField(r.line, "event") /\ ~IsField(r.line, "data")
  <2>1. TakeLine(r) = r
    BY <1>9 DEF TakeLine
  <2>. QED  BY <1>1, <1>2, <1>3, <1>6, <1>9, <2>1 DEF Matches, u, p
<1>. QED  BY <1>7, <1>8, <1>9

(* A blank line between events is nothing.                                 *)
LEMMA FreshReadsNl == \A es \in Seq(Events) : ReadChar(FreshWith(es), "nl") = FreshWith(es)
<1> TAKE es \in Seq(Events)
<1> DEFINE b == FreshWith(es)
<1>1. b.line = <<>> /\ b.type = <<>> /\ b.some = FALSE /\ b \in Readers /\ "nl" \in Chars
  BY FreshWithType DEF FreshWith, Chars, Bytes
<1>. HIDE DEF b
<1>2. TakeLine(b) = [b EXCEPT !.type = <<>>]
  BY <1>1 DEF TakeLine, IsField, Dispatch
<1>3. ReadChar(b, "nl") = [[b EXCEPT !.type = <<>>] EXCEPT !.line = <<>>]
  BY <1>2 DEF ReadChar
<1>4. ReadChar(b, "nl") \in Readers
  BY <1>1, ReadCharType
<1>5. ReadChar(b, "nl") = b
  BY <1>1, <1>3, <1>4, SameReader DEF Readers
<1>. QED  BY <1>5 DEF b

NoBlankLine(s) == \A k \in DOMAIN s : ~(k + 1 \in DOMAIN s /\ s[k] = "nl" /\ s[k + 1] = "nl")
EndsInNl(s) == s # <<>> /\ s[Len(s)] = "nl"

LEMMA MatchRead ==
  ASSUME NEW es \in Seq(Events)
  PROVE  \A s \in Seq(Chars) : NoBlankLine(s) =>
           /\ Matches(Read(s, FreshWith(es)), Scanned(s), es)
           /\ s # <<>> /\ ~EndsInNl(s) => Scanned(s).line # <<>>
<1> DEFINE b == FreshWith(es)
           Holds(s) == /\ Matches(Read(s, b), Scanned(s), es)
                       /\ s # <<>> /\ ~EndsInNl(s) => Scanned(s).line # <<>>
           D == {s \in Seq(Chars) : NoBlankLine(s) => Holds(s)}
<1>0. b \in Readers /\ Matches(b, NoFields, es)
  BY FreshWithType, FreshMatches
<1>. HIDE DEF b
<1>1. <<>> \in D
  <2>1. Read(<<>>, b) = b /\ Scanned(<<>>) = NoFields /\ <<>> \in Seq(Chars)
    BY <1>0, ReadStart, ScannedStart, EmptySeq
  <2>. QED  BY <1>0, <2>1
<1>2. ASSUME NEW s \in Seq(Chars), s \in D, NEW c \in Chars, NoBlankLine(Append(s, c))
      PROVE  Holds(Append(s, c))
  <2> DEFINE t == Append(s, c)
             r == Read(s, b)
             q == Scanned(s)
  <2>1. /\ Len(s) \in Nat /\ DOMAIN s = 1..Len(s) /\ DOMAIN t = 1..(Len(s) + 1)
        /\ t[Len(s) + 1] = c /\ \A k \in 1..Len(s) : t[k] = s[k]
    BY LenProperties, AppendProperties
  <2>2. t # <<>> /\ (EndsInNl(t) <=> c = "nl")
    <3>1. t # <<>> /\ Len(t) = Len(s) + 1
      BY AppendProperties
    <3>. QED  BY <2>1, <3>1 DEF EndsInNl
  <2>3. Read(t, b) = ReadChar(r, c) /\ Scanned(t) = Scan(q, c)
    BY <1>0, ReadAfter, ScannedAfter
  <2>4. NoBlankLine(s)
    <3> SUFFICES ASSUME NEW k \in DOMAIN s, k + 1 \in DOMAIN s
                 PROVE  ~(s[k] = "nl" /\ s[k + 1] = "nl")
      BY DEF NoBlankLine
    <3>1. k \in DOMAIN t /\ k + 1 \in DOMAIN t /\ t[k] = s[k] /\ t[k + 1] = s[k + 1]
      BY <2>1
    <3>. QED  BY <1>2, <3>1 DEF NoBlankLine
  <2>5. ~(EndsInNl(s) /\ c = "nl")
    <3> SUFFICES ASSUME s # <<>>, s[Len(s)] = "nl", c = "nl"  PROVE FALSE
      BY DEF EndsInNl
    <3>1. Len(s) # 0
      BY EmptySeq
    <3>2. Len(s) \in 1..Len(s) /\ Len(s) \in DOMAIN t /\ Len(s) + 1 \in DOMAIN t
      BY <2>1, <3>1
    <3>3. t[Len(s)] = "nl" /\ t[Len(s) + 1] = "nl"
      BY <2>1, <3>2
    <3>. QED  BY <1>2, <3>2, <3>3 DEF NoBlankLine
  <2>6. Matches(r, q, es) /\ (s # <<>> /\ ~EndsInNl(s) => q.line # <<>>)
    BY <1>2, <2>4
  <2>7. r \in Readers /\ q \in Scanners /\ r.line = q.line /\ r.line \in Seq(Chars)
    BY <2>6 DEF Matches, Readers
  <2>. HIDE DEF t
  <2>8. CASE c # "nl"
    <3>1. /\ ReadChar(r, c) = [r EXCEPT !.line = Append(r.line, c)]
          /\ Scan(q, c) = [q EXCEPT !.line = Append(q.line, c)]
      BY <2>8 DEF ReadChar, Scan
    <3>2. ReadChar(r, c) \in Readers /\ Scan(q, c) \in Scanners
      BY <2>7, ReadCharType, ScanStepType, ScannedIn
    <3>3. Append(r.line, c) # <<>>
      BY <2>7, AppendProperties
    <3>. HIDE DEF r, q
    <3>4. Matches(ReadChar(r, c), Scan(q, c), es) /\ Scan(q, c).line # <<>>
      BY <2>6, <2>7, <3>1, <3>2, <3>3 DEF Matches, Readers, Scanners
    <3>. QED  BY <2>3, <3>4 DEF t
  <2>9. CASE c = "nl" /\ s = <<>>
    <3>1. r = b /\ q = NoFields
      BY <1>0, <2>9, ReadStart, ScannedStart
    <3>2. ReadChar(b, "nl") = b
      BY FreshReadsNl DEF b
    <3>3. Scan(NoFields, "nl") = NoFields
      BY DEF Scan, TakeField, NoFields, IsField
    <3>. QED  BY <1>0, <2>2, <2>3, <2>9, <3>1, <3>2, <3>3 DEF t
  <2>10. CASE c = "nl" /\ s # <<>>
    <3>1. r.line # <<>>
      BY <2>5, <2>6, <2>7, <2>10
    <3>2. Matches(ReadChar(r, "nl"), TakeField(q), es)
      <4>. HIDE DEF r, q
      <4>. QED  BY <2>6, <3>1, MatchTake
    <3>3. Scan(q, c) = TakeField(q)
      BY <2>10 DEF Scan
    <3>. QED  BY <2>2, <2>3, <2>10, <3>2, <3>3 DEF t
  <2>. QED  BY <2>8, <2>9, <2>10
<1>. HIDE DEF Holds
<1>3. \A s \in Seq(Chars) : s \in D => \A c \in Chars : Append(s, c) \in D
  BY <1>2, AppendProperties
<1>. HIDE DEF D
<1>4. Seq(Chars) \subseteq D
  BY <1>1, <1>3, SeqInduction
<1>5. \A s \in Seq(Chars) : NoBlankLine(s) => Holds(s)
  BY <1>4 DEF D
<1>. QED  BY <1>5 DEF Holds, b

LEMMA BlockRead ==
  ASSUME NEW es \in Seq(Events), NEW s \in Seq(Chars), NoBlankLine(s), ~EndsInNl(s)
  PROVE  /\ Read(Append(Append(s, "nl"), "nl"), FreshWith(es)) = FreshWith(es \o ParseBlock(s))
         /\ es \o ParseBlock(s) \in Seq(Events)
<1> DEFINE b == FreshWith(es)
           r == Read(s, b)
           q == Scanned(s)
           u == ReadChar(r, "nl")
           p == TakeField(q)
<1>1. b \in Readers /\ r \in Readers /\ "nl" \in Chars /\ Append(s, "nl") \in Seq(Chars)
  <2>1. b \in Readers
    BY FreshWithType
  <2>. HIDE DEF b
  <2>. QED  BY <2>1, ReadIn, AppendProperties DEF Chars, Bytes
<1>2. Read(Append(Append(s, "nl"), "nl"), b) = ReadChar(u, "nl")
  <2>. HIDE DEF b
  <2>1. Read(Append(s, "nl"), b) = u
    BY <1>1, ReadAfter
  <2> DEFINE t == Append(s, "nl")
  <2>2. Read(Append(t, "nl"), b) = ReadChar(Read(t, b), "nl")
    <3>1. t \in Seq(Chars)
      BY <1>1
    <3>. HIDE DEF t
    <3>. QED  BY <1>1, <3>1, ReadAfter
  <2>. QED  BY <2>1, <2>2
<1>3. ParseBlock(s) = IF p.data = <<>> THEN <<>>
                      ELSE <<[event_type |-> p.type, data |-> Join(p.data)]>>
  BY ParseBlockIs
<1>4. es \o <<>> = es
  BY ConcatEmptySeq
<1>5. CASE s = <<>>
  <2>1. r = b /\ q = NoFields
    <3>. HIDE DEF b
    <3>. QED  BY <1>1, <1>5, ReadStart, ScannedStart
  <2>2. ReadChar(b, "nl") = b
    BY FreshReadsNl
  <2>3. p.data = <<>>
    BY <2>1 DEF TakeField, NoFields, IsField
  <2>. HIDE DEF b, p
  <2>4. ParseBlock(s) = <<>>
    BY <1>3, <2>3
  <2>. QED  BY <1>2, <1>4, <2>1, <2>2, <2>4 DEF b
<1>6. CASE s # <<>>
  <2>1. Matches(r, q, es) /\ q.line # <<>>
    BY <1>6, MatchRead
  <2>2. Matches(u, p, es)
    <3>. HIDE DEF r, q
    <3>1. r.line # <<>>
      BY <2>1 DEF Matches
    <3>. QED  BY <2>1, <3>1, MatchTake
  <2>3. u.line = <<>>
    <3>1. p.line = <<>>
      BY DEF TakeField
    <3>. HIDE DEF u, p
    <3>. QED  BY <2>2, <3>1 DEF Matches
  <2>. HIDE DEF u, p, r, q, b
  <2>4. ReadChar(u, "nl") = [Dispatch(u) EXCEPT !.line = <<>>]
    BY <2>3 DEF ReadChar, TakeLine, IsField
  <2>5. CASE p.data = <<>>
    <3>1. ~u.some /\ u.data = <<>> /\ u.out = es /\ u \in Readers
      BY <2>2, <2>5, JoinNone DEF Matches
    <3>2. Dispatch(u) = [u EXCEPT !.type = <<>>]
      BY <3>1 DEF Dispatch
    <3>3. ReadChar(u, "nl") = FreshWith(es)
      <4> DEFINE v == ReadChar(u, "nl")
      <4>1. v = [[u EXCEPT !.type = <<>>] EXCEPT !.line = <<>>] /\ v \in Readers
        BY <1>1, <2>4, <3>1, <3>2, ReadCharType
      <4>. HIDE DEF v
      <4>2. v.out = es /\ v.type = <<>> /\ v.data = <<>> /\ v.some = FALSE /\ v.line = <<>>
        BY <3>1, <4>1 DEF Readers
      <4>3. v = FreshWith(es)
        <5>1. b \in Readers /\ b.out = es /\ b.type = <<>> /\ b.data = <<>>
                /\ b.some = FALSE /\ b.line = <<>>
          BY <1>1 DEF b, FreshWith
        <5>2. v = b
          BY <4>1, <4>2, <5>1, SameReader
        <5>. QED  BY <5>2 DEF b
      <4>. QED  BY <4>3 DEF v
    <3>4. ParseBlock(s) = <<>>
      BY <1>3, <2>5
    <3>. QED  BY <1>2, <1>4, <3>3, <3>4 DEF b
  <2>6. CASE p.data # <<>>
    <3> DEFINE e == [event_type |-> p.type, data |-> Join(p.data)]
    <3>1. u.some /\ u.data = Join(p.data) /\ u.type = p.type /\ u.out = es /\ u \in Readers
      BY <2>2, <2>6 DEF Matches
    <3>2. e \in Events
      BY <3>1 DEF Readers, Events
    <3>3. Dispatch(u) = FreshWith(Append(es, e))
      BY <3>1 DEF Dispatch
    <3>4. ParseBlock(s) = <<e>>
      BY <1>3, <2>6
    <3>. HIDE DEF e
    <3>5. es \o <<e>> = Append(es, e) /\ Append(es, e) \in Seq(Events)
      BY <3>2, AppendIsConcat, AppendProperties
    <3>6. [FreshWith(Append(es, e)) EXCEPT !.line = <<>>] = FreshWith(Append(es, e))
      <4> DEFINE v == FreshWith(Append(es, e))
                 w == [v EXCEPT !.line = <<>>]
      <4>1. v \in Readers /\ v.line = <<>>
        BY <3>5, FreshWithType DEF FreshWith
      <4>. HIDE DEF v
      <4>2. w \in Readers /\ w.out = v.out /\ w.type = v.type /\ w.data = v.data
              /\ w.some = v.some /\ w.line = v.line
        BY <4>1 DEF Readers
      <4>. HIDE DEF w
      <4>3. w = v
        BY <4>1, <4>2, SameReader
      <4>. QED  BY <4>3 DEF w, v
    <3>. QED  BY <1>2, <2>4, <3>3, <3>4, <3>5, <3>6 DEF b
  <2>. QED  BY <2>5, <2>6
<1>. QED  BY <1>5, <1>6

-----------------------------------------------------------------------------
(* The parser                                                              *)

(* Where reading the buffer leads after the events returned so far.        *)
Reached == Read(buffer, FreshWith(events))

(* The parser holds what a line by line reading of all that has arrived    *)
(* would have: exactly, as long as no chunk has ended inside a character,  *)
(* and up to broken characters whatever the chunks were.                   *)
SseInv ==
  /\ body \in Seq(Bytes) /\ seen \in Seq(Bytes)
  /\ buffer \in Seq(Chars) /\ events \in Seq(Events)
  /\ pc \in {"waiting", "draining"} /\ torn \in BOOLEAN
  /\ pc = "waiting" => NoBlankLine(buffer)
  /\ ~torn => Reached = Read(Decode(seen), Fresh) /\ ~EndsInHi(seen)
  /\ BrokenReader(Reached) = Read(Raw(seen), Fresh)

LEMMA ConcatAt ==
  ASSUME NEW T, NEW s \in Seq(T), NEW t \in Seq(T)
  PROVE  /\ s \o t \in Seq(T) /\ Len(s \o t) = Len(s) + Len(t)
         /\ \A k \in 1..Len(s) : (s \o t)[k] = s[k]
         /\ \A k \in 1..Len(t) : (s \o t)[Len(s) + k] = t[k]
<1>1. Len(s) \in Nat /\ Len(t) \in Nat
  BY LenProperties
<1>2. /\ s \o t \in Seq(T) /\ Len(s \o t) = Len(s) + Len(t)
      /\ \A k \in 1..(Len(s) + Len(t)) :
           (s \o t)[k] = IF k <= Len(s) THEN s[k] ELSE t[k - Len(s)]
  BY ConcatProperties
<1>3. ASSUME NEW k \in 1..Len(s)  PROVE (s \o t)[k] = s[k]
  <2>1. k \in 1..(Len(s) + Len(t)) /\ k <= Len(s)
    BY <1>1
  <2>. QED  BY <1>2, <2>1
<1>4. ASSUME NEW k \in 1..Len(t)  PROVE (s \o t)[Len(s) + k] = t[k]
  <2>1. /\ Len(s) + k \in 1..(Len(s) + Len(t)) /\ ~(Len(s) + k <= Len(s))
        /\ (Len(s) + k) - Len(s) = k
    BY <1>1
  <2>. QED  BY <1>2, <2>1
<1>. QED  BY <1>2, <1>3, <1>4

LEMMA SseStart == Init => SseInv
<1> SUFFICES ASSUME Init  PROVE SseInv
  OBVIOUS
<1>1. /\ body \in Seq(Bytes) /\ seen = <<>> /\ buffer = <<>> /\ events = <<>>
      /\ torn = FALSE /\ pc = "waiting"
  BY BodiesAssumption DEF Init
<1>2. seen \in Seq(Bytes) /\ buffer \in Seq(Chars) /\ events \in Seq(Events)
  BY <1>1, EmptySeq
<1>3. DOMAIN buffer = 1..0
  BY <1>1, EmptySeq
<1>4. Reached = Fresh
  <2>1. Read(<<>>, Fresh) = Fresh
    BY FreshType, ReadStart
  <2>. QED  BY <1>1, <2>1 DEF Reached, Fresh
<1>5. Read(Decode(seen), Fresh) = Fresh /\ Read(Raw(seen), Fresh) = Fresh
  BY <1>1, FreshType, ReadStart, DecodeEmpty, RawEmpty
<1>6. NoBlankLine(buffer)
  BY <1>3 DEF NoBlankLine
<1>7. ~EndsInHi(seen)
  BY <1>1 DEF EndsInHi
<1>. QED  BY <1>1, <1>2, <1>4, <1>5, <1>6, <1>7, BrokenFresh DEF SseInv

LEMMA DeliverKeeps == SseInv /\ Deliver => SseInv'
<1> SUFFICES ASSUME SseInv, Deliver  PROVE SseInv'
  OBVIOUS
<1>1. PICK n \in 1..Len(body) :
        LET chunk == SubSeq(body, 1, n) IN
          /\ body' = SubSeq(body, n + 1, Len(body))
          /\ seen' = seen \o chunk
          /\ buffer' = buffer \o Decode(chunk)
          /\ torn' = (torn \/ chunk[n] = "hi")
  BY DEF Deliver
<1> DEFINE chunk == SubSeq(body, 1, n)
           d == Decode(chunk)
           r == Reached
<1>2. /\ body \in Seq(Bytes) /\ seen \in Seq(Bytes) /\ buffer \in Seq(Chars)
      /\ events \in Seq(Events) /\ torn \in BOOLEAN /\ Len(body) \in Nat
      /\ pc' = "draining" /\ events' = events
  BY LenProperties DEF SseInv, Deliver
<1>3. chunk \in Seq(Bytes) /\ Len(chunk) = n /\ body' \in Seq(Bytes)
  BY <1>1, <1>2, SubSeqProperties
<1>4. /\ seen' = seen \o chunk /\ buffer' = buffer \o d
      /\ torn' = (torn \/ chunk[n] = "hi")
  BY <1>1
<1>. HIDE DEF chunk
<1>5. d \in Seq(Chars) /\ seen' \in Seq(Bytes) /\ buffer' \in Seq(Chars)
  <2>1. d \in Seq(Chars)
    BY <1>3, DecodeType
  <2>. HIDE DEF d
  <2>. QED  BY <1>2, <1>3, <1>4, <2>1, ConcatProperties
<1>6. FreshWith(events) \in Readers /\ r \in Readers
  BY <1>2, FreshWithType, ReadIn DEF Reached
<1>7. Reached' = Read(d, r)
  <2>. HIDE DEF d
  <2>1. Read(buffer \o d, FreshWith(events)) = Read(d, Read(buffer, FreshWith(events)))
    BY <1>2, <1>5, <1>6, ReadConcat
  <2>. QED  BY <1>2, <1>4, <2>1 DEF Reached
<1>8. ASSUME ~torn'  PROVE Reached' = Read(Decode(seen'), Fresh) /\ ~EndsInHi(seen')
  <2>1. ~torn /\ chunk[n] # "hi"
    BY <1>2, <1>4, <1>8
  <2>2. r = Read(Decode(seen), Fresh) /\ ~EndsInHi(seen)
    BY <2>1 DEF SseInv
  <2>3. Decode(seen \o chunk) = Decode(seen) \o d
    BY <1>2, <1>3, <2>2, DecodeConcat
  <2>4. Decode(seen) \in Seq(Chars)
    BY <1>2, DecodeType
  <2>5. Read(Decode(seen) \o d, Fresh) = Read(d, Read(Decode(seen), Fresh))
    <3>. HIDE DEF d
    <3>. QED  BY <1>5, <2>4, FreshType, ReadConcat
  <2>6. ~EndsInHi(seen \o chunk)
    <3>1. Len(seen) \in Nat /\ n \in Nat /\ n >= 1
      BY <1>2, LenProperties
    <3>2. Len(seen \o chunk) = Len(seen) + n /\ (seen \o chunk)[Len(seen) + n] = chunk[n]
      <4>1. Len(seen \o chunk) = Len(seen) + Len(chunk)
        BY <1>2, <1>3, ConcatAt
      <4>2. \A k \in 1..Len(chunk) : (seen \o chunk)[Len(seen) + k] = chunk[k]
        BY <1>2, <1>3, ConcatAt
      <4>. QED  BY <1>3, <3>1, <4>1, <4>2
    <3>. QED  BY <2>1, <3>2 DEF EndsInHi
  <2>. HIDE DEF d, r
  <2>. QED  BY <1>4, <1>7, <2>2, <2>3, <2>5, <2>6
<1>9. BrokenReader(Reached') = Read(Raw(seen'), Fresh)
  <2>1. BrokenReader(r) = Read(Raw(seen), Fresh)
    BY DEF SseInv
  <2>2. Read(Broken(d), BrokenReader(r)) = BrokenReader(Read(d, r))
    <3>. HIDE DEF d, r
    <3>. QED  BY <1>5, <1>6, BrokenRead
  <2>3. Broken(d) = Raw(chunk)
    BY <1>3, RawIsBroken
  <2>4. Raw(seen) \in Seq(Chars) /\ Raw(chunk) \in Seq(Chars)
          /\ Raw(seen \o chunk) = Raw(seen) \o Raw(chunk)
    BY <1>2, <1>3, RawType, RawConcat
  <2>5. Read(Raw(seen) \o Raw(chunk), Fresh) = Read(Raw(chunk), Read(Raw(seen), Fresh))
    BY <2>4, FreshType, ReadConcat
  <2>. HIDE DEF d, r
  <2>. QED  BY <1>4, <1>7, <2>1, <2>2, <2>3, <2>4, <2>5
<1>10. torn' \in BOOLEAN
  BY <1>2, <1>4
<1>. QED  BY <1>2, <1>3, <1>5, <1>8, <1>9, <1>10 DEF SseInv

LEMMA CutBlockKeeps == SseInv /\ CutBlock => SseInv'
<1> SUFFICES ASSUME SseInv, CutBlock  PROVE SseInv'
  OBVIOUS
<1>1. PICK p \in DOMAIN buffer :
        /\ Boundary(p) /\ \A q \in 1..(p - 1) : ~Boundary(q)
        /\ events' = events \o ParseBlock(SubSeq(buffer, 1, p - 1))
        /\ buffer' = SubSeq(buffer, p + 2, Len(buffer))
  BY DEF CutBlock
<1> DEFINE block == SubSeq(buffer, 1, p - 1)
           rest == SubSeq(buffer, p + 2, Len(buffer))
           two == Append(Append(block, "nl"), "nl")
           N == Len(buffer)
<1>2. /\ buffer \in Seq(Chars) /\ events \in Seq(Events) /\ N \in Nat
      /\ DOMAIN buffer = 1..N /\ p \in 1..N /\ p + 1 \in 1..N
      /\ buffer[p] = "nl" /\ buffer[p + 1] = "nl" /\ "nl" \in Chars
  BY <1>1, LenProperties DEF SseInv, Boundary, Chars, Bytes
<1>3. /\ block \in Seq(Chars) /\ Len(block) = p - 1 /\ DOMAIN block = 1..(p - 1)
      /\ \A k \in 1..(p - 1) : block[k] = buffer[k]
  BY <1>2, SubSeqProperties
<1>4. rest \in Seq(Chars) /\ Len(rest) = N - (p + 1)
        /\ \A k \in 1..(N - (p + 1)) : rest[k] = buffer[p + 1 + k]
  <2>1. p + 2 \in 1..(N + 1) /\ N \in 0..N /\ N - (p + 2) + 1 = N - (p + 1)
    BY <1>2
  <2>2. /\ rest \in Seq(Chars) /\ Len(rest) = N - (p + 1)
        /\ \A k \in 1..(N - (p + 2) + 1) : rest[k] = buffer[p + 2 + k - 1]
    BY <1>2, <2>1, SubSeqProperties
  <2>3. ASSUME NEW k \in 1..(N - (p + 1))  PROVE rest[k] = buffer[p + 1 + k]
    <3>1. p + 2 + k - 1 = p + 1 + k
      BY <1>2
    <3>. QED  BY <2>1, <2>2, <3>1
  <2>. QED  BY <2>2, <2>3
<1>. HIDE DEF block
<1>5. two \in Seq(Chars) /\ Len(two) = p + 1 /\ \A k \in 1..(p + 1) : two[k] = buffer[k]
  <2> DEFINE one == Append(block, "nl")
  <2>1. /\ one \in Seq(Chars) /\ Len(one) = p
        /\ \A k \in 1..(p - 1) : one[k] = block[k]
        /\ one[p] = "nl"
    BY <1>2, <1>3, AppendProperties
  <2>. HIDE DEF one
  <2>2. /\ Append(one, "nl") \in Seq(Chars) /\ Len(Append(one, "nl")) = p + 1
        /\ \A k \in 1..p : Append(one, "nl")[k] = one[k]
        /\ Append(one, "nl")[p + 1] = "nl"
    BY <1>2, <2>1, AppendProperties
  <2>3. ASSUME NEW k \in 1..(p + 1)  PROVE Append(one, "nl")[k] = buffer[k]
    <3>1. k \in 1..(p - 1) \/ k = p \/ k = p + 1
      BY <1>2
    <3>2. k \in 1..(p - 1) \/ k = p => k \in 1..p
      BY <1>2
    <3>. QED  BY <1>2, <1>3, <2>1, <2>2, <3>1, <3>2
  <2>. QED  BY <2>2, <2>3 DEF one
<1>. HIDE DEF two, rest
<1>6. buffer = two \o rest
  <2> DEFINE w == two \o rest
  <2>1. w \in Seq(Chars) /\ Len(w) = Len(two) + Len(rest)
    BY <1>4, <1>5, ConcatAt
  <2>2. /\ \A k \in 1..Len(two) : w[k] = two[k]
        /\ \A k \in 1..Len(rest) : w[Len(two) + k] = rest[k]
    BY <1>4, <1>5, ConcatAt
  <2>3. /\ Len(two) = p + 1 /\ Len(rest) = N - (p + 1)
        /\ p \in Nat /\ N \in Nat /\ p + 1 <= N
    BY <1>2, <1>4, <1>5
  <2>4. Len(w) = N
    <3>. HIDE DEF N
    <3>. QED  BY <2>1, <2>3
  <2>. HIDE DEF w
  <2>5. ASSUME NEW k \in 1..N  PROVE w[k] = buffer[k]
    <3>1. CASE k \in 1..(p + 1)
      BY <1>5, <2>2, <3>1
    <3>2. CASE k \notin 1..(p + 1)
      <4>1. k - (p + 1) \in 1..(N - (p + 1)) /\ k = p + 1 + (k - (p + 1))
        BY <1>2, <3>2
      <4> DEFINE j == k - (p + 1)
      <4>2. j \in 1..Len(rest) /\ Len(two) + j = k /\ p + 1 + j = k
        BY <2>3, <4>1
      <4>3. rest[j] = buffer[p + 1 + j]
        BY <1>4, <4>1
      <4>. HIDE DEF j
      <4>4. w[Len(two) + j] = rest[j]
        BY <2>2, <4>2
      <4>. QED  BY <4>2, <4>3, <4>4
    <3>. QED  BY <3>1, <3>2
  <2>6. w = buffer
    BY <1>2, <2>1, <2>4, <2>5, SeqEqual
  <2>. QED  BY <2>6 DEF w
<1>7. NoBlankLine(block)
  <2> SUFFICES ASSUME NEW k \in 1..(p - 1), k + 1 \in 1..(p - 1),
                      block[k] = "nl", block[k + 1] = "nl"
               PROVE  FALSE
    BY <1>3 DEF NoBlankLine
  <2>1. buffer[k] = "nl" /\ buffer[k + 1] = "nl" /\ k + 1 \in DOMAIN buffer
    BY <1>2, <1>3
  <2>. QED  BY <1>1, <2>1 DEF Boundary
<1>8. ~EndsInNl(block)
  <2> SUFFICES ASSUME block # <<>>, block[Len(block)] = "nl"  PROVE FALSE
    BY DEF EndsInNl
  <2>1. p - 1 \in 1..(p - 1) /\ (p - 1) + 1 = p
    BY <1>2, <1>3, EmptySeq
  <2>2. buffer[p - 1] = "nl" /\ buffer[(p - 1) + 1] = "nl" /\ (p - 1) + 1 \in DOMAIN buffer
    BY <1>2, <1>3, <2>1
  <2>. QED  BY <1>1, <2>1, <2>2 DEF Boundary
<1>9. /\ Read(two, FreshWith(events)) = FreshWith(events')
      /\ events' \in Seq(Events)
  <2>1. events' = events \o ParseBlock(block)
    BY <1>1 DEF block
  <2>. QED  BY <1>2, <1>3, <1>7, <1>8, <2>1, BlockRead DEF two
<1>10. buffer' = rest
  BY <1>1 DEF rest
<1>11. Reached' = Reached
  <2>1. FreshWith(events) \in Readers
    BY <1>2, FreshWithType
  <2>2. Read(two \o rest, FreshWith(events)) = Read(rest, Read(two, FreshWith(events)))
    BY <1>4, <1>5, <2>1, ReadConcat
  <2>3. Reached = Read(two \o rest, FreshWith(events))
    BY <1>6 DEF Reached
  <2>4. Reached' = Read(rest, FreshWith(events'))
    BY <1>10 DEF Reached
  <2>. QED  BY <1>9, <2>2, <2>3, <2>4, Zenon
<1>12. body' = body /\ seen' = seen /\ torn' = torn /\ pc' = pc /\ pc = "draining"
  BY DEF CutBlock
<1>. QED  BY <1>4, <1>9, <1>10, <1>11, <1>12 DEF SseInv

LEMMA FeedReturnsKeeps == SseInv /\ FeedReturns => SseInv'
<1> SUFFICES ASSUME SseInv, FeedReturns  PROVE SseInv'
  OBVIOUS
<1>1. NoBlankLine(buffer)
  BY DEF FeedReturns, Boundary, NoBlankLine
<1>2. /\ body' = body /\ seen' = seen /\ buffer' = buffer /\ events' = events
      /\ torn' = torn /\ pc' = "waiting"
  BY DEF FeedReturns
<1>3. Reached' = Reached
  BY <1>2 DEF Reached
<1>. QED  BY <1>1, <1>2, <1>3 DEF SseInv

LEMMA SseStep == SseInv /\ [Next]_vars => SseInv'
<1> SUFFICES ASSUME SseInv, [Next]_vars  PROVE SseInv'
  OBVIOUS
<1>1. CASE UNCHANGED vars
  <2>1. /\ body' = body /\ seen' = seen /\ buffer' = buffer /\ events' = events
        /\ torn' = torn /\ pc' = pc
    BY <1>1 DEF vars
  <2>2. Reached' = Reached
    BY <2>1 DEF Reached
  <2>. QED  BY <2>1, <2>2 DEF SseInv
<1>. QED  BY <1>1, DeliverKeeps, CutBlockKeeps, FeedReturnsKeeps DEF Next

(* What the parser has returned and what it holds back follow from the     *)
(* bytes that have arrived, for every body and every way to cut it into    *)
(* chunks.                                                                 *)
THEOREM ParserFollowsBytes == Spec => []SseInv
<1>1. Init => SseInv
  BY SseStart
<1>2. SseInv /\ [Next]_vars => SseInv'
  BY SseStep
<1>. QED  BY <1>1, <1>2, PTL DEF Spec

LEMMA ReachedOut == SseInv /\ NoBlankLine(buffer) => Reached.out = events
<1> SUFFICES ASSUME SseInv, NoBlankLine(buffer)  PROVE Reached.out = events
  OBVIOUS
<1>1. buffer \in Seq(Chars) /\ events \in Seq(Events)
  BY DEF SseInv
<1>2. Matches(Read(buffer, FreshWith(events)), Scanned(buffer), events)
  BY <1>1, MatchRead
<1>. QED  BY <1>2 DEF Matches, Reached

LEMMA InvTypes == SseInv => SseTypeOK
<1> SUFFICES ASSUME SseInv  PROVE SseTypeOK
  OBVIOUS
<1>1. /\ body \in Seq(Bytes) /\ seen \in Seq(Bytes)
      /\ buffer \in Seq(Chars) /\ events \in Seq(Events)
  BY DEF SseInv
<1>2. /\ DOMAIN body = 1..Len(body) /\ DOMAIN seen = 1..Len(seen)
      /\ DOMAIN buffer = 1..Len(buffer) /\ DOMAIN events = 1..Len(events)
  BY <1>1, LenProperties
<1>3. \A s \in {body, seen} : \A k \in DOMAIN s : s[k] \in Bytes
  BY <1>1, <1>2, ElementOfSeq
<1>4. \A k \in DOMAIN buffer : buffer[k] \in Chars
  BY <1>1, <1>2, ElementOfSeq
<1>5. \A k \in DOMAIN events : events[k] \in Events
  BY <1>1, <1>2, ElementOfSeq
<1>6. \A k \in DOMAIN events : events[k].event_type \in Seq(Chars)
  BY <1>5 DEF Events
<1>7. pc \in {"waiting", "draining"}
  BY DEF SseInv
<1>8. pc = "waiting" => \A p \in DOMAIN buffer : ~Boundary(p)
  BY DEF SseInv, NoBlankLine, Boundary
<1>. QED  BY <1>3, <1>4, <1>6, <1>7, <1>8 DEF SseTypeOK

(* A complete block never waits for the next chunk, and every event is     *)
(* made of characters, whatever a provider sends.                          *)
THEOREM SseTypes == Spec => []SseTypeOK
  BY ParserFollowsBytes, InvTypes, PTL

LEMMA InvFollows == SseInv => EventsFollowBytes
<1> SUFFICES ASSUME SseInv, pc = "waiting"
             PROVE  LET due == ReadLines(Decode(seen)) IN
                      IF torn THEN BrokenEvents(events) = BrokenEvents(due) ELSE events = due
  BY DEF EventsFollowBytes
<1> DEFINE s == Decode(seen)
           r == Read(s, Fresh)
<1>1. seen \in Seq(Bytes) /\ torn \in BOOLEAN /\ NoBlankLine(buffer)
  BY DEF SseInv
<1>2. s \in Seq(Chars) /\ Broken(s) = Raw(seen)
  BY <1>1, DecodeType, RawIsBroken
<1>3. Reached.out = events
  BY <1>1, ReachedOut
<1>4. ReadLines(s) = r.out
  <2>. HIDE DEF s
  <2>. QED  BY <1>2, ReadLinesIsRead
<1>5. ~torn => events = r.out
  BY <1>3 DEF SseInv
<1>6. BrokenEvents(events) = BrokenEvents(r.out)
  <2>1. Read(Broken(s), BrokenReader(Fresh)) = BrokenReader(r)
    <3>. HIDE DEF s
    <3>. QED  BY <1>2, FreshType, BrokenRead
  <2>2. BrokenReader(Reached) = Read(Raw(seen), Fresh)
    BY DEF SseInv
  <2>. HIDE DEF r, s
  <2>3. BrokenReader(Reached) = BrokenReader(r)
    BY <1>2, <2>1, <2>2, BrokenFresh, Zenon
  <2>4. \A q : BrokenReader(q).out = BrokenEvents(q.out)
    BY DEF BrokenReader
  <2>. QED  BY <1>3, <2>3, <2>4, Zenon
<1>. HIDE DEF r
<1>. QED  BY <1>4, <1>5, <1>6

(* The events returned are those of the bytes that have arrived, neither   *)
(* early nor late nor altered, however the network cuts the body; a cut    *)
(* inside a character costs that character and nothing else.               *)
THEOREM EventsAreThoseOfTheBytes == Spec => []EventsFollowBytes
  BY ParserFollowsBytes, InvFollows, PTL
=============================================================================
