------------------------- MODULE EngineSocketProofs -------------------------
(* Proofs about EngineSocket: decoding a payload gives what was encoded;   *)
(* one inductive invariant gives the safety properties of the client; and  *)
(* the messages of the server, and those of the client, come as Channel    *)
(* promises.                                                               *)
EXTENDS EngineSocket, FiniteSetTheorems, SequenceTheorems, WellFoundedInduction, TLAPS

-----------------------------------------------------------------------------
(* The payload of a request: decoding it gives back what was encoded.      *)

Kinds == {"char", "text", "probe", "buffer", "base64", "close"}
Symbols == [kind : Kinds, v : Nat]
Packets == [type : DOMAIN PACKET_TYPES, data : Seq(Symbols)]

(* What a side writes: a packet without data, with a text, with the word   *)
(* of a probe, or a message that is binary.                                *)
Sendable ==
  {p \in Packets :
     \/ p.data = <<>>
     \/ \E n \in Nat : p.data = <<Symbol("text", n)>> \/ p.data = <<Symbol("probe", n)>>
     \/ \E n \in Nat : p.type = "message" /\ p.data = <<Symbol("buffer", n)>>}

(* A set with 0 and the successor of each of its numbers below n.          *)
LEMMA Induction ==
  ASSUME NEW n \in Nat, NEW T, 0 \in T, \A k \in 0 .. n - 1 : k \in T => k + 1 \in T
  PROVE  0 .. n \subseteq T
<1> DEFINE bad == {k \in 0 .. n : k \notin T}
<1>1. SUFFICES ASSUME bad # {} PROVE FALSE
  OBVIOUS
<1>2. \E x \in bad : \A y \in bad : ~(<<y, x>> \in OpToRel(<, Nat))
  <2>1. bad \subseteq Nat
    OBVIOUS
  <2> HIDE DEF bad
  <2> QED
    BY <1>1, <2>1, NatLessThanWellFounded, WFMin
<1>3. \A x, y \in Nat : y < x => <<y, x>> \in OpToRel(<, Nat)
  BY DEF OpToRel
<1>4. PICK x \in bad : \A y \in bad : ~(y < x)
  <2>1. bad \subseteq Nat
    OBVIOUS
  <2> HIDE DEF bad
  <2> QED
    BY <1>2, <1>3, <2>1, Zenon
<1>5. x - 1 \in 0 .. n - 1 /\ x = (x - 1) + 1 /\ x - 1 < x /\ x \in Nat
  OBVIOUS
<1>6. x - 1 \notin bad
  BY <1>4, <1>5
<1> QED
  BY <1>5, <1>6

(* Symbols are the same when kind and value are.                           *)
LEMMA SymbolFacts ==
  ASSUME NEW n \in Nat
  PROVE  /\ Char(n) \in Symbols /\ Char(n).kind = "char" /\ Char(n).v = n
         /\ Symbol("text", n) \in Symbols /\ Symbol("text", n).kind = "text"
         /\ Symbol("probe", n) \in Symbols /\ Symbol("probe", n).kind = "probe"
         /\ Symbol("buffer", n) \in Symbols /\ Symbol("buffer", n).kind = "buffer"
         /\ Symbol("buffer", n).v = n
         /\ Symbol("base64", n) \in Symbols /\ Symbol("base64", n).kind = "base64"
         /\ Symbol("base64", n).v = n
         /\ SEPARATOR.kind = "char" /\ SEPARATOR.v = 30
<1>1. Char(n) \in Symbols /\ Char(n).kind = "char" /\ Char(n).v = n
  BY DEF Symbol, Symbols, Kinds, Char
<1>2. Symbol("text", n) \in Symbols /\ Symbol("text", n).kind = "text"
  BY DEF Symbol, Symbols, Kinds
<1>3. Symbol("probe", n) \in Symbols /\ Symbol("probe", n).kind = "probe"
  BY DEF Symbol, Symbols, Kinds
<1>4. /\ Symbol("buffer", n) \in Symbols /\ Symbol("buffer", n).kind = "buffer"
      /\ Symbol("buffer", n).v = n
  BY DEF Symbol, Symbols, Kinds
<1>5. /\ Symbol("base64", n) \in Symbols /\ Symbol("base64", n).kind = "base64"
      /\ Symbol("base64", n).v = n
  BY DEF Symbol, Symbols, Kinds
<1>6. SEPARATOR.kind = "char" /\ SEPARATOR.v = 30
  BY DEF Symbol, Char, SEPARATOR
<1> QED
  BY <1>1, <1>2, <1>3, <1>4, <1>5, <1>6

(* A frame, or a part of a payload, that carries the packet p: there is no *)
(* separator in it, and it is decoded to p.                                *)
Carries(e, p) ==
  /\ e \in Seq(Symbols) /\ Len(e) > 0
  /\ \A j \in 1 .. Len(e) : e[j] # SEPARATOR
  /\ DecodePacket(e) = p

(* The types of packets are told apart by their first character.           *)
LEMMA TypeFacts ==
  LET T == DOMAIN PACKET_TYPES
  IN  /\ T = {"open", "close", "ping", "pong", "message", "upgrade", "noop"}
      /\ \A t \in T : /\ PACKET_TYPES[t] \in Symbols /\ PACKET_TYPES[t].kind = "char"
                      /\ PACKET_TYPES[t] # SEPARATOR /\ PACKET_TYPES[t] # Char(98)
                      /\ \A u \in T : PACKET_TYPES[t] = PACKET_TYPES[u] => t = u
<1> DEFINE T == DOMAIN PACKET_TYPES
<1>1. T = {"open", "close", "ping", "pong", "message", "upgrade", "noop"}
  BY DEF PACKET_TYPES
<1>2. /\ PACKET_TYPES.open = Char(48) /\ PACKET_TYPES.close = Char(49)
      /\ PACKET_TYPES.ping = Char(50) /\ PACKET_TYPES.pong = Char(51)
      /\ PACKET_TYPES.message = Char(52) /\ PACKET_TYPES.upgrade = Char(53)
      /\ PACKET_TYPES.noop = Char(54)
  BY DEF PACKET_TYPES
<1>3. \A n \in Nat : Char(n) \in Symbols /\ Char(n).kind = "char" /\ Char(n).v = n
  BY SymbolFacts
<1>4. SEPARATOR = Char(30)
  BY DEF SEPARATOR
<1> QED
  BY <1>1, <1>2, <1>3, <1>4

(* A packet without data or with a text.                                   *)
LEMMA TextRoundTrip ==
  ASSUME NEW p \in Packets,
         p.data = <<>> \/ (Len(p.data) = 1 /\ p.data[1].kind \in {"text", "probe"})
  PROVE  /\ Carries(EncodePacket(p, TRUE), p)
         /\ EncodePacket(p, FALSE) = EncodePacket(p, TRUE)
<1> DEFINE T == DOMAIN PACKET_TYPES
           d == p.data
           c == PACKET_TYPES[p.type]
           e == <<c>> \o d
<1>1. /\ p.type \in T /\ d \in Seq(Symbols) /\ p = [type |-> p.type, data |-> d]
  BY DEF Packets
<1>2. c \in Symbols /\ c.kind = "char" /\ c # SEPARATOR /\ c # Char(98)
  BY <1>1, TypeFacts
<1>3. EncodePacket(p, TRUE) = e /\ EncodePacket(p, FALSE) = e
  BY DEF EncodePacket, IsBinary
<1>4. /\ e \in Seq(Symbols) /\ Len(e) = 1 + Len(d) /\ e[1] = c /\ Tail(e) = d /\ e # <<>>
      /\ \A j \in 1 .. Len(d) : e[j + 1] = d[j]
  BY <1>1, <1>2
<1>5. \A j \in 1 .. Len(e) : e[j] # SEPARATOR
  <2>1. \A j \in 1 .. Len(d) : d[j] # SEPARATOR
    BY SymbolFacts
  <2> QED
    BY <1>1, <1>2, <1>4, <2>1
<1> HIDE DEF e
<1>6. {t \in T : e # <<>> /\ PACKET_TYPES[t] = e[1]} = {p.type}
  BY <1>1, <1>4, TypeFacts
<1>7. DecodePacket(e) = p
  BY <1>1, <1>2, <1>4, <1>6 DEF DecodePacket, IsBinary
<1>8. Len(e) > 0
  BY <1>1, <1>4
<1>9. Carries(e, p)
  BY <1>4, <1>5, <1>7, <1>8 DEF Carries
<1> QED
  BY <1>3, <1>9

(* A binary message, which is base64 in a payload.                         *)
LEMMA BufferRoundTrip ==
  ASSUME NEW n \in Nat, NEW p \in Packets, p.type = "message",
         p.data = <<Symbol("buffer", n)>>
  PROVE  Carries(EncodePacket(p, TRUE), p) /\ Carries(EncodePacket(p, FALSE), p)
<1> DEFINE s == Symbol("buffer", n)
           x == Symbol("base64", n)
           b == <<s>>
           c == <<Char(98), x>>
<1>1. p = [type |-> "message", data |-> b]
  BY DEF Packets
<1>2. s \in Symbols /\ s.kind = "buffer" /\ s.v = n /\ s # SEPARATOR
  BY SymbolFacts
<1>3. x \in Symbols /\ x.kind = "base64" /\ x.v = n /\ x # SEPARATOR
  BY SymbolFacts
<1>4. Char(98) \in Symbols /\ Char(98).kind = "char" /\ Char(98) # SEPARATOR
  BY SymbolFacts
<1>5. EncodePacket(p, TRUE) = b /\ EncodePacket(p, FALSE) = c
  BY <1>1, <1>2 DEF EncodePacket, IsBinary, Base64
<1>6. Carries(b, p)
  <2>1. b \in Seq(Symbols) /\ Len(b) = 1 /\ b[1] = s /\ b # <<>>
    BY <1>2
  <2> HIDE DEF b, s
  <2>2. DecodePacket(b) = p
    BY <1>1, <1>2, <2>1 DEF DecodePacket, IsBinary
  <2> QED
    BY <1>2, <2>1, <2>2 DEF Carries
<1>7. Carries(c, p)
  <2>1. c \in Seq(Symbols) /\ Len(c) = 2 /\ c[1] = Char(98) /\ c[2] = x /\ c # <<>>
    BY <1>3, <1>4
  <2> HIDE DEF c, x
  <2>2. DecodePacket(c) = p
    BY <1>1, <1>3, <1>4, <2>1 DEF DecodePacket, IsBinary
  <2> QED
    BY <1>3, <1>4, <2>1, <2>2 DEF Carries
<1> QED
  BY <1>5, <1>6, <1>7

(* One packet, on the websocket (TRUE) and in a payload (FALSE).           *)
LEMMA PacketRoundTrip ==
  ASSUME NEW p \in Sendable
  PROVE  Carries(EncodePacket(p, TRUE), p) /\ Carries(EncodePacket(p, FALSE), p)
<1>1. p \in Packets
  BY DEF Sendable
<1>2. CASE p.data = <<>>
  BY <1>1, <1>2, TextRoundTrip
<1>3. ASSUME NEW n \in Nat, p.data = <<Symbol("text", n)>> \/ p.data = <<Symbol("probe", n)>>
      PROVE  Len(p.data) = 1 /\ p.data[1].kind \in {"text", "probe"}
  <2>1. Symbol("text", n).kind = "text" /\ Symbol("probe", n).kind = "probe"
    BY SymbolFacts
  <2> QED
    BY <1>3, <2>1
<1>4. CASE \E n \in Nat : p.type = "message" /\ p.data = <<Symbol("buffer", n)>>
  BY <1>1, <1>4, BufferRoundTrip
<1> QED
  BY <1>1, <1>2, <1>3, <1>4, TextRoundTrip DEF Sendable
-----------------------------------------------------------------------------
(* The payload.  After k packets it is F[k]: packet i begins with a        *)
(* separator after place at[i - 1].                                        *)
Laid(F, at, part, k) ==
  /\ F[k] \in Seq(Symbols) /\ at[k] = Len(F[k])
  /\ \A i \in 1 .. k :
        /\ at[i] = at[i - 1] + 1 + Len(part[i]) /\ at[i] <= at[k]
        /\ F[k][at[i - 1] + 1] = SEPARATOR
        /\ \A j \in 1 .. Len(part[i]) : F[k][at[i - 1] + 1 + j] = part[i][j]
  /\ \A x \in 1 .. at[k] : \E i \in 1 .. k : x \in at[i - 1] + 1 .. at[i]

(* F is made by appending each packet to those before.                     *)
Grows(F, at, part, n) ==
  /\ part \in [1 .. n -> Seq(Symbols)] /\ at \in [0 .. n -> Nat] /\ at[0] = 0
  /\ F[1] = <<SEPARATOR>> \o part[1]
  /\ \A k \in 1 .. n - 1 : F[k + 1] = F[k] \o (<<SEPARATOR>> \o part[k + 1])
  /\ \A k \in 1 .. n : at[k] = Len(F[k])

(* Each packet is appended to those before.                                *)
LEMMA LaidStep ==
  ASSUME NEW n \in Nat, NEW part, NEW F, NEW at, Grows(F, at, part, n),
         NEW k \in 1 .. n - 1, Laid(F, at, part, k)
  PROVE  Laid(F, at, part, k + 1)
<1> DEFINE c == <<SEPARATOR>> \o part[k + 1]
           f == F[k]
           g == F[k + 1]
           l == Len(part[k + 1])
<1>0. k \in Nat /\ k \in 0 .. n /\ k + 1 \in 1 .. n /\ k + 1 \in 0 .. n /\ (k + 1) - 1 = k
  OBVIOUS
<1>1. /\ k \in Nat /\ (k + 1) - 1 = k /\ l \in Nat
      /\ part[k + 1] \in Seq(Symbols) /\ at[k] \in Nat /\ at[k + 1] \in Nat
  BY <1>0 DEF Grows
<1>8. SEPARATOR \in Symbols
  BY SymbolFacts DEF SEPARATOR
<1>9. \A i \in 1 .. k : i \in 1 .. n /\ i \in 0 .. n /\ i - 1 \in 0 .. n
  BY <1>0
<1>2. /\ c \in Seq(Symbols) /\ Len(c) = 1 + l /\ c[1] = SEPARATOR
      /\ \A j \in 1 .. l : c[1 + j] = part[k + 1][j]
  BY <1>1, <1>8
<1>3. f \in Seq(Symbols) /\ at[k] = Len(f) /\ at[k + 1] = Len(g) /\ g = f \o c
  BY <1>0 DEF Laid, Grows
<1>10. \A i \in 1 .. k :
        /\ at[i] = at[i - 1] + 1 + Len(part[i]) /\ at[i] <= at[k]
        /\ f[at[i - 1] + 1] = SEPARATOR
        /\ \A j \in 1 .. Len(part[i]) : f[at[i - 1] + 1 + j] = part[i][j]
  BY DEF Laid
<1> HIDE DEF c, f, g, l
<1>4. /\ g \in Seq(Symbols) /\ Len(g) = at[k] + 1 + l
      /\ \A x \in 1 .. at[k] : g[x] = f[x]
      /\ \A x \in 1 .. 1 + l : g[at[k] + x] = c[x]
  <2>1. /\ g \in Seq(Symbols) /\ Len(g) = Len(f) + Len(c)
        /\ \A x \in 1 .. Len(f) + Len(c) : g[x] = IF x <= Len(f) THEN f[x] ELSE c[x - Len(f)]
    <3>1. \A s \in Seq(Symbols), u \in Seq(Symbols) :
            /\ s \o u \in Seq(Symbols) /\ Len(s \o u) = Len(s) + Len(u)
            /\ \A x \in 1 .. Len(s) + Len(u) :
                  (s \o u)[x] = IF x <= Len(s) THEN s[x] ELSE u[x - Len(s)]
      BY ConcatProperties, Zenon
    <3> QED
      BY <1>2, <1>3, <3>1, Zenon
  <2>2. \A x \in 1 .. 1 + l : /\ at[k] + x \in 1 .. Len(f) + Len(c) /\ ~(at[k] + x <= Len(f))
                             /\ at[k] + x - Len(f) = x
    BY <1>1, <1>2, <1>3
  <2>3. \A x \in 1 .. at[k] : x \in 1 .. Len(f) + Len(c) /\ x <= Len(f)
    BY <1>1, <1>2, <1>3
  <2> QED
    BY <1>1, <1>2, <1>3, <2>1, <2>2, <2>3
<1>5. at[k + 1] = at[k] + 1 + l /\ at[k] <= at[k + 1]
  BY <1>1, <1>3, <1>4
<1>6. ASSUME NEW i \in 1 .. k + 1
      PROVE  /\ at[i] = at[i - 1] + 1 + Len(part[i]) /\ at[i] <= at[k + 1]
             /\ g[at[i - 1] + 1] = SEPARATOR
             /\ \A j \in 1 .. Len(part[i]) : g[at[i - 1] + 1 + j] = part[i][j]
  <2>1. CASE i = k + 1
    <3>1. g[at[k] + 1] = SEPARATOR
      <4>1. 1 \in 1 .. 1 + l
        BY <1>1
      <4> QED
        BY <1>2, <1>4, <4>1
    <3>2. ASSUME NEW j \in 1 .. l
          PROVE  g[at[k] + 1 + j] = part[k + 1][j]
      <4>1. 1 + j \in 1 .. 1 + l /\ at[k] + 1 + j = at[k] + (1 + j)
        BY <1>1
      <4> QED
        BY <1>2, <1>4, <4>1
    <3> QED
      <4>1. i - 1 = k /\ at[i] = at[k + 1] /\ at[i - 1] = at[k] /\ part[i] = part[k + 1]
        BY <1>1, <2>1
      <4>2. Len(part[i]) = l
        BY <4>1 DEF l
      <4>3. at[i] = at[i - 1] + 1 + Len(part[i]) /\ at[i] <= at[k + 1]
        BY <1>1, <1>5, <4>1, <4>2
      <4>4. g[at[i - 1] + 1] = SEPARATOR
        BY <3>1, <4>1
      <4>5. \A j \in 1 .. Len(part[i]) : g[at[i - 1] + 1 + j] = part[i][j]
        BY <3>2, <4>1, <4>2
      <4> QED
        BY <4>3, <4>4, <4>5
  <2>2. CASE i # k + 1
    <3>1. i \in 1 .. k
      BY <1>1, <2>2
    <3>2. Len(part[i]) \in Nat /\ at[i] \in Nat /\ at[i - 1] \in Nat
      BY <1>9, <3>1 DEF Grows
    <3>3. /\ at[i] = at[i - 1] + 1 + Len(part[i]) /\ at[i] <= at[k]
          /\ f[at[i - 1] + 1] = SEPARATOR
          /\ \A j \in 1 .. Len(part[i]) : f[at[i - 1] + 1 + j] = part[i][j]
      BY <1>10, <3>1
    <3>4. ASSUME NEW a \in Nat, NEW b \in Nat, NEW m \in Nat, b = a + 1 + m, b <= at[k]
          PROVE  /\ a + 1 \in 1 .. at[k] /\ b <= at[k + 1]
                 /\ \A j \in 1 .. m : a + 1 + j \in 1 .. at[k]
      BY <1>1, <1>5, <3>4
    <3>5. /\ at[i - 1] + 1 \in 1 .. at[k] /\ at[i] <= at[k + 1]
          /\ \A j \in 1 .. Len(part[i]) : at[i - 1] + 1 + j \in 1 .. at[k]
      BY <3>2, <3>3, <3>4
    <3> QED
      BY <1>4, <3>3, <3>5
  <2> QED
    BY <2>1, <2>2
<1>7. ASSUME NEW x \in 1 .. at[k + 1]
      PROVE  \E i \in 1 .. k + 1 : x \in at[i - 1] + 1 .. at[i]
  <2>1. CASE x \in 1 .. at[k]
    <3>1. PICK i \in 1 .. k : x \in at[i - 1] + 1 .. at[i]
      BY <2>1 DEF Laid
    <3> QED
      BY <1>1, <3>1
  <2>2. CASE x \notin 1 .. at[k]
    <3>1. x \in at[k] + 1 .. at[k + 1]
      BY <1>1, <2>2
    <3>2. k + 1 \in 1 .. k + 1
      BY <1>1
    <3> QED
      BY <1>1, <3>1, <3>2
  <2> QED
    BY <2>1, <2>2
<1> QED
  BY <1>3, <1>4, <1>6, <1>7 DEF Laid, g

(* FlattenSeq has a value: the lists of the first k parts, one after the   *)
(* other.                                                                  *)
Flattens(F, seqs, k) ==
  F = [i \in 1 .. k |-> IF i = 1 THEN seqs[i] ELSE F[i - 1] \o seqs[i]]

(* There is one such function.                                             *)
LEMMA FlattensExist ==
  ASSUME NEW n \in Nat, NEW seqs
  PROVE  \E F : Flattens(F, seqs, n)
<1> DEFINE T == {k \in 0 .. n : \E F : Flattens(F, seqs, k)}
<1>1. 0 \in T
  <2> DEFINE F == [i \in 1 .. 0 |-> seqs[i]]
  <2>1. F = [i \in 1 .. 0 |-> IF i = 1 THEN seqs[i] ELSE F[i - 1] \o seqs[i]]
    OBVIOUS
  <2> HIDE DEF F
  <2>2. Flattens(F, seqs, 0)
    BY <2>1 DEF Flattens
  <2>3. \E G : Flattens(G, seqs, 0)
    BY <2>2
  <2>4. 0 \in 0 .. n
    OBVIOUS
  <2> QED
    BY <2>3, <2>4
<1>2. ASSUME NEW k \in 0 .. n - 1, k \in T
      PROVE  k + 1 \in T
  <2>1. PICK f : Flattens(f, seqs, k)
    BY <1>2
  <2> DEFINE F == [i \in 1 .. k + 1 |->
                     IF i = k + 1 THEN IF i = 1 THEN seqs[i] ELSE f[i - 1] \o seqs[i] ELSE f[i]]
  <2>2. \A i \in 1 .. k : F[i] = f[i]
    OBVIOUS
  <2>3. ASSUME NEW i \in 1 .. k + 1
        PROVE  F[i] = IF i = 1 THEN seqs[i] ELSE F[i - 1] \o seqs[i]
    <3>1. CASE i = k + 1
      <4>1. i = 1 \/ i - 1 \in 1 .. k
        BY <3>1
      <4> QED
        BY <2>2, <3>1, <4>1
    <3>2. CASE i # k + 1
      <4>1. i \in 1 .. k /\ (i = 1 \/ i - 1 \in 1 .. k)
        BY <3>2
      <4>2. f[i] = IF i = 1 THEN seqs[i] ELSE f[i - 1] \o seqs[i]
        BY <2>1, <4>1 DEF Flattens
      <4> QED
        BY <2>2, <4>1, <4>2
    <3> QED
      BY <3>1, <3>2
  <2>4. F = [i \in 1 .. k + 1 |-> F[i]]
    OBVIOUS
  <2> HIDE DEF F
  <2>5. Flattens(F, seqs, k + 1)
    BY <2>3, <2>4 DEF Flattens
  <2> QED
    BY <2>5
<1>3. n \in T
  <2> HIDE DEF T
  <2>1. 0 .. n \subseteq T
    BY <1>1, <1>2, Induction
  <2> QED
    BY <2>1
<1> QED
  BY <1>3

(* The flat list of the parts, each behind a separator.                    *)
LEMMA FlattenLaid ==
  ASSUME NEW n \in Nat \ {0}, NEW part \in [1 .. n -> Seq(Symbols)]
  PROVE  \E F, at : /\ Grows(F, at, part, n) /\ \A k \in 1 .. n : Laid(F, at, part, k)
                    /\ FlattenSeq([i \in 1 .. n |-> <<SEPARATOR>> \o part[i]]) = F[n]
<1> DEFINE seqs == [i \in 1 .. n |-> <<SEPARATOR>> \o part[i]]
           F == CHOOSE f : Flattens(f, seqs, n)
           at == [k \in 0 .. n |-> IF k = 0 THEN 0 ELSE Len(F[k])]
<1>1. Len(seqs) = n /\ seqs \in Seq(Seq(Symbols))
  <2>1. \A i \in 1 .. n : <<SEPARATOR>> \o part[i] \in Seq(Symbols)
    <3>1. SEPARATOR \in Symbols
      BY SymbolFacts DEF SEPARATOR
    <3> QED
      BY <3>1
  <2> QED
    BY <2>1
<1>2. FlattenSeq(seqs) = F[n]
  BY <1>1 DEF FlattenSeq, Flattens
<1>3. Flattens(F, seqs, n)
  BY FlattensExist
<1> HIDE DEF F
<1>4. \A i \in 1 .. n : F[i] = IF i = 1 THEN seqs[i] ELSE F[i - 1] \o seqs[i]
  BY <1>3 DEF Flattens
<1>5. \A k \in 1 .. n : F[k] \in Seq(Symbols)
  <2> DEFINE T == {k \in 0 .. n : k = 0 \/ F[k] \in Seq(Symbols)}
  <2>1. 0 \in T
    OBVIOUS
  <2>2. ASSUME NEW k \in 0 .. n - 1, k \in T
        PROVE  k + 1 \in T
    <3>1. k + 1 \in 1 .. n /\ (k + 1) - 1 = k /\ seqs[k + 1] \in Seq(Symbols)
      BY <1>1
    <3>2. F[k + 1] = IF k + 1 = 1 THEN seqs[k + 1] ELSE F[k] \o seqs[k + 1]
      BY <1>4, <3>1
    <3> HIDE DEF seqs
    <3>3. CASE k = 0
      BY <3>1, <3>2, <3>3
    <3>4. CASE k # 0
      <4>0. F[k] \in Seq(Symbols)
        BY <2>2, <3>4
      <4>1. F[k + 1] = F[k] \o seqs[k + 1]
        <5>1. k + 1 # 1
          BY <3>4
        <5> QED
          BY <3>2, <5>1
      <4>2. F[k + 1] \in Seq(Symbols)
        BY <3>1, <4>0, <4>1, ConcatProperties
      <4> QED
        BY <3>1, <4>2
    <3> QED
      BY <3>3, <3>4
  <2> HIDE DEF T
  <2>3. 0 .. n \subseteq T
    BY <2>1, <2>2, Induction
  <2> QED
    BY <2>3 DEF T
<1>6. Grows(F, at, part, n)
  <2>1. at \in [0 .. n -> Nat] /\ at[0] = 0 /\ \A k \in 1 .. n : at[k] = Len(F[k])
    BY <1>5
  <2>0. \A i \in 1 .. n : seqs[i] = <<SEPARATOR>> \o part[i]
    OBVIOUS
  <2> HIDE DEF seqs, at
  <2>2. F[1] = <<SEPARATOR>> \o part[1]
    <3>1. 1 \in 1 .. n
      OBVIOUS
    <3> QED
      BY <1>4, <2>0, <3>1
  <2>3. ASSUME NEW k \in 1 .. n - 1
        PROVE  F[k + 1] = F[k] \o (<<SEPARATOR>> \o part[k + 1])
    <3>1. k + 1 \in 1 .. n /\ (k + 1) - 1 = k /\ k + 1 # 1
      OBVIOUS
    <3> QED
      BY <1>4, <2>0, <3>1
  <2> QED
    BY <2>1, <2>2, <2>3 DEF Grows
<1> HIDE DEF at
<1>7. Laid(F, at, part, 1)
  <2>1. /\ F[1] = <<SEPARATOR>> \o part[1] /\ at[0] = 0 /\ at[1] = Len(F[1])
        /\ part[1] \in Seq(Symbols) /\ SEPARATOR \in Symbols
    BY <1>6, SymbolFacts DEF Grows, SEPARATOR
  <2> DEFINE p == part[1]
             g == F[1]
  <2>2. /\ g \in Seq(Symbols) /\ Len(g) = 1 + Len(p) /\ g[1] = SEPARATOR
        /\ \A j \in 1 .. Len(p) : g[1 + j] = p[j]
    BY <2>1
  <2>3. Len(p) \in Nat /\ at[1] = 0 + 1 + Len(p)
    BY <2>1, <2>2
  <2>4. /\ at[1] = at[1 - 1] + 1 + Len(part[1]) /\ at[1] <= at[1]
        /\ F[1][at[1 - 1] + 1] = SEPARATOR
    BY <2>1, <2>2, <2>3
  <2>5. \A j \in 1 .. Len(part[1]) : F[1][at[1 - 1] + 1 + j] = part[1][j]
    <3>1. at[1 - 1] + 1 = 1 /\ Len(part[1]) = Len(p)
      BY <2>1
    <3>2. \A j \in 1 .. Len(p) : g[1 + j] = p[j]
      BY <2>2
    <3> HIDE DEF g, p
    <3> SUFFICES ASSUME NEW j \in 1 .. Len(part[1])
                 PROVE  F[1][at[1 - 1] + 1 + j] = part[1][j]
      OBVIOUS
    <3>3. j \in 1 .. Len(p) /\ at[1 - 1] + 1 + j = 1 + j
      BY <3>1
    <3> QED
      BY <3>2, <3>3 DEF g, p
  <2>6. \A x \in 1 .. at[1] : x \in at[1 - 1] + 1 .. at[1]
    BY <2>1, <2>3
  <2>7. F[1] \in Seq(Symbols) /\ at[1] = Len(F[1])
    BY <2>1, <2>2
  <2>8. \A i \in 1 .. 1 : i = 1
    OBVIOUS
  <2> HIDE DEF p, g
  <2> QED
    BY <2>4, <2>5, <2>6, <2>7, <2>8 DEF Laid
<1>8. \A k \in 1 .. n : Laid(F, at, part, k)
  <2> DEFINE T == {k \in 0 .. n : k = 0 \/ Laid(F, at, part, k)}
  <2>1. 0 \in T
    OBVIOUS
  <2>2. ASSUME NEW k \in 0 .. n - 1, k \in T
        PROVE  k + 1 \in T
    BY <1>6, <1>7, <2>2, LaidStep
  <2> HIDE DEF T
  <2>3. 0 .. n \subseteq T
    BY <2>1, <2>2, Induction
  <2> QED
    BY <2>3 DEF T
<1> QED
  BY <1>2, <1>6, <1>8

(* The numbers at[1] < at[2] < ... : at[k] is the one with k - 1 below it. *)
LEMMA Ranks ==
  ASSUME NEW n \in Nat, NEW at \in [1 .. n -> Nat],
         \A i, j \in 1 .. n : i < j => at[i] < at[j]
  PROVE  LET ends == {at[i] : i \in 1 .. n}
         IN  /\ Cardinality(ends) = n
             /\ \A k \in 1 .. n :
                  (CHOOSE x \in ends : Cardinality({y \in ends : y < x}) = k - 1) = at[k]
<1> DEFINE ends == {at[i] : i \in 1 .. n}
           below(x) == {y \in ends : y < x}
<1>1. ASSUME NEW m \in 0 .. n
      PROVE  Cardinality({at[i] : i \in 1 .. m}) = m
  <2> DEFINE S == {at[i] : i \in 1 .. m}
             f == [i \in 1 .. m |-> at[i]]
  <2>1. IsFiniteSet(1 .. m) /\ Cardinality(1 .. m) = m
    BY FS_Interval
  <2>2. \A i, j \in 1 .. m : f[i] = f[j] => i = j
    <3> SUFFICES ASSUME NEW i \in 1 .. m, NEW j \in 1 .. m, f[i] = f[j], i # j
                 PROVE  FALSE
      OBVIOUS
    <3>1. i \in 1 .. n /\ j \in 1 .. n /\ (i < j \/ j < i) /\ at[i] = at[j]
      OBVIOUS
    <3> QED
      BY <3>1
  <2>3. f \in [1 .. m -> S] /\ \A x \in S : \E i \in 1 .. m : f[i] = x
    OBVIOUS
  <2> HIDE DEF f, S
  <2>4. f \in Bijection(1 .. m, S)
    <3>1. f \in Surjection(1 .. m, S)
      BY <2>3 DEF Surjection
    <3>2. f \in Injection(1 .. m, S)
      BY <2>2, <2>3 DEF Injection, IsInjective
    <3> QED
      BY <3>1, <3>2 DEF Bijection
  <2>5. ExistsBijection(1 .. m, S)
    BY <2>4 DEF ExistsBijection
  <2>6. Cardinality(S) = m
    BY <2>1, <2>5, FS_Bijection
  <2> QED
    BY <2>6 DEF S
<1>2. ASSUME NEW k \in 1 .. n
      PROVE  Cardinality(below(at[k])) = k - 1
  <2>1. \A i \in 1 .. n : at[i] < at[k] <=> i \in 1 .. k - 1
    <3> SUFFICES ASSUME NEW i \in 1 .. n
                 PROVE  at[i] < at[k] <=> i \in 1 .. k - 1
      OBVIOUS
    <3>1. at[i] \in Nat /\ at[k] \in Nat /\ (i < k \/ i = k \/ k < i)
      OBVIOUS
    <3> QED
      BY <3>1
  <2>2. below(at[k]) = {at[i] : i \in 1 .. k - 1}
    <3>1. 1 .. k - 1 \subseteq 1 .. n
      OBVIOUS
    <3> QED
      BY <2>1, <3>1
  <2>3. k - 1 \in 0 .. n
    OBVIOUS
  <2> HIDE DEF below
  <2> QED
    BY <1>1, <2>2, <2>3
<1>3. ASSUME NEW k \in 1 .. n
      PROVE  (CHOOSE x \in ends : Cardinality(below(x)) = k - 1) = at[k]
  <2>1. \A x \in ends : Cardinality(below(x)) = k - 1 => x = at[k]
    <3> SUFFICES ASSUME NEW x \in ends, Cardinality(below(x)) = k - 1
                 PROVE  x = at[k]
      OBVIOUS
    <3>1. PICK m \in 1 .. n : x = at[m]
      OBVIOUS
    <3> HIDE DEF below
    <3>2. m - 1 = k - 1
      BY <1>2, <3>1
    <3>3. m = k
      BY <3>2
    <3> QED
      BY <3>1, <3>3
  <2>2. at[k] \in ends
    OBVIOUS
  <2> HIDE DEF ends, below
  <2> QED
    BY <1>2, <2>1, <2>2
<1>4. Cardinality(ends) = n
  <2>1. n \in 0 .. n
    OBVIOUS
  <2> QED
    BY <1>1, <2>1
<1> QED
  BY <1>3, <1>4

(* The places of the separators increase.                                  *)
LEMMA PlacesIncrease ==
  ASSUME NEW n \in Nat \ {0}, NEW F, NEW at, NEW part,
         Grows(F, at, part, n), \A k \in 1 .. n : Laid(F, at, part, k)
  PROVE  \A i, j \in 0 .. n : i < j => at[i] < at[j]
<1> SUFFICES ASSUME NEW i \in 0 .. n, NEW j \in 0 .. n, i < j
             PROVE  at[i] < at[j]
  OBVIOUS
<1>1. at[i] \in Nat /\ at[j] \in Nat /\ at[0] = 0 /\ j \in 1 .. n /\ j - 1 \in 0 .. n
  BY DEF Grows
<1>2. at[j - 1] \in Nat /\ Len(part[j]) \in Nat
  BY <1>1 DEF Grows
<1>3. at[j] = at[j - 1] + 1 + Len(part[j])
  BY <1>1 DEF Laid
<1>4. at[i] <= at[j - 1]
  <2>1. CASE i = 0
    BY <1>1, <1>2, <2>1
  <2>2. CASE i # 0
    <3>1. j - 1 \in 1 .. n /\ i \in 1 .. j - 1
      BY <2>2
    <3> QED
      BY <3>1 DEF Laid
  <2> QED
    BY <2>1, <2>2
<1> QED
  BY <1>1, <1>2, <1>3, <1>4

(* What was joined by separators is parted again.                          *)
LEMMA PartsLaid ==
  ASSUME NEW n \in Nat \ {0}, NEW part \in [1 .. n -> Seq(Symbols)],
         \A i \in 1 .. n : \A j \in 1 .. Len(part[i]) : part[i][j] # SEPARATOR
  PROVE  Parts(Tail(FlattenSeq([i \in 1 .. n |-> <<SEPARATOR>> \o part[i]]))) = part
<1> DEFINE flat == FlattenSeq([i \in 1 .. n |-> <<SEPARATOR>> \o part[i]])
           P == Tail(flat)
<1>1. PICK F, at : /\ Grows(F, at, part, n) /\ \A k \in 1 .. n : Laid(F, at, part, k)
                   /\ flat = F[n]
  BY FlattenLaid
<1> HIDE DEF flat
<1>2. /\ at[0] = 0 /\ \A k \in 0 .. n : at[k] \in Nat
      /\ \A k \in 1 .. n : Len(part[k]) \in Nat
  BY <1>1 DEF Grows
<1>3. /\ flat \in Seq(Symbols) /\ at[n] = Len(flat)
      /\ \A i \in 1 .. n :
            /\ at[i] = at[i - 1] + 1 + Len(part[i]) /\ at[i] <= at[n]
            /\ flat[at[i - 1] + 1] = SEPARATOR
            /\ \A j \in 1 .. Len(part[i]) : flat[at[i - 1] + 1 + j] = part[i][j]
      /\ \A x \in 1 .. at[n] : \E i \in 1 .. n : x \in at[i - 1] + 1 .. at[i]
  <2>1. n \in 1 .. n
    OBVIOUS
  <2>2. Laid(F, at, part, n)
    BY <1>1, <2>1
  <2>3. flat = F[n]
    BY <1>1
  <2> QED
    BY <2>2, <2>3 DEF Laid
<1>4. \A i, j \in 0 .. n : i < j => at[i] < at[j]
  BY <1>1, PlacesIncrease
<1>5. /\ P \in Seq(Symbols) /\ Len(P) = at[n] - 1
      /\ \A x \in 1 .. at[n] - 1 : P[x] = flat[x + 1]
  <2>1. flat # <<>> /\ at[n] > 0
    <3>1. 0 \in 0 .. n /\ n \in 0 .. n /\ 0 < n
      OBVIOUS
    <3>2. at[n] > 0
      BY <1>2, <1>4, <3>1
    <3> QED
      BY <1>3, <3>2
  <2> QED
    BY <1>3, <2>1
<1> HIDE DEF P
<1> DEFINE ends == {i \in DOMAIN P : P[i] = SEPARATOR} \cup {Len(P) + 1}
<1>6. ASSUME NEW i \in 1 .. n
      PROVE  at[i] \in ends
  <2>1. CASE i = n
    BY <1>2, <1>5, <2>1
  <2>2. CASE i # n
    <3>1. i + 1 \in 1 .. n /\ (i + 1) - 1 = i /\ i \in 0 .. n /\ n \in 0 .. n /\ 0 \in 0 .. n
          /\ i < n /\ 0 < i
      BY <2>2
    <3>2. flat[at[i] + 1] = SEPARATOR
      BY <1>3, <3>1
    <3>3. at[i] < at[n] /\ 0 < at[i] /\ at[i] \in Nat /\ at[n] \in Nat
      BY <1>2, <1>4, <3>1
    <3>4. at[i] \in 1 .. at[n] - 1
      BY <3>3
    <3>5. at[i] \in DOMAIN P
      BY <1>5, <3>4
    <3> QED
      BY <1>5, <3>2, <3>4, <3>5
  <2> QED
    BY <2>1, <2>2
<1>7. ASSUME NEW x \in ends
      PROVE  \E i \in 1 .. n : x = at[i]
  <2>1. CASE x = Len(P) + 1
    BY <1>2, <1>5, <2>1
  <2>2. CASE x # Len(P) + 1
    <3>1. x \in 1 .. at[n] - 1 /\ P[x] = SEPARATOR
      BY <1>5, <2>2
    <3>2. x + 1 \in 1 .. at[n] /\ flat[x + 1] = SEPARATOR /\ x > 0 /\ x \in Nat
      BY <1>2, <1>5, <3>1
    <3>3. PICK i \in 1 .. n : x + 1 \in at[i - 1] + 1 .. at[i]
      BY <1>3, <3>2
    <3>4. i \in 0 .. n /\ i - 1 \in 0 .. n
      OBVIOUS
    <3>5. at[i - 1] \in Nat /\ at[i] \in Nat /\ Len(part[i]) \in Nat
      BY <1>2, <3>4
    <3>6. x = at[i - 1]
      <4> SUFFICES ASSUME x # at[i - 1]
                   PROVE  FALSE
        OBVIOUS
      <4>1. at[i] = at[i - 1] + 1 + Len(part[i])
        BY <1>3
      <4> DEFINE j == x - at[i - 1]
      <4>2. j \in 1 .. Len(part[i]) /\ x + 1 = at[i - 1] + 1 + j
        <5> DEFINE a == at[i - 1]
                   b == at[i]
                   l == Len(part[i])
        <5>1. a \in Nat /\ l \in Nat /\ b = a + 1 + l /\ x \in Nat
          BY <3>2, <3>5, <4>1
        <5>2. x + 1 \in a + 1 .. b /\ x # a
          BY <3>3
        <5> HIDE DEF a, b, l
        <5>3. x - a \in 1 .. l /\ x + 1 = a + 1 + (x - a)
          BY <5>1, <5>2
        <5> QED
          BY <5>3 DEF a, l
      <4> HIDE DEF j
      <4>3. flat[x + 1] = part[i][j]
        BY <1>3, <4>2
      <4> QED
        BY <3>2, <4>2, <4>3
    <3>7. i # 1
      BY <1>2, <3>2, <3>6
    <3>8. i - 1 \in 1 .. n
      BY <3>7
    <3> QED
      BY <3>6, <3>8
  <2> QED
    BY <2>1, <2>2
<1>8. ends = {at[i] : i \in 1 .. n}
  <2> HIDE DEF ends
  <2> QED
    BY <1>6, <1>7
<1> HIDE DEF ends
<1> DEFINE End(k) == CHOOSE i \in ends : Cardinality({j \in ends : j < i}) = k - 1
<1>9. Cardinality(ends) = n /\ \A k \in 1 .. n : End(k) = at[k]
  <2> DEFINE a == [i \in 1 .. n |-> at[i]]
  <2>1. a \in [1 .. n -> Nat] /\ \A i, j \in 1 .. n : i < j => a[i] < a[j]
    BY <1>2, <1>4
  <2>2. ends = {a[i] : i \in 1 .. n} /\ \A i \in 1 .. n : a[i] = at[i]
    BY <1>8
  <2> HIDE DEF a
  <2> DEFINE E == {a[i] : i \in 1 .. n}
  <2>3. /\ Cardinality(E) = n
        /\ \A k \in 1 .. n :
              (CHOOSE x \in E : Cardinality({y \in E : y < x}) = k - 1) = a[k]
    BY <2>1, Ranks
  <2>4. E = ends
    BY <2>2
  <2> HIDE DEF E
  <2> QED
    BY <2>2, <2>3, <2>4
<1>10. Parts(P) = [k \in 1 .. n |-> SubSeq(P, IF k = 1 THEN 1 ELSE End(k - 1) + 1, End(k) - 1)]
  BY <1>9 DEF Parts, ends
<1>11. ASSUME NEW k \in 1 .. n
       PROVE  SubSeq(P, IF k = 1 THEN 1 ELSE End(k - 1) + 1, End(k) - 1) = part[k]
  <2> DEFINE l == Len(part[k])
             p == part[k]
             a == at[k - 1]
             b == at[k]
  <2>1. (IF k = 1 THEN 1 ELSE End(k - 1) + 1) = a + 1 /\ End(k) = b
    <3>1. k = 1 \/ k - 1 \in 1 .. n
      OBVIOUS
    <3> HIDE DEF End
    <3> QED
      BY <1>2, <1>9, <3>1
  <2>2. a \in Nat /\ b \in Nat /\ l \in Nat /\ b = a + 1 + l /\ b <= at[n] /\ at[n] \in Nat
    BY <1>2, <1>3
  <2>3. p \in Seq(Symbols) /\ Len(p) = l /\ \A j \in 1 .. l : flat[a + 1 + j] = p[j]
    BY <1>3
  <2> HIDE DEF End, l, p, a, b
  <2>4. \A j \in 1 .. l : a + j \in 1 .. at[n] - 1 /\ a + j + 1 = a + 1 + j
    BY <2>2
  <2>5. \A j \in 1 .. l : P[a + j] = p[j]
    BY <1>5, <2>3, <2>4
  <2> DEFINE q == SubSeq(P, a + 1, b - 1)
  <2>6. q \in Seq(Symbols) /\ Len(q) = l /\ \A j \in 1 .. l : q[j] = P[a + j]
    <3>1. \A i \in a + 1 .. b - 1 : i \in 1 .. at[n] - 1
      BY <2>2
    <3>2. \A i \in a + 1 .. b - 1 : P[i] \in Symbols
      BY <1>5, <3>1
    <3>3. (b - 1) - (a + 1) + 1 = l /\ a + 1 \in Int /\ b - 1 \in Int
          /\ (a + 1 <= b - 1 \/ l = 0) /\ (~(a + 1 <= b - 1) => l = 0)
      BY <2>2
    <3>4. /\ q \in Seq(Symbols)
          /\ Len(q) = IF a + 1 <= b - 1 THEN (b - 1) - (a + 1) + 1 ELSE 0
          /\ \A i \in 1 .. (b - 1) - (a + 1) + 1 : q[i] = P[a + 1 + i - 1]
      BY <3>2, <3>3, SubSeqProperties
    <3>5. \A i \in 1 .. l : a + 1 + i - 1 = a + i
      BY <2>2
    <3> HIDE DEF q
    <3> QED
      BY <3>3, <3>4, <3>5
  <2> HIDE DEF q
  <2>7. q = p
    BY <2>3, <2>5, <2>6, SeqEqual
  <2> QED
    BY <2>1, <2>7 DEF q, p
<1>12. Parts(P) = [k \in 1 .. n |-> part[k]]
  <2> HIDE DEF End
  <2> QED
    BY <1>10, <1>11
<1> QED
  BY <1>12 DEF P, flat

(* A payload, of at least one packet, is decoded to what was encoded.      *)
THEOREM PayloadRoundTrip ==
  ASSUME NEW packets \in Seq(Sendable), packets # <<>>
  PROVE  DecodePayload(EncodePayload(packets)) = packets
<1> DEFINE n == Len(packets)
           part == [i \in 1 .. n |-> EncodePacket(packets[i], FALSE)]
           payload == EncodePayload(packets)
<1>1. n \in Nat \ {0} /\ DOMAIN packets = 1 .. n /\ \A i \in 1 .. n : packets[i] \in Sendable
  OBVIOUS
<1> HIDE DEF n
<1>2. \A i \in 1 .. n : Carries(part[i], packets[i])
  BY <1>1, PacketRoundTrip
<1>3. /\ part \in [1 .. n -> Seq(Symbols)]
      /\ \A i \in 1 .. n : \A j \in 1 .. Len(part[i]) : part[i][j] # SEPARATOR
  <2>1. part = [i \in 1 .. n |-> part[i]]
    OBVIOUS
  <2> HIDE DEF part
  <2> QED
    BY <1>2, <2>1 DEF Carries
<1>4. payload = Tail(FlattenSeq([i \in 1 .. n |-> <<SEPARATOR>> \o part[i]]))
  BY <1>1 DEF EncodePayload
<1>5. \A i \in 1 .. n : DecodePacket(part[i]) = packets[i]
  BY <1>2 DEF Carries
<1>6. DOMAIN part = 1 .. n
  OBVIOUS
<1> HIDE DEF part, payload
<1>7. Parts(payload) = part
  BY <1>1, <1>3, <1>4, PartsLaid
<1>8. [k \in DOMAIN Parts(payload) |-> DecodePacket(Parts(payload)[k])] = packets
  <2>1. [k \in 1 .. n |-> DecodePacket(part[k])] = packets
    BY <1>1, <1>5
  <2> QED
    BY <1>6, <1>7, <2>1
<1>9. \A i \in 1 .. n : packets[i] # ERROR_PACKET
  <2>1. \A i \in 1 .. n : packets[i].type \in DOMAIN PACKET_TYPES
    BY <1>1 DEF Sendable, Packets
  <2>2. ERROR_PACKET.type = "error"
    BY DEF ERROR_PACKET
  <2>3. "error" \notin DOMAIN PACKET_TYPES
    BY TypeFacts
  <2> QED
    BY <2>1, <2>2, <2>3
<1>10. SelectInSeq(packets, LAMBDA p : p = ERROR_PACKET) = 0
  <2>1. {i \in 1 .. Len(packets) : packets[i] = ERROR_PACKET} = {}
    BY <1>9 DEF n
  <2> QED
    BY <2>1 DEF SelectInSeq
<1> QED
  BY <1>8, <1>10 DEF DecodePayload, payload
-----------------------------------------------------------------------------
(* The inductive invariant: the state of the client is of one of five      *)
(* phases, in each of which buffer, transports and what waits for them fit *)
(* together.                                                               *)

Fields ==
  {"readyState", "transport", "upgrades", "upgrading", "writeBuffer", "prevBufferLen",
   "pingTimer", "closeWait", "probe", "pollState", "polling", "pollWritable", "pauseFor",
   "wsState", "wsWritable", "wsTimers", "gets", "posts", "up", "threw", "sendThrew",
   "sent", "heard"}

(* What a POST and a frame of the websocket may carry.                     *)
Posts == [body : {EncodePayload(q) : q \in Seq(Sendable) \ {<<>>}}, got : BOOLEAN]
Frames == {EncodePacket(p, TRUE) : p \in Sendable} \cup {CloseFrame}

(* What it carries before it is the transport.                             *)
ProbeFrames == {EncodePacket(ProbePacket("ping"), TRUE), CloseFrame}

Typed(s) ==
  /\ DOMAIN s = Fields
  /\ s.readyState \in {"opening", "open", "closing", "closed"}
  /\ s.transport \in {"polling", "websocket"}
  /\ s.probe \in {"none", "opening", "ping", "pausing", "done", "failed"}
  /\ s.pollState \in {"opening", "open", "pausing", "paused", "closed"}
  /\ s.wsState \in {"none", "opening", "open", "closed"}
  /\ s.closeWait \in {"no", "drain", "upgrade"}
  /\ s.pauseFor \in SUBSET {"pollComplete", "drain"}
  /\ s.upgrades \in BOOLEAN /\ s.upgrading \in BOOLEAN /\ s.pingTimer \in BOOLEAN
  /\ s.polling \in BOOLEAN /\ s.pollWritable \in BOOLEAN /\ s.wsWritable \in BOOLEAN
  /\ s.threw \in BOOLEAN /\ s.sendThrew \in BOOLEAN
  /\ s.prevBufferLen \in Nat /\ s.wsTimers \in Nat /\ s.gets \in Nat /\ s.sent \in Nat
  /\ s.writeBuffer \in Seq(Sendable) /\ s.posts \in Seq(Posts) /\ s.up \in Seq(Frames)
  /\ s.heard \in Seq(Nat)

(* close() waits only for what is to come.                                 *)
Waits(s) ==
  /\ s.readyState = "open" => s.closeWait = "no"
  /\ s.readyState = "closing" => \/ s.closeWait = "drain" /\ s.writeBuffer # <<>>
                                 \/ s.closeWait = "upgrade" /\ s.upgrading

Running(s) == s.readyState \in {"open", "closing"}

(* One POST at a time, and it carries the beginning of the buffer.         *)
OnePost(s) ==
  /\ Len(s.posts) = IF s.pollWritable THEN 0 ELSE 1
  /\ s.pollWritable => s.prevBufferLen = 0
  /\ ~s.pollWritable => s.prevBufferLen \in 1 .. Len(s.writeBuffer)

(* The handshake has not come yet.                                         *)
Opening(s) ==
  /\ s.readyState = "opening" /\ s.pollState = "opening" /\ s.transport = "polling"
  /\ s.polling /\ ~s.pollWritable /\ s.pauseFor = {} /\ ~s.upgrading /\ ~s.threw
  /\ s.writeBuffer = <<>> /\ s.prevBufferLen = 0 /\ s.closeWait = "no"
  /\ s.probe = "none" /\ s.wsState = "none" /\ s.posts = <<>> /\ s.up = <<>>

(* Polling is in use, a websocket may be probed.                           *)
Probing(s) ==
  \/ s.probe = "none" /\ s.wsState = "none"
  \/ /\ s.pingTimer
     /\ \/ s.probe = "opening" /\ s.wsState = "opening"
        \/ s.probe = "ping" /\ s.wsState = "open"
        \/ s.probe = "failed" /\ s.wsState = "closed"

OnPolling(s) ==
  /\ Running(s) /\ s.transport = "polling" /\ s.pollState = "open" /\ ~s.upgrading
  /\ s.pauseFor = {} /\ Probing(s) /\ OnePost(s) /\ s.up \in Seq(ProbeFrames)

Polls(s) ==
  OnPolling(s) /\ Waits(s) /\ s.polling /\ (s.pollWritable => s.writeBuffer = <<>>)

(* The upgrade waits for the requests that are under way, or its websocket *)
(* failed while it did.                                                    *)
Upgrading(s) ==
  /\ Running(s) /\ s.transport = "polling" /\ s.upgrading /\ OnePost(s) /\ Waits(s)
  /\ s.pingTimer /\ s.up \in Seq(ProbeFrames)
  /\ \/ s.probe = "pausing" /\ s.wsState = "open"
     \/ s.probe = "failed" /\ s.wsState = "closed"

Quiet(s) == s.pollState = "paused" /\ s.pauseFor = {} /\ ~s.polling /\ s.pollWritable

Awaited(s) ==
  (IF s.polling THEN {"pollComplete"} ELSE {}) \cup (IF s.pollWritable THEN {} ELSE {"drain"})

Pauses(s) ==
  /\ Upgrading(s)
  /\ \/ s.pollState = "pausing" /\ s.pauseFor # {} /\ s.pauseFor = Awaited(s)
     \/ Quiet(s) /\ s.probe = "failed"

(* The websocket is in use.                                                *)
OnWebsocket(s) ==
  /\ Running(s) /\ s.transport = "websocket" /\ s.pollState = "paused" /\ ~s.upgrading
  /\ s.pauseFor = {} /\ ~s.polling /\ s.posts = <<>>
  /\ s.probe = "done" /\ s.wsState = "open"
  /\ ~s.wsWritable => s.wsTimers > 0
  /\ s.prevBufferLen \in 0 .. Len(s.writeBuffer)

Upgraded(s) == OnWebsocket(s) /\ Waits(s) /\ (s.writeBuffer # <<>> => ~s.wsWritable)

Ended(s) ==
  /\ s.readyState = "closed" /\ s.closeWait = "no"
  /\ s.writeBuffer = <<>> /\ s.prevBufferLen = 0
  /\ s.pollState \in {"pausing", "paused", "closed"}

(* The phases after the handshake, and what no operator but those of the   *)
(* polling transport changes.                                              *)
Later(s) == Typed(s) /\ (Polls(s) \/ Pauses(s) \/ Upgraded(s) \/ Ended(s))

Steady(s, t) ==
  /\ t.gets = s.gets /\ t.threw = s.threw /\ t.sendThrew = s.sendThrew
  /\ t.polling = s.polling /\ t.transport = s.transport

Same(s, t) == Steady(s, t) /\ t.heard = s.heard

(* The packets that are sent.                                              *)
LEMMA PacketFacts ==
  /\ \A t \in DOMAIN PACKET_TYPES : /\ Packet(t) \in Sendable /\ Packet(t).type = t
                                    /\ ProbePacket(t) \in Sendable /\ ProbePacket(t).type = t
  /\ \A n \in Nat : /\ Message(n) \in Sendable /\ Message(n).type = "message"
                    /\ Number(Message(n)) = n
<1>1. ASSUME NEW t \in DOMAIN PACKET_TYPES
      PROVE  /\ Packet(t) \in Sendable /\ Packet(t).type = t
             /\ ProbePacket(t) \in Sendable /\ ProbePacket(t).type = t
  <2>1. Packet(t) \in Sendable /\ Packet(t).type = t
    BY DEF Packet, Sendable, Packets
  <2>2. ProbePacket(t) \in Sendable /\ ProbePacket(t).type = t
    <3>1. Symbol("probe", 0) \in Symbols
      BY SymbolFacts
    <3> QED
      BY <3>1 DEF ProbePacket, Sendable, Packets
  <2> QED
    BY <2>1, <2>2
<1>2. ASSUME NEW n \in Nat
      PROVE  /\ Message(n) \in Sendable /\ Message(n).type = "message"
             /\ Number(Message(n)) = n
  <2>1. /\ Content(n) \in Symbols /\ Content(n).v = n
        /\ Content(n) = Symbol("buffer", n) \/ Content(n) = Symbol("text", n)
    <3>1. Symbol("text", n) \in Symbols /\ Symbol("text", n).v = n
      BY SymbolFacts DEF Symbol
    <3> QED
      BY <3>1, SymbolFacts DEF Content
  <2>2. Message(n) = [type |-> "message", data |-> <<Content(n)>>]
    BY DEF Message
  <2> HIDE DEF Content
  <2>3. "message" \in DOMAIN PACKET_TYPES
    BY TypeFacts
  <2>4. Message(n).type = "message" /\ Message(n).data = <<Content(n)>>
    BY <2>2
  <2>5. Message(n) \in Packets
    BY <2>1, <2>2, <2>3 DEF Packets
  <2>6. Message(n) \in Sendable
    BY <2>1, <2>4, <2>5 DEF Sendable
  <2>7. Number(Message(n)) = n
    BY <2>1, <2>4 DEF Number
  <2> QED
    BY <2>4, <2>6, <2>7
<1> QED
  BY <1>1, <1>2

(* Socket.onClose ends everything.                                         *)
LEMMA OnCloseEnds ==
  ASSUME NEW s, Typed(s), s.readyState # "closed",
         s.transport = "websocket" => s.pollState = "paused"
  PROVE  /\ Typed(OnClose(s)) /\ Ended(OnClose(s)) /\ Same(s, OnClose(s))
         /\ s.transport = "websocket" => OnClose(s).posts = s.posts
<1> DEFINE p == [s EXCEPT !.pollWritable = FALSE,
                          !.posts = Append(@, [body |-> EncodePayload(<<ClosePacket>>), got |-> FALSE]),
                          !.pollState = "closed"]
           t == TransportClose(s)
           f == FreezeTransport(t)
<1>1. [body |-> EncodePayload(<<ClosePacket>>), got |-> FALSE] \in Posts
  <2>1. ClosePacket \in Sendable
    BY PacketFacts, TypeFacts DEF ClosePacket
  <2> DEFINE q == <<ClosePacket>>
  <2>2. q \in Seq(Sendable) \ {<<>>}
    BY <2>1
  <2> HIDE DEF q
  <2> QED
    BY <2>2 DEF Posts, q
<1>2. CloseFrame \in Frames
  BY DEF Frames
<1>3. /\ Typed(t) /\ Same(s, t) /\ t.readyState = s.readyState
      /\ t.pollState \in {"pausing", "paused", "closed"}
      /\ s.transport = "websocket" => t.posts = s.posts
  <2>1. Append(s.posts, [body |-> EncodePayload(<<ClosePacket>>), got |-> FALSE]) \in Seq(Posts)
    BY <1>1 DEF Typed
  <2>2. Append(s.up, CloseFrame) \in Seq(Frames)
    BY <1>2 DEF Typed
  <2>3. PollingWrite(s, <<ClosePacket>>) =
          [s EXCEPT !.pollWritable = FALSE,
                    !.posts = Append(@, [body |-> EncodePayload(<<ClosePacket>>), got |-> FALSE])]
    BY DEF PollingWrite, DoWrite, Typed, Fields
  <2>4. CASE s.transport = "polling" /\ s.pollState = "open"
    <3>1. t = p
      BY <2>3, <2>4 DEF TransportClose, PollingClose, Typed, Fields
    <3> HIDE DEF t
    <3> QED
      BY <2>1, <2>4, <3>1 DEF Typed, Fields, Same, Steady
  <2>5. CASE s.transport = "polling" /\ s.pollState # "open"
    <3>1. t = IF s.pollState = "opening" THEN [s EXCEPT !.pollState = "closed"] ELSE s
      BY <2>5 DEF TransportClose, PollingClose
    <3> HIDE DEF t
    <3> QED
      BY <2>5, <3>1 DEF Typed, Fields, Same, Steady
  <2>6. CASE s.transport # "polling"
    <3>1. t = WebsocketClose(s)
      BY <2>6 DEF TransportClose
    <3> HIDE DEF t
    <3> QED
      BY <2>2, <2>6, <3>1 DEF Typed, Fields, Same, Steady, WebsocketClose
  <2> QED
    BY <2>4, <2>5, <2>6
<1> HIDE DEF t
<1>4. /\ Typed(f) /\ Same(t, f) /\ f.readyState = t.readyState
      /\ f.pollState = t.pollState /\ f.posts = t.posts
  <2>2. Append(t.up, CloseFrame) \in Seq(Frames)
    BY <1>2, <1>3 DEF Typed
  <2> QED
    BY <1>3, <2>2 DEF Typed, Fields, Same, Steady, FreezeTransport, WebsocketClose
<1> HIDE DEF f
<1> DEFINE c == [f EXCEPT !.readyState = "closed", !.closeWait = "no",
                          !.writeBuffer = <<>>, !.prevBufferLen = 0, !.pingTimer = FALSE]
<1>5. OnClose(s) = c
  BY DEF OnClose, f, t
<1>6. Typed(c)
  <2>1. Typed(f)
    BY <1>4
  <2> QED
    BY <2>1 DEF Typed, Fields
<1>7. Ended(c)
  BY <1>3, <1>4 DEF Typed, Fields, Ended
<1>8. Same(f, c) /\ c.posts = f.posts
  BY <1>4 DEF Typed, Fields, Same, Steady
<1> HIDE DEF c
<1> QED
  BY <1>3, <1>4, <1>5, <1>6, <1>7, <1>8 DEF Same, Steady

(* A closed socket stays closed: its methods return at once.               *)
LEMMA EndedStays ==
  ASSUME NEW s, Typed(s), Ended(s)
  PROVE  /\ OnClose(s) = s /\ Flush(s) = s /\ EmitDrain(s) = s /\ EmitUpgrade(s) = s
         /\ SwitchTransport(s) = s
         /\ \A p : SendPacket(s, p) = s /\ OnPacket(s, p) = s
  BY DEF Ended, OnClose, Flush, EmitDrain, EmitUpgrade, SwitchTransport, SendPacket, OnPacket

(* A POST with packets.                                                    *)
LEMMA PollingWrites ==
  ASSUME NEW s, Typed(s), NEW q \in Seq(Sendable), q # <<>>
  PROVE  \E posts \in Seq(Posts) :
           /\ PollingWrite(s, q) = [s EXCEPT !.pollWritable = FALSE, !.posts = posts]
           /\ Len(posts) = Len(s.posts) + 1
<1> DEFINE post == [body |-> EncodePayload(q), got |-> FALSE]
<1>1. post \in Posts
  BY DEF Posts
<1>2. PollingWrite(s, q) = [s EXCEPT !.pollWritable = FALSE, !.posts = Append(s.posts, post)]
  BY DEF PollingWrite, DoWrite, Typed, Fields
<1> HIDE DEF post
<1>3. Append(s.posts, post) \in Seq(Posts) /\ Len(Append(s.posts, post)) = Len(s.posts) + 1
  BY <1>1 DEF Typed
<1> QED
  BY <1>2, <1>3

(* A frame for each packet.                                                *)
LEMMA WebsocketWrites ==
  ASSUME NEW s, Typed(s), NEW q \in Seq(Sendable)
  PROVE  \E up \in Seq(Frames) :
           /\ WebsocketWrite(s, q) =
                [s EXCEPT !.wsWritable = FALSE, !.wsTimers = s.wsTimers + 1, !.up = up]
           /\ up = s.up \o [i \in DOMAIN q |-> EncodePacket(q[i], TRUE)]
<1> DEFINE frames == [i \in DOMAIN q |-> EncodePacket(q[i], TRUE)]
<1>1. frames \in Seq(Frames)
  <2>1. \A p \in Sendable : EncodePacket(p, TRUE) \in Frames
    BY Zenon DEF Frames
  <2>2. \A i \in 1 .. Len(q) : q[i] \in Sendable
    OBVIOUS
  <2>3. DOMAIN q = 1 .. Len(q) /\ Len(q) \in Nat
    OBVIOUS
  <2>4. \A i \in 1 .. Len(q) : frames[i] \in Frames
    BY <2>1, <2>2, <2>3, Zenon
  <2>5. frames = [i \in 1 .. Len(q) |-> frames[i]]
    BY <2>3, Zenon
  <2> HIDE DEF frames
  <2> QED
    BY <2>3, <2>4, <2>5
<1>2. WebsocketWrite(s, q) = [s EXCEPT !.wsWritable = FALSE, !.wsTimers = s.wsTimers + 1,
                                       !.up = s.up \o frames]
  BY DEF WebsocketWrite, Typed, Fields
<1>3. s.up \o frames \in Seq(Frames)
  <2> HIDE DEF frames
  <2> QED
    BY <1>1 DEF Typed
<1> QED
  BY <1>2, <1>3, Zenon

(* Socket.flush while polling is in use.                                   *)
LEMMA FlushPolling ==
  ASSUME NEW s, Typed(s), OnPolling(s), Waits(s), s.polling
  PROVE  Typed(Flush(s)) /\ Polls(Flush(s)) /\ Same(s, Flush(s))
<1> DEFINE t == PollingWrite(s, s.writeBuffer)
<1>1. CASE s.pollWritable /\ s.writeBuffer # <<>>
  <2>1. PICK posts \in Seq(Posts) :
          /\ t = [s EXCEPT !.pollWritable = FALSE, !.posts = posts]
          /\ Len(posts) = Len(s.posts) + 1
    <3>1. s.writeBuffer \in Seq(Sendable) /\ s.writeBuffer # <<>>
      BY <1>1 DEF Typed
    <3>2. \E posts \in Seq(Posts) :
            /\ PollingWrite(s, s.writeBuffer) = [s EXCEPT !.pollWritable = FALSE, !.posts = posts]
            /\ Len(posts) = Len(s.posts) + 1
      BY <3>1, PollingWrites, Zenon
    <3> QED
      BY <3>2, Zenon
  <2>2. Flush(s) = [t EXCEPT !.prevBufferLen = Len(s.writeBuffer)]
    BY <1>1 DEF Flush, TransportSend, TransportState, Writable, OnPolling, Running
  <2>3. Len(s.writeBuffer) \in Nat /\ Len(s.writeBuffer) > 0
    BY <1>1 DEF Typed
  <2> DEFINE r == [s EXCEPT !.pollWritable = FALSE, !.posts = posts,
                            !.prevBufferLen = Len(s.writeBuffer)]
  <2>4. Flush(s) = r
    BY <2>1, <2>2 DEF Typed, Fields
  <2> HIDE DEF t
  <2>5. Typed(r) /\ Same(s, r)
    BY <2>1, <2>3 DEF Typed, Fields, Same, Steady
  <2>6. Polls(r)
    BY <1>1, <2>1, <2>3
    DEF Typed, Fields, OnPolling, Polls, Waits, Running, Probing, OnePost
  <2> QED
    BY <2>4, <2>5, <2>6
<1>2. CASE ~(s.pollWritable /\ s.writeBuffer # <<>>)
  <2>1. Flush(s) = s
    BY <1>2 DEF Flush, Writable, OnPolling
  <2> QED
    BY <1>2, <2>1 DEF Polls, Same, Steady
<1> QED
  BY <1>1, <1>2

(* Socket.flush on the websocket.                                          *)
LEMMA FlushWebsocket ==
  ASSUME NEW s, Typed(s), OnWebsocket(s), Waits(s)
  PROVE  Typed(Flush(s)) /\ Upgraded(Flush(s)) /\ Same(s, Flush(s))
<1> DEFINE t == WebsocketWrite(s, s.writeBuffer)
<1>1. CASE s.wsWritable /\ s.writeBuffer # <<>>
  <2>1. PICK up \in Seq(Frames) :
          t = [s EXCEPT !.wsWritable = FALSE, !.wsTimers = s.wsTimers + 1, !.up = up]
    <3>1. s.writeBuffer \in Seq(Sendable)
      BY DEF Typed
    <3> QED
      BY <1>1, <3>1, WebsocketWrites
  <2>2. Flush(s) = [t EXCEPT !.prevBufferLen = Len(s.writeBuffer)]
    BY <1>1 DEF Flush, TransportSend, TransportState, Writable, OnWebsocket, Running
  <2>3. Len(s.writeBuffer) \in Nat /\ Len(s.writeBuffer) > 0
    BY <1>1 DEF Typed
  <2> DEFINE r == [s EXCEPT !.wsWritable = FALSE, !.wsTimers = s.wsTimers + 1, !.up = up,
                            !.prevBufferLen = Len(s.writeBuffer)]
  <2>4. Flush(s) = r
    BY <2>1, <2>2 DEF Typed, Fields
  <2> HIDE DEF t
  <2>5. Typed(r) /\ Same(s, r)
    BY <2>1, <2>3 DEF Typed, Fields, Same, Steady
  <2>6. Upgraded(r)
    BY <1>1, <2>1, <2>3
    DEF Typed, Fields, OnWebsocket, Upgraded, Waits, Running
  <2> QED
    BY <2>4, <2>5, <2>6
<1>2. CASE ~(s.wsWritable /\ s.writeBuffer # <<>>)
  <2>1. Flush(s) = s
    BY <1>2 DEF Flush, Writable, OnWebsocket
  <2> QED
    BY <1>2, <2>1 DEF Upgraded, Same, Steady, OnWebsocket
<1> QED
  BY <1>1, <1>2

(* Socket.sendPacket keeps the phase.                                      *)
LEMMA SendPacketKeeps ==
  ASSUME NEW s, Later(s), NEW p \in Sendable
  PROVE  /\ Later(SendPacket(s, p)) /\ Same(s, SendPacket(s, p))
         /\ Polls(s) => Polls(SendPacket(s, p))
<1> DEFINE a == [s EXCEPT !.writeBuffer = Append(s.writeBuffer, p)]
<1>1. Typed(s)
  BY DEF Later
<1>2. CASE s.readyState = "open"
  <2>1. SendPacket(s, p) = Flush(a)
    BY <1>1, <1>2 DEF SendPacket, Typed, Fields
  <2>2. /\ Append(s.writeBuffer, p) \in Seq(Sendable)
        /\ Len(Append(s.writeBuffer, p)) = Len(s.writeBuffer) + 1
        /\ Len(s.writeBuffer) \in Nat
    BY <1>1 DEF Typed
  <2>3. Typed(a) /\ Same(s, a)
    BY <1>1, <2>2 DEF Typed, Fields, Same, Steady
  <2>4. CASE Polls(s)
    <3>1. OnPolling(a) /\ Waits(a) /\ a.polling
      BY <1>1, <1>2, <2>2, <2>4
      DEF Polls, OnPolling, Waits, Running, Probing, OnePost, Typed, Fields
    <3> HIDE DEF a
    <3>2. Typed(Flush(a)) /\ Polls(Flush(a)) /\ Same(a, Flush(a))
      BY <2>3, <3>1, FlushPolling
    <3> QED
      BY <2>1, <2>3, <3>2 DEF Later, Same, Steady
  <2>5. CASE Pauses(s)
    <3>1. Pauses(a) /\ Flush(a) = a
      BY <1>1, <1>2, <2>2, <2>5
      DEF Pauses, Upgrading, Quiet, Awaited, Waits, Running, OnePost, Typed, Fields, Flush
    <3>2. ~Polls(s)
      BY <2>5 DEF Polls, OnPolling, Pauses, Upgrading
    <3> HIDE DEF a
    <3> QED
      BY <2>1, <2>3, <3>1, <3>2 DEF Later
  <2>6. CASE Upgraded(s)
    <3>1. OnWebsocket(a) /\ Waits(a)
      BY <1>1, <1>2, <2>2, <2>6 DEF Upgraded, OnWebsocket, Waits, Running, Typed, Fields
    <3> HIDE DEF a
    <3>2. Typed(Flush(a)) /\ Upgraded(Flush(a)) /\ Same(a, Flush(a))
      BY <2>3, <3>1, FlushWebsocket
    <3>3. ~Polls(s)
      BY <2>6 DEF Polls, OnPolling, Upgraded, OnWebsocket
    <3> QED
      BY <2>1, <2>3, <3>2, <3>3 DEF Later, Same, Steady
  <2> QED
    BY <1>2, <2>4, <2>5, <2>6 DEF Later, Ended
<1>3. CASE s.readyState # "open"
  <2>1. s.readyState \in {"closing", "closed"}
    BY <1>3 DEF Later, Polls, OnPolling, Pauses, Upgrading, Upgraded, OnWebsocket, Running, Ended
  <2>2. SendPacket(s, p) = s
    BY <2>1 DEF SendPacket
  <2> QED
    BY <2>2 DEF Same, Steady
<1> QED
  BY <1>2, <1>3

(* The answer to a POST, or the timer of the websocket: what was flushed   *)
(* leaves the buffer.                                                      *)
LEMMA DrainedBuffer ==
  ASSUME NEW s, Typed(s), s.prevBufferLen \in 0 .. Len(s.writeBuffer)
  PROVE  LET b == SubSeq(s.writeBuffer, s.prevBufferLen + 1, Len(s.writeBuffer))
             d == [s EXCEPT !.writeBuffer = b, !.prevBufferLen = 0]
         IN  /\ OnDrain(s) = IF b = <<>> THEN EmitDrain(d) ELSE Flush(d)
             /\ b \in Seq(Sendable) /\ Typed(d) /\ Same(s, d)
<1> DEFINE b == SubSeq(s.writeBuffer, s.prevBufferLen + 1, Len(s.writeBuffer))
           d == [s EXCEPT !.writeBuffer = b, !.prevBufferLen = 0]
<1>1. b \in Seq(Sendable)
  BY DEF Typed
<1>2. OnDrain(s) = IF d.writeBuffer = <<>> THEN EmitDrain(d) ELSE Flush(d)
  BY DEF OnDrain, Typed, Fields
<1> HIDE DEF b
<1>3. d.writeBuffer = b /\ Typed(d) /\ Same(s, d)
  BY <1>1 DEF Typed, Fields, Same, Steady
<1> QED
  BY <1>1, <1>2, <1>3 DEF b

(* Socket.onDrain after the answer to a POST.                              *)
LEMMA DrainPolling ==
  ASSUME NEW s, Typed(s), Running(s), s.transport = "polling", s.pollState = "open",
         ~s.upgrading, s.pauseFor = {}, Probing(s), s.pollWritable, Len(s.posts) = 0,
         s.prevBufferLen \in 0 .. Len(s.writeBuffer), Waits(s), s.polling,
         s.up \in Seq(ProbeFrames)
  PROVE  /\ Polls(OnDrain(s)) \/ Ended(OnDrain(s))
         /\ Same(s, OnDrain(s)) /\ Typed(OnDrain(s))
<1> DEFINE b == SubSeq(s.writeBuffer, s.prevBufferLen + 1, Len(s.writeBuffer))
           d == [s EXCEPT !.writeBuffer = b, !.prevBufferLen = 0]
<1>1. /\ OnDrain(s) = IF b = <<>> THEN EmitDrain(d) ELSE Flush(d)
      /\ b \in Seq(Sendable) /\ Typed(d) /\ Same(s, d)
  BY DrainedBuffer
<1> HIDE DEF b
<1>2. /\ OnPolling(d) /\ d.polling /\ d.writeBuffer = b
      /\ d.readyState = "open" => d.closeWait = "no"
      /\ d.readyState = "closing" => d.closeWait = "drain"
  BY <1>1 DEF Typed, Fields, OnPolling, Running, Probing, OnePost, Waits
<1> HIDE DEF d
<1>3. CASE b # <<>>
  <2>1. Waits(d)
    BY <1>2, <1>3 DEF Waits
  <2>2. Typed(Flush(d)) /\ Polls(Flush(d)) /\ Same(d, Flush(d))
    BY <1>1, <1>2, <2>1, FlushPolling
  <2> QED
    BY <1>1, <1>3, <2>2 DEF Same, Steady
<1>4. CASE b = <<>> /\ d.closeWait = "drain"
  <2>1. EmitDrain(d) = OnClose(d)
    BY <1>2, <1>4 DEF EmitDrain, OnPolling
  <2>2. Typed(OnClose(d)) /\ Ended(OnClose(d)) /\ Same(d, OnClose(d))
    BY <1>1, <1>2, OnCloseEnds DEF OnPolling, Running
  <2> QED
    BY <1>1, <1>4, <2>1, <2>2 DEF Same, Steady
<1>5. CASE b = <<>> /\ d.closeWait # "drain"
  <2>1. EmitDrain(d) = d
    BY <1>5 DEF EmitDrain
  <2>2. Polls(d)
    BY <1>2, <1>5 DEF Polls, Waits, OnPolling, Running
  <2> QED
    BY <1>1, <1>5, <2>1, <2>2 DEF Same, Steady
<1> QED
  BY <1>3, <1>4, <1>5

(* The same while an upgrade waits: nothing is written, and close() that   *)
(* waited for the buffer now waits for the upgrade.                        *)
LEMMA DrainPausing ==
  ASSUME NEW s, Typed(s), Running(s), s.transport = "polling", s.upgrading, s.pingTimer,
         s.pollWritable, Len(s.posts) = 0,
         \/ s.probe = "pausing" /\ s.wsState = "open"
         \/ s.probe = "failed" /\ s.wsState = "closed",
         s.prevBufferLen \in 0 .. Len(s.writeBuffer), Waits(s), s.up \in Seq(ProbeFrames)
  PROVE  LET t == OnDrain(s)
         IN  /\ Typed(t) /\ Upgrading(t) /\ t.pollWritable /\ Same(s, t)
             /\ t.pauseFor = s.pauseFor /\ t.pollState = s.pollState
<1> DEFINE b == SubSeq(s.writeBuffer, s.prevBufferLen + 1, Len(s.writeBuffer))
           d == [s EXCEPT !.writeBuffer = b, !.prevBufferLen = 0]
<1>1. /\ OnDrain(s) = IF b = <<>> THEN EmitDrain(d) ELSE Flush(d)
      /\ b \in Seq(Sendable) /\ Typed(d) /\ Same(s, d)
  BY DrainedBuffer
<1> HIDE DEF b
<1>2. /\ Running(d) /\ d.transport = "polling" /\ d.upgrading /\ OnePost(d) /\ d.pingTimer
      /\ \/ d.probe = "pausing" /\ d.wsState = "open"
         \/ d.probe = "failed" /\ d.wsState = "closed"
      /\ d.pollWritable /\ d.writeBuffer = b
      /\ d.pauseFor = s.pauseFor /\ d.pollState = s.pollState
      /\ d.readyState = "open" => d.closeWait = "no"
      /\ d.readyState = "closing" => d.closeWait \in {"drain", "upgrade"}
      /\ d.up \in Seq(ProbeFrames)
  BY <1>1 DEF Typed, Fields, Running, OnePost, Waits
<1> HIDE DEF d
<1>3. CASE b # <<>>
  <2>1. Waits(d)
    BY <1>2, <1>3 DEF Waits
  <2>2. Flush(d) = d
    BY <1>2 DEF Flush
  <2> QED
    BY <1>1, <1>2, <1>3, <2>1, <2>2 DEF Upgrading
<1>4. CASE b = <<>> /\ d.closeWait = "drain"
  <2>1. EmitDrain(d) = [d EXCEPT !.closeWait = "upgrade"]
    BY <1>2, <1>4 DEF EmitDrain
  <2> DEFINE r == [d EXCEPT !.closeWait = "upgrade"]
  <2>2. /\ Typed(r) /\ Upgrading(r) /\ r.pollWritable /\ Same(d, r)
        /\ r.pauseFor = d.pauseFor /\ r.pollState = d.pollState
    <3>1. Typed(r) /\ Same(d, r)
      <4>1. Typed(d)
        BY <1>1
      <4> QED
        BY <4>1 DEF Typed, Fields, Same, Steady
    <3>2. Upgrading(r)
      BY <1>1, <1>2, <1>4 DEF Typed, Fields, Upgrading, Running, OnePost, Waits
    <3>3. r.pollWritable /\ r.pauseFor = d.pauseFor /\ r.pollState = d.pollState
      BY <1>1, <1>2 DEF Typed, Fields
    <3> QED
      BY <3>1, <3>2, <3>3
  <2>3. OnDrain(s) = r
    BY <1>1, <1>4, <2>1
  <2> HIDE DEF r
  <2> QED
    BY <1>1, <1>2, <2>2, <2>3 DEF Same, Steady
<1>5. CASE b = <<>> /\ d.closeWait # "drain"
  <2>1. EmitDrain(d) = d
    BY <1>5 DEF EmitDrain
  <2>2. Waits(d)
    BY <1>2, <1>5 DEF Waits
  <2> QED
    BY <1>1, <1>2, <1>5, <2>1, <2>2 DEF Upgrading
<1> QED
  BY <1>3, <1>4, <1>5

(* Socket.onDrain at the timer of WS.write.                                *)
LEMMA DrainWebsocket ==
  ASSUME NEW s, Typed(s), OnWebsocket(s), Waits(s)
  PROVE  /\ Upgraded(OnDrain(s)) \/ Ended(OnDrain(s))
         /\ Same(s, OnDrain(s)) /\ Typed(OnDrain(s))
<1> DEFINE b == SubSeq(s.writeBuffer, s.prevBufferLen + 1, Len(s.writeBuffer))
           d == [s EXCEPT !.writeBuffer = b, !.prevBufferLen = 0]
<1>1. /\ OnDrain(s) = IF b = <<>> THEN EmitDrain(d) ELSE Flush(d)
      /\ b \in Seq(Sendable) /\ Typed(d) /\ Same(s, d)
  BY DrainedBuffer DEF OnWebsocket
<1> HIDE DEF b
<1>2. /\ OnWebsocket(d) /\ d.writeBuffer = b
      /\ d.readyState = "open" => d.closeWait = "no"
      /\ d.readyState = "closing" => d.closeWait = "drain"
  BY <1>1 DEF Typed, Fields, OnWebsocket, Running, Waits
<1> HIDE DEF d
<1>3. CASE b # <<>>
  <2>1. Waits(d)
    BY <1>2, <1>3 DEF Waits
  <2>2. Typed(Flush(d)) /\ Upgraded(Flush(d)) /\ Same(d, Flush(d))
    BY <1>1, <1>2, <2>1, FlushWebsocket
  <2> QED
    BY <1>1, <1>3, <2>2 DEF Same, Steady
<1>4. CASE b = <<>> /\ d.closeWait = "drain"
  <2>1. EmitDrain(d) = OnClose(d)
    BY <1>2, <1>4 DEF EmitDrain, OnWebsocket
  <2>2. Typed(OnClose(d)) /\ Ended(OnClose(d)) /\ Same(d, OnClose(d))
    BY <1>1, <1>2, OnCloseEnds DEF OnWebsocket, Running
  <2> QED
    BY <1>1, <1>4, <2>1, <2>2 DEF Same, Steady
<1>5. CASE b = <<>> /\ d.closeWait # "drain"
  <2>1. EmitDrain(d) = d
    BY <1>5 DEF EmitDrain
  <2>2. Upgraded(d)
    BY <1>2, <1>5 DEF Upgraded, Waits, OnWebsocket, Running
  <2> QED
    BY <1>1, <1>5, <2>1, <2>2 DEF Same, Steady
<1> QED
  BY <1>3, <1>4, <1>5

(* The websocket takes over from polling, when that is quiet; or it does   *)
(* not, as it has failed.                                                  *)
LEMMA SwitchGoes ==
  ASSUME NEW s, Typed(s), Upgrading(s), Quiet(s), Len(s.posts) = 0
  PROVE  LET t == SwitchTransport(s)
         IN  /\ Typed(t) /\ (Pauses(t) \/ Upgraded(t) \/ Ended(t))
             /\ t.gets = s.gets /\ t.threw = s.threw /\ t.sendThrew = s.sendThrew
             /\ t.heard = s.heard /\ t.polling = s.polling /\ t.posts = <<>>
<1>0. s.posts = <<>>
  BY DEF Typed
<1>1. CASE s.probe = "failed"
  <2>1. SwitchTransport(s) = s
    BY <1>1 DEF SwitchTransport
  <2>2. Pauses(s)
    BY <1>1 DEF Pauses
  <2> QED
    BY <1>0, <2>1, <2>2
<1>2. CASE s.probe # "failed"
  <2> DEFINE q == <<Packet("upgrade")>>
             a == [s EXCEPT !.probe = "done", !.transport = "websocket"]
             t == TransportSend(a, q)
             u == EmitUpgrade(t)
             v == [u EXCEPT !.upgrading = FALSE]
             k(c) == /\ c.gets = s.gets /\ c.threw = s.threw /\ c.sendThrew = s.sendThrew
                     /\ c.heard = s.heard /\ c.polling = s.polling /\ c.posts = <<>>
  <2>1. SwitchTransport(s) = Flush(v)
    BY <1>2 DEF SwitchTransport, Upgrading, Running
  <2>2. q \in Seq(Sendable)
    BY PacketFacts, TypeFacts
  <2> HIDE DEF q
  <2>3. Typed(a) /\ k(a) /\ a.transport = "websocket" /\ a.wsState = "open"
    BY <1>0, <1>2 DEF Typed, Fields, Upgrading
  <2>4. a.upgrading /\ a.pollState = "paused" /\ a.pauseFor = {} /\ ~a.polling /\ a.probe = "done"
        /\ Running(a) /\ Waits(a) /\ a.prevBufferLen = 0
    BY DEF Typed, Fields, Upgrading, Quiet, Running, Waits, OnePost
  <2> HIDE DEF a
  <2>5. t = WebsocketWrite(a, q)
    BY <2>3 DEF TransportSend, TransportState
  <2> HIDE DEF t
  <2>6. PICK up \in Seq(Frames) :
          t = [a EXCEPT !.wsWritable = FALSE, !.wsTimers = a.wsTimers + 1, !.up = up]
    <3>1. Typed(a)
      BY <2>3
    <3>2. \E up \in Seq(Frames) :
            WebsocketWrite(a, q) =
              [a EXCEPT !.wsWritable = FALSE, !.wsTimers = a.wsTimers + 1, !.up = up]
      <4>1. \E up \in Seq(Frames) :
              /\ WebsocketWrite(a, q) =
                   [a EXCEPT !.wsWritable = FALSE, !.wsTimers = a.wsTimers + 1, !.up = up]
              /\ up = a.up \o [i \in DOMAIN q |-> EncodePacket(q[i], TRUE)]
        BY <2>2, <3>1, WebsocketWrites, Zenon
      <4> QED
        BY <4>1, Zenon
    <3> QED
      BY <2>5, <3>2
  <2>7. Typed(t) /\ k(t)
    BY <2>3, <2>6 DEF Typed, Fields
  <2>8. /\ t.transport = "websocket" /\ t.wsState = "open" /\ ~t.wsWritable /\ t.wsTimers > 0
        /\ t.pollState = "paused" /\ t.pauseFor = {} /\ ~t.polling /\ t.probe = "done"
        /\ Running(t) /\ Waits(t) /\ t.prevBufferLen = 0
    BY <2>3, <2>4, <2>6 DEF Typed, Fields, Running, Waits
  <2>9. CASE t.closeWait = "upgrade"
    <3>1. u = OnClose(t)
      BY <2>9 DEF EmitUpgrade
    <3>2. Typed(u) /\ Ended(u) /\ Same(t, u) /\ u.posts = t.posts
      BY <2>7, <2>8, <3>1, OnCloseEnds DEF Running
    <3> HIDE DEF u
    <3>3. Typed(v) /\ Ended(v) /\ k(v)
      <4>1. Typed(v)
        BY <3>2 DEF Typed, Fields
      <4>2. Ended(v)
        BY <3>2 DEF Typed, Fields, Ended
      <4>3. k(v)
        BY <2>7, <3>2 DEF Typed, Fields, Same, Steady
      <4> QED
        BY <4>1, <4>2, <4>3
    <3> HIDE DEF v
    <3>4. Flush(v) = v
      BY <3>3, EndedStays
    <3> QED
      BY <2>1, <3>3, <3>4
  <2>10. CASE t.closeWait # "upgrade"
    <3>1. u = t
      BY <2>10 DEF EmitUpgrade
    <3> HIDE DEF u
    <3>2. Typed(v) /\ k(v)
      BY <2>7, <3>1 DEF Typed, Fields
    <3>3. OnWebsocket(v) /\ Waits(v) /\ ~v.wsWritable
      <4>1. Len(t.writeBuffer) \in Nat
        BY <2>7 DEF Typed
      <4> QED
        <5>1. Typed(t)
          BY <2>7
        <5>2. OnWebsocket(v)
          BY <2>7, <2>8, <3>1, <4>1, <5>1 DEF Typed, Fields, OnWebsocket, Running
        <5>3. Waits(v) /\ ~v.wsWritable
          BY <2>8, <2>10, <3>1, <5>1 DEF Typed, Fields, Waits
        <5> QED
          BY <5>2, <5>3
    <3> HIDE DEF v
    <3>4. Flush(v) = v
      BY <3>3 DEF Flush, Writable, OnWebsocket
    <3>5. Upgraded(v)
      BY <3>3 DEF Upgraded
    <3> QED
      BY <2>1, <3>2, <3>4, <3>5
  <2> QED
    BY <2>9, <2>10
<1> QED
  BY <1>1, <1>2

(* What pause waits for comes.                                             *)
LEMMA PausedByGoes ==
  ASSUME NEW s, Typed(s), Upgrading(s), s.pollState = "pausing",
         NEW event \in {"pollComplete", "drain"}, event \in s.pauseFor,
         Awaited(s) = s.pauseFor \ {event}
  PROVE  LET t == PausedBy(s, event)
         IN  /\ Typed(t) /\ (Pauses(t) \/ Upgraded(t) \/ Ended(t))
             /\ t.gets = s.gets /\ t.threw = s.threw /\ t.sendThrew = s.sendThrew
             /\ t.heard = s.heard /\ t.polling = s.polling
             /\ t.pollState # "open"
             /\ t.transport # s.transport => ~s.polling /\ t.posts = <<>>
<1> DEFINE w == [s EXCEPT !.pauseFor = s.pauseFor \ {event}]
           v == [w EXCEPT !.pollState = "paused"]
<1>1. PausedBy(s, event) = IF w.pauseFor = {} THEN SwitchTransport(v) ELSE w
  BY DEF PausedBy, Typed, Fields
<1>2. /\ Typed(w) /\ Upgrading(w) /\ Same(s, w) /\ w.pauseFor = Awaited(w)
      /\ w.pollState = "pausing"
  <2>1. Typed(w) /\ Same(s, w)
    BY DEF Typed, Fields, Same, Steady
  <2>2. Upgrading(w)
    BY DEF Typed, Fields, Upgrading, Running, OnePost, Waits
  <2>3. w.pauseFor = Awaited(w) /\ w.pollState = "pausing"
    BY DEF Typed, Fields, Awaited
  <2> QED
    BY <2>1, <2>2, <2>3
<1> HIDE DEF w
<1>3. CASE w.pauseFor # {}
  <2>1. Pauses(w)
    BY <1>2, <1>3 DEF Pauses
  <2> QED
    BY <1>1, <1>2, <1>3, <2>1 DEF Same, Steady
<1>4. CASE w.pauseFor = {}
  <2>1. ~w.polling /\ w.pollWritable
    BY <1>2, <1>4 DEF Awaited
  <2>2. Typed(v) /\ Upgrading(v) /\ Quiet(v) /\ Len(v.posts) = 0 /\ Same(w, v)
    <3>1. Typed(v) /\ Same(w, v)
      BY <1>2 DEF Typed, Fields, Same, Steady
    <3>2. Upgrading(v)
      BY <1>2 DEF Typed, Fields, Upgrading, Running, OnePost, Waits
    <3>3. Quiet(v)
      BY <1>2, <1>4, <2>1 DEF Typed, Fields, Quiet
    <3>4. Len(v.posts) = 0
      BY <1>2, <2>1 DEF Typed, Fields, Upgrading, OnePost
    <3> QED
      BY <3>1, <3>2, <3>3, <3>4
  <2> HIDE DEF v
  <2> DEFINE t == SwitchTransport(v)
  <2>3. /\ Typed(t) /\ (Pauses(t) \/ Upgraded(t) \/ Ended(t))
        /\ t.gets = v.gets /\ t.threw = v.threw /\ t.sendThrew = v.sendThrew
        /\ t.heard = v.heard /\ t.polling = v.polling /\ t.posts = <<>>
    BY <2>2, SwitchGoes
  <2>4. PausedBy(s, event) = t
    BY <1>1, <1>4
  <2> HIDE DEF t
  <2>5. t.pollState # "open"
    BY <2>3 DEF Pauses, Quiet, Upgraded, OnWebsocket, Ended
  <2> QED
    BY <1>2, <2>1, <2>2, <2>3, <2>4, <2>5 DEF Same, Steady
<1> QED
  BY <1>3, <1>4

(* The pong of the probe: the upgrade begins, and may be made at once.     *)
LEMMA ProbePongGoes ==
  ASSUME NEW s, Typed(s), Polls(s), s.probe = "ping"
  PROVE  LET t == ProbePong(s)
         IN  /\ Typed(t) /\ Pauses(t) /\ Same(s, t)
<1> DEFINE p == [s EXCEPT !.probe = "pausing", !.upgrading = TRUE]
           wait == Awaited(p)
           r == [p EXCEPT !.pollState = "pausing", !.pauseFor = wait]
<1>1. Typed(p) /\ p.polling
  BY DEF Typed, Fields, Polls
<1>2. wait # {} /\ wait \subseteq {"pollComplete", "drain"}
  BY <1>1 DEF Awaited
<1>3. ProbePong(s) = r
  BY <1>2 DEF ProbePong, Pause, Awaited
<1>4. Typed(r) /\ Same(s, r)
  BY <1>1, <1>2 DEF Typed, Fields, Same, Steady
<1>5. Pauses(r)
  BY <1>1, <1>2
  DEF Typed, Fields, Polls, OnPolling, Probing, Pauses, Upgrading, Running, OnePost, Waits, Awaited
<1> QED
  BY <1>3, <1>4, <1>5

-----------------------------------------------------------------------------
(* What arrives.                                                           *)

(* What the server sends after the handshake.                              *)
Incoming ==
  {Packet("ping"), Packet("noop"), ProbePacket("pong")} \cup {Message(n) : n \in Nat}

(* They are sendable, of four types, and messages carry their number.      *)
LEMMA IncomingFacts ==
  /\ Incoming \subseteq Sendable
  /\ \A p \in Incoming : /\ p.type \in {"ping", "noop", "pong", "message"}
                         /\ p.type = "message" => Number(p) \in Nat
<1>1. /\ "ping" \in DOMAIN PACKET_TYPES /\ "noop" \in DOMAIN PACKET_TYPES
      /\ "pong" \in DOMAIN PACKET_TYPES
  BY TypeFacts
<1>2. /\ Packet("ping") \in Sendable /\ Packet("ping").type = "ping"
      /\ Packet("noop") \in Sendable /\ Packet("noop").type = "noop"
      /\ ProbePacket("pong") \in Sendable /\ ProbePacket("pong").type = "pong"
  BY <1>1, PacketFacts
<1> QED
  BY <1>2, PacketFacts DEF Incoming

(* Socket.write keeps the phase.                                           *)
LEMMA WriteKeeps ==
  ASSUME NEW s, Later(s)
  PROVE  /\ Later(Write(s)) /\ Same(s, Write(s))
         /\ Polls(s) => Polls(Write(s))
<1>1. CASE s.sent = MaxUp \/ s.readyState # "open"
  BY <1>1 DEF Write, Same, Steady
<1>2. CASE ~(s.sent = MaxUp \/ s.readyState # "open")
  <2> DEFINE a == SendPacket(s, Message(s.sent + 1))
             t == [a EXCEPT !.sent = @ + 1]
  <2>1. Write(s) = t
    BY <1>2 DEF Write
  <2>2. s.sent + 1 \in Nat
    BY DEF Later, Typed
  <2>3. Later(a) /\ Same(s, a) /\ (Polls(s) => Polls(a))
    BY <2>2, PacketFacts, SendPacketKeeps
  <2> HIDE DEF a
  <2>4. Typed(t) /\ Same(a, t)
    <3>1. Typed(a)
      BY <2>3 DEF Later
    <3>2. Typed(t)
      BY <3>1 DEF Typed, Fields
    <3>3. Same(a, t)
      BY <3>1 DEF Typed, Fields, Same, Steady
    <3> QED
      BY <3>2, <3>3
  <2>5. /\ Polls(a) => Polls(t)
        /\ Pauses(a) => Pauses(t)
        /\ Upgraded(a) => Upgraded(t)
        /\ Ended(a) => Ended(t)
    <3>1. Typed(a)
      BY <2>3 DEF Later
    <3>2. Polls(a) => Polls(t)
      BY <3>1 DEF Typed, Fields, Polls, OnPolling, Probing, Waits, OnePost, Running
    <3>3. Pauses(a) => Pauses(t)
      BY <3>1 DEF Typed, Fields, Pauses, Upgrading, Quiet, Awaited, Waits, OnePost, Running
    <3>4. Upgraded(a) => Upgraded(t)
      BY <3>1 DEF Typed, Fields, Upgraded, OnWebsocket, Waits, Running
    <3>5. Ended(a) => Ended(t)
      BY <3>1 DEF Typed, Fields, Ended
    <3> QED
      BY <3>2, <3>3, <3>4, <3>5
  <2> HIDE DEF t
  <2> QED
    BY <2>1, <2>3, <2>4, <2>5 DEF Later, Same, Steady
<1> QED
  BY <1>1, <1>2

(* Socket.onPacket after the handshake.                                    *)
LEMMA OnPacketKeeps ==
  ASSUME NEW s, Later(s), NEW p \in Incoming
  PROVE  LET t == OnPacket(s, p)
         IN  /\ Later(t) /\ Steady(s, t)
             /\ t.heard = IF s.readyState = "closed" \/ p.type # "message" THEN s.heard
                          ELSE Append(s.heard, Number(p))
<1>1. Typed(s)
  BY DEF Later
<1>2. CASE s.readyState = "closed"
  BY <1>2 DEF OnPacket, Steady
<1>3. CASE s.readyState # "closed" /\ p.type = "ping"
  <2> DEFINE a == [s EXCEPT !.pingTimer = TRUE]
  <2>1. OnPacket(s, p) = SendPacket(a, Packet("pong"))
    BY <1>3 DEF OnPacket
  <2>2. Typed(a) /\ Same(s, a)
    BY <1>1 DEF Typed, Fields, Same, Steady
  <2>3. /\ Polls(s) => Polls(a)
        /\ Pauses(s) => Pauses(a)
        /\ Upgraded(s) => Upgraded(a)
    BY <1>1 DEF Typed, Fields, Polls, OnPolling, Probing, Waits, OnePost, Running,
                Pauses, Upgrading, Quiet, Awaited, Upgraded, OnWebsocket
  <2> HIDE DEF a
  <2>4. Later(a)
    BY <1>3, <2>2, <2>3 DEF Later, Ended
  <2>5. Packet("pong") \in Sendable
    BY PacketFacts, TypeFacts
  <2>6. Later(SendPacket(a, Packet("pong"))) /\ Same(a, SendPacket(a, Packet("pong")))
    BY <2>4, <2>5, SendPacketKeeps
  <2> QED
    BY <1>3, <2>1, <2>2, <2>6 DEF Same, Steady
<1>4. CASE s.readyState # "closed" /\ p.type = "message"
  <2> DEFINE a == [s EXCEPT !.heard = Append(s.heard, Number(p))]
  <2>1. OnPacket(s, p) = a
    BY <1>1, <1>4 DEF OnPacket, Typed, Fields
  <2>2. Append(s.heard, Number(p)) \in Seq(Nat)
    BY <1>1, <1>4, IncomingFacts DEF Typed
  <2>3. Typed(a) /\ Steady(s, a) /\ a.heard = Append(s.heard, Number(p))
    BY <1>1, <2>2 DEF Typed, Fields, Steady
  <2>4. /\ Polls(s) => Polls(a)
        /\ Pauses(s) => Pauses(a)
        /\ Upgraded(s) => Upgraded(a)
        /\ Ended(s) => Ended(a)
    BY <1>1 DEF Typed, Fields, Polls, OnPolling, Probing, Waits, OnePost, Running,
                Pauses, Upgrading, Quiet, Awaited, Upgraded, OnWebsocket, Ended
  <2> HIDE DEF a
  <2> QED
    BY <1>4, <2>1, <2>3, <2>4 DEF Later
<1>5. CASE s.readyState # "closed" /\ p.type \in {"noop", "pong"}
  <2>1. OnPacket(s, p) = s
    BY <1>5 DEF OnPacket
  <2> QED
    BY <1>5, <2>1 DEF Steady
<1> QED
  BY <1>2, <1>3, <1>4, <1>5, IncomingFacts

(* The handshake: polling is in use.                                       *)
LEMMA HandshakeGoes ==
  ASSUME NEW s, Typed(s), s.readyState = "opening", s.transport = "polling",
         s.polling, s.pollState = "open", s.pollWritable, s.pauseFor = {}, ~s.upgrading,
         s.writeBuffer = <<>>, s.prevBufferLen = 0, s.closeWait = "no",
         s.probe = "none", s.wsState = "none", s.posts = <<>>, s.up \in Seq(ProbeFrames)
  PROVE  LET t == OnHandshake(s) IN Typed(t) /\ Polls(t) /\ Same(s, t)
<1> DEFINE a == [s EXCEPT !.readyState = "open"]
           w == Write(a)
           o == Flush(w)
           t == [(IF s.upgrades THEN Probe(o) ELSE o) EXCEPT !.pingTimer = TRUE]
<1>1. OnHandshake(s) = t
  BY DEF OnHandshake
<1>2. Typed(a) /\ Polls(a) /\ Same(s, a)
  BY DEF Typed, Fields, Polls, OnPolling, Probing, Waits, OnePost, Running, Same, Steady
<1> HIDE DEF a
<1>3. Typed(w) /\ Polls(w) /\ Same(a, w)
  BY <1>2, WriteKeeps DEF Later
<1> HIDE DEF w
<1>4. Typed(o) /\ Polls(o) /\ Same(w, o)
  BY <1>3, FlushPolling DEF Polls
<1> HIDE DEF o
<1>5. Typed(t) /\ Same(o, t)
  <2>1. Typed(t)
    BY <1>4 DEF Typed, Fields, Probe
  <2>2. Same(o, t)
    BY <1>4 DEF Typed, Fields, Probe, Same, Steady
  <2> QED
    BY <2>1, <2>2
<1>6. Polls(t)
  BY <1>4 DEF Typed, Fields, Probe, Polls, OnPolling, Probing, Waits, OnePost, Running
<1> HIDE DEF t
<1> QED
  BY <1>1, <1>2, <1>3, <1>4, <1>5, <1>6 DEF Same, Steady

(* One packet of a payload, after the handshake.                           *)
LEMMA PayloadPacketKeeps ==
  ASSUME NEW s, Later(s), NEW p \in Incoming
  PROVE  LET t == OnPayloadPacket(s, p)
             hears == ~s.threw /\ s.readyState # "closed" /\ p.type = "message"
         IN  /\ Later(t) /\ t.gets = s.gets /\ t.sendThrew = s.sendThrew
             /\ t.polling = s.polling /\ t.transport = s.transport
             /\ t.heard = IF hears THEN Append(s.heard, Number(p)) ELSE s.heard
             /\ s.threw => t = s
<1>1. CASE s.threw
  BY <1>1 DEF OnPayloadPacket
<1>2. CASE ~s.threw
  <2> DEFINE a == OnPacket(s, p)
             throws == /\ s.readyState # "closed" /\ p.type = "message"
                       /\ Number(p) \in Throwing
             t == [a EXCEPT !.threw = throws]
  <2>1. s.pollState # "opening" /\ p.type # "close"
    BY IncomingFacts DEF Later, Polls, OnPolling, Pauses, Quiet, Upgraded, OnWebsocket, Ended
  <2>2. OnPayloadPacket(s, p) = t
    BY <1>2, <2>1 DEF OnPayloadPacket
  <2>3. /\ Later(a) /\ Steady(s, a)
        /\ a.heard = IF s.readyState = "closed" \/ p.type # "message" THEN s.heard
                     ELSE Append(s.heard, Number(p))
    BY OnPacketKeeps
  <2> HIDE DEF a
  <2>4. throws \in BOOLEAN
    OBVIOUS
  <2> HIDE DEF throws
  <2>5. Typed(a)
    BY <2>3 DEF Later
  <2>6. Typed(t) /\ t.heard = a.heard /\ t.gets = a.gets /\ t.sendThrew = a.sendThrew
        /\ t.polling = a.polling /\ t.transport = a.transport
    BY <2>4, <2>5 DEF Typed, Fields
  <2>7. Later(t)
    <3>1. Polls(a) => Polls(t)
      BY <2>5 DEF Typed, Fields, Polls, OnPolling, Probing, Waits, OnePost, Running
    <3>2. Pauses(a) => Pauses(t)
      BY <2>5 DEF Typed, Fields, Pauses, Upgrading, Quiet, Awaited, Waits, OnePost, Running
    <3>3. Upgraded(a) => Upgraded(t)
      BY <2>5 DEF Typed, Fields, Upgraded, OnWebsocket, Waits, Running
    <3>4. Ended(a) => Ended(t)
      BY <2>5 DEF Typed, Fields, Ended
    <3> HIDE DEF t
    <3> QED
      BY <2>3, <2>6, <3>1, <3>2, <3>3, <3>4 DEF Later
  <2> HIDE DEF t
  <2> QED
    BY <1>2, <2>2, <2>3, <2>6, <2>7 DEF Steady
<1> QED
  BY <1>1, <1>2

(* The first packet of all, the handshake.                                 *)
LEMMA PayloadOpenGoes ==
  ASSUME NEW s, Typed(s), Opening(s)
  PROVE  LET t == OnPayloadPacket(s, Packet("open"))
         IN  Typed(t) /\ Polls(t) /\ Same(s, t)
<1> DEFINE o == [s EXCEPT !.pollState = "open", !.pollWritable = TRUE]
           h == OnHandshake(o)
           t == [h EXCEPT !.threw = FALSE]
<1>1. Packet("open").type = "open"
  BY PacketFacts, TypeFacts
<1>2. Typed(o) /\ Same(s, o)
  BY DEF Typed, Fields, Same, Steady
<1>3. /\ o.readyState = "opening" /\ o.transport = "polling"
      /\ o.polling /\ o.pollState = "open" /\ o.pollWritable /\ o.pauseFor = {} /\ ~o.upgrading
      /\ o.writeBuffer = <<>> /\ o.prevBufferLen = 0 /\ o.closeWait = "no"
      /\ o.probe = "none" /\ o.wsState = "none" /\ o.posts = <<>> /\ ~o.threw
  BY DEF Typed, Fields, Opening
<1>8. o.up \in Seq(ProbeFrames)
  <2>1. o.up = <<>>
    BY DEF Typed, Fields, Opening
  <2>2. <<>> \in Seq(ProbeFrames)
    OBVIOUS
  <2> QED
    BY <2>1, <2>2, Zenon
<1>4. OnPayloadPacket(s, Packet("open")) = t
  BY <1>1, <1>3 DEF OnPayloadPacket, OnPacket, Opening
<1> HIDE DEF o
<1>5. Typed(h) /\ Polls(h) /\ Same(o, h)
  BY <1>2, <1>3, <1>8, HandshakeGoes
<1> HIDE DEF h
<1>6. Typed(t) /\ Same(h, t)
  <2>1. Typed(t)
    BY <1>5 DEF Typed, Fields
  <2>2. h.threw = FALSE
    BY <1>3, <1>5 DEF Same, Steady
  <2>3. Same(h, t)
    BY <1>5, <2>2 DEF Typed, Fields, Same, Steady
  <2> QED
    BY <2>1, <2>3
<1>7. Polls(t)
  BY <1>5 DEF Typed, Fields, Polls, OnPolling, Probing, Waits, OnePost, Running
<1> HIDE DEF t
<1> QED
  BY <1>2, <1>4, <1>5, <1>6, <1>7 DEF Same, Steady

(* A close packet.                                                         *)
LEMMA PayloadCloseEnds ==
  ASSUME NEW s, Typed(s), Opening(s) \/ Polls(s) \/ Pauses(s)
  PROVE  LET t == OnPayloadPacket(s, ClosePacket)
         IN  /\ Typed(t) /\ t.gets = s.gets /\ t.sendThrew = s.sendThrew
             /\ t.transport = s.transport /\ t.heard = s.heard
             /\ ~s.threw => Ended(t)
             /\ s.threw => t = s
<1> DEFINE a == [s EXCEPT !.pollState = "closed"]
<1>1. ClosePacket.type = "close"
  BY PacketFacts, TypeFacts DEF ClosePacket
<1>2. OnPayloadPacket(s, ClosePacket) = IF s.threw THEN s ELSE OnClose(a)
  BY <1>1 DEF OnPayloadPacket
<1>3. /\ Typed(a) /\ Same(s, a) /\ a.readyState # "closed" /\ a.transport = "polling"
  BY DEF Typed, Fields, Same, Steady, Opening, Polls, OnPolling, Pauses, Upgrading, Running
<1> HIDE DEF a
<1>4. Typed(OnClose(a)) /\ Ended(OnClose(a)) /\ Same(a, OnClose(a))
  BY <1>3, OnCloseEnds
<1> QED
  BY <1>2, <1>3, <1>4 DEF Same, Steady

(* A closed socket takes no notice of a payload.                           *)
LEMMA PayloadEnded ==
  ASSUME NEW s, Typed(s), Ended(s), NEW p
  PROVE  LET t == OnPayloadPacket(s, p)
         IN  /\ Typed(t) /\ Ended(t) /\ t.gets = s.gets /\ t.sendThrew = s.sendThrew
             /\ t.transport = s.transport /\ t.heard = s.heard
<1>1. CASE s.threw
  BY <1>1 DEF OnPayloadPacket
<1>2. CASE ~s.threw /\ p.type = "close"
  <2> DEFINE a == [s EXCEPT !.pollState = "closed"]
  <2>1. OnPayloadPacket(s, p) = OnClose(a)
    BY <1>2 DEF OnPayloadPacket, Ended
  <2>2. Typed(a) /\ Ended(a) /\ Same(s, a)
    BY DEF Typed, Fields, Ended, Same, Steady
  <2> HIDE DEF a
  <2>3. OnClose(a) = a
    BY <2>2, EndedStays
  <2> QED
    BY <2>1, <2>2, <2>3 DEF Same, Steady
<1>3. CASE ~s.threw /\ p.type # "close"
  <2> DEFINE a == [s EXCEPT !.threw = FALSE]
  <2>1. OnPayloadPacket(s, p) = a
    BY <1>3, EndedStays DEF OnPayloadPacket, Ended
  <2>2. Typed(a)
    BY DEF Typed, Fields
  <2>3. /\ Ended(a) /\ a.gets = s.gets /\ a.sendThrew = s.sendThrew
        /\ a.transport = s.transport /\ a.heard = s.heard
    BY DEF Typed, Fields, Ended
  <2> HIDE DEF a
  <2> QED
    BY <2>1, <2>2, <2>3
<1> QED
  BY <1>1, <1>2, <1>3

(* The greatest place of the first k + 1, where that is one of them.       *)
LEMMA MaxOfInterval ==
  ASSUME NEW k \in Nat, NEW S \in SUBSET (1 .. k + 1), k + 1 \in S
  PROVE  Max(S) = k + 1
<1>1. \A y \in S : k + 1 >= y
  OBVIOUS
<1>2. \A x \in S : (\A y \in S : x >= y) => x = k + 1
  OBVIOUS
<1> QED
  BY <1>1, <1>2 DEF Max

(* The two loops over packets: what the callback of onData does with one   *)
(* of them, and what the server does that looks for the messages.          *)
Handle(loop, c, p) ==
  IF loop = "onData" THEN OnPayloadPacket(c, p)
  ELSE IF p.type = "message" THEN Append(c, Number(p)) ELSE c

(* it tells what has become of c after the packets of q at the places of   *)
(* a set of the first k.                                                   *)
Iterates(it, loop, c, q, k) ==
  it = [S \in SUBSET (1 .. k) |->
          IF S = {} THEN c ELSE Handle(loop, it[S \ {Max(S)}], q[Max(S)])]

(* Such a function exists, for a payload of any length.                    *)
LEMMA IteratesExist ==
  ASSUME NEW loop, NEW c, NEW q, NEW n \in Nat
  PROVE  \E it : Iterates(it, loop, c, q, n)
<1> DEFINE T == {k \in 0 .. n : \E it : Iterates(it, loop, c, q, k)}
<1>1. 0 \in T
  <2> DEFINE it == [S \in SUBSET (1 .. 0) |-> c]
  <2>1. \A S \in SUBSET (1 .. 0) : S = {}
    OBVIOUS
  <2>2. Iterates(it, loop, c, q, 0)
    BY <2>1 DEF Iterates
  <2> HIDE DEF it
  <2>3. \E f : Iterates(f, loop, c, q, 0)
    BY <2>2
  <2>4. 0 \in 0 .. n
    OBVIOUS
  <2> QED
    BY <2>3, <2>4
<1>2. ASSUME NEW k \in 0 .. n - 1, k \in T
      PROVE  k + 1 \in T
  <2>1. PICK f : Iterates(f, loop, c, q, k)
    BY <1>2
  <2>2. k \in Nat /\ k + 1 \in 0 .. n
    OBVIOUS
  <2> DEFINE it == [S \in SUBSET (1 .. k + 1) |->
                      IF k + 1 \in S THEN Handle(loop, f[S \ {k + 1}], q[k + 1]) ELSE f[S]]
  <2>3. \A S \in SUBSET (1 .. k) : it[S] = f[S]
    BY <2>2
  <2>4. ASSUME NEW S \in SUBSET (1 .. k + 1)
        PROVE  it[S] = IF S = {} THEN c ELSE Handle(loop, it[S \ {Max(S)}], q[Max(S)])
    <3>1. CASE k + 1 \in S
      <4>1. Max(S) = k + 1
        BY <2>2, <3>1, MaxOfInterval
      <4>2. S \ {k + 1} \in SUBSET (1 .. k)
        BY <2>2
      <4>3. it[S \ {k + 1}] = f[S \ {k + 1}]
        BY <2>3, <4>2
      <4>4. it[S] = Handle(loop, f[S \ {k + 1}], q[k + 1])
        BY <3>1
      <4> QED
        BY <3>1, <4>1, <4>3, <4>4
    <3>2. CASE k + 1 \notin S
      <4>1. S \in SUBSET (1 .. k) /\ S \ {Max(S)} \in SUBSET (1 .. k)
        <5>1. \A x \in S : x \in 1 .. k
          BY <2>2, <3>2
        <5> QED
          BY <5>1
      <4>2. f[S] = IF S = {} THEN c ELSE Handle(loop, f[S \ {Max(S)}], q[Max(S)])
        BY <2>1, <4>1 DEF Iterates
      <4> QED
        BY <2>3, <4>1, <4>2
    <3> QED
      BY <3>1, <3>2
  <2>5. Iterates(it, loop, c, q, k + 1)
    <3>1. it = [S \in SUBSET (1 .. k + 1) |-> it[S]]
      OBVIOUS
    <3> HIDE DEF it
    <3> QED
      BY <2>4, <3>1 DEF Iterates
  <2> HIDE DEF it
  <2>6. \E g : Iterates(g, loop, c, q, k + 1)
    BY <2>5
  <2> QED
    BY <2>2, <2>6
<1> HIDE DEF T
<1>3. 0 .. n \subseteq T
  BY <1>1, <1>2, Induction
<1> QED
  BY <1>3 DEF T

(* r[k] is what a loop has made of c after the first k packets of q.       *)
Runs(r, loop, c, q, n) ==
  r[0] = c /\ \A k \in 1 .. n : r[k] = Handle(loop, r[k - 1], q[k])

(* The sets of the first places give such a chain.                         *)
LEMMA IteratesRuns ==
  ASSUME NEW loop, NEW c, NEW q, NEW n \in Nat, NEW it, Iterates(it, loop, c, q, n)
  PROVE  \E r : Runs(r, loop, c, q, n) /\ r[n] = it[1 .. n]
<1>1. \A S \in SUBSET (1 .. n) :
        it[S] = IF S = {} THEN c ELSE Handle(loop, it[S \ {Max(S)}], q[Max(S)])
  BY DEF Iterates
<1> DEFINE r == [k \in 0 .. n |-> it[1 .. k]]
<1>2. r[0] = c
  <2>1. 1 .. 0 = {} /\ {} \in SUBSET (1 .. n) /\ 0 \in 0 .. n
    OBVIOUS
  <2> QED
    BY <1>1, <2>1
<1>3. ASSUME NEW k \in 1 .. n
      PROVE  r[k] = Handle(loop, r[k - 1], q[k])
  <2>1. k \in Nat /\ 1 <= k /\ k <= n
    OBVIOUS
  <2>2. 1 .. k \in SUBSET (1 .. n)
    BY <2>1
  <2>3. (1 .. k) \ {k} = 1 .. k - 1
    BY <2>1
  <2>4. 1 .. k # {} /\ k \in 1 .. k
    BY <2>1
  <2>5. k - 1 \in Nat /\ k - 1 \in 0 .. n /\ k \in 0 .. n /\ (k - 1) + 1 = k
    BY <2>1
  <2>6. Max(1 .. k) = k
    BY <2>4, <2>5, MaxOfInterval
  <2>7. it[1 .. k] = Handle(loop, it[1 .. k - 1], q[k])
    BY <1>1, <2>2, <2>3, <2>4, <2>6
  <2> QED
    BY <2>5, <2>7
<1>4. r[n] = it[1 .. n]
  OBVIOUS
<1> HIDE DEF r
<1>5. Runs(r, loop, c, q, n)
  BY <1>2, <1>3 DEF Runs
<1> QED
  BY <1>4, <1>5

(* r[k] is what the first k packets of the payload q have made of c.       *)
Follows(r, c, q) ==
  /\ r[0] = c
  /\ \A k \in 1 .. Len(q) : r[k] = OnPayloadPacket(r[k - 1], q[k])
  /\ FoldLeft(OnPayloadPacket, c, q) = r[Len(q)]

(* The fold over a payload is the last state of such a chain of states.    *)
LEMMA FollowsExist ==
  ASSUME NEW c, NEW q \in Seq(Sendable)
  PROVE  \E r : Follows(r, c, q)
<1> DEFINE n == Len(q)
<1>1. n \in Nat /\ DOMAIN q = 1 .. n
  OBVIOUS
<1>0. \A a, p : Handle("onData", a, p) = OnPayloadPacket(a, p)
  BY DEF Handle
<1> HIDE DEF n
<1>2. \E it : it = [S \in SUBSET (1 .. n) |->
                IF S = {} THEN c ELSE OnPayloadPacket(it[S \ {Max(S)}], q[Max(S)])]
  <2>1. PICK it : Iterates(it, "onData", c, q, n)
    BY <1>1, IteratesExist
  <2>2. it = [S \in SUBSET (1 .. n) |->
                IF S = {} THEN c ELSE OnPayloadPacket(it[S \ {Max(S)}], q[Max(S)])]
    BY <1>0, <2>1 DEF Iterates
  <2> QED
    BY <2>2
<1>3. PICK it : /\ it = [S \in SUBSET (1 .. n) |->
                    IF S = {} THEN c ELSE OnPayloadPacket(it[S \ {Max(S)}], q[Max(S)])]
                /\ FoldLeft(OnPayloadPacket, c, q) = it[1 .. n]
  BY <1>1, <1>2 DEF FoldLeft, MapThenFoldSet
<1>4. Iterates(it, "onData", c, q, n)
  BY <1>3 DEF Iterates, Handle
<1>5. PICK r : Runs(r, "onData", c, q, n) /\ r[n] = it[1 .. n]
  BY <1>1, <1>4, IteratesRuns
<1>6. r[0] = c /\ \A k \in 1 .. n : r[k] = OnPayloadPacket(r[k - 1], q[k])
  BY <1>0, <1>5 DEF Runs
<1>7. Follows(r, c, q)
  BY <1>3, <1>5, <1>6 DEF Follows, n
<1> QED
  BY <1>7

(* The numbers of the messages among the packets are the last of such a    *)
(* chain.                                                                  *)
LEMMA MessagesFound ==
  ASSUME NEW q \in Seq(Sendable)
  PROVE  \E r : /\ r[0] = <<>> /\ MessagesIn(q) = r[Len(q)]
                /\ \A k \in 1 .. Len(q) :
                      r[k] = IF q[k].type = "message" THEN Append(r[k - 1], Number(q[k]))
                             ELSE r[k - 1]
<1> DEFINE n == Len(q)
<1>1. n \in Nat /\ DOMAIN q = 1 .. n
  OBVIOUS
<1>0. \A a, p : Handle("messages", a, p) =
                  IF p.type = "message" THEN Append(a, Number(p)) ELSE a
  BY DEF Handle
<1> HIDE DEF n
<1>2. \E it : it = [S \in SUBSET (1 .. n) |->
                IF S = {} THEN <<>>
                ELSE IF q[Max(S)].type = "message"
                     THEN Append(it[S \ {Max(S)}], Number(q[Max(S)]))
                     ELSE it[S \ {Max(S)}]]
  <2>1. PICK it : Iterates(it, "messages", <<>>, q, n)
    BY <1>1, IteratesExist
  <2>2. it = [S \in SUBSET (1 .. n) |->
                IF S = {} THEN <<>>
                ELSE IF q[Max(S)].type = "message"
                     THEN Append(it[S \ {Max(S)}], Number(q[Max(S)]))
                     ELSE it[S \ {Max(S)}]]
    <3>1. it = [S \in SUBSET (1 .. n) |->
                  IF S = {} THEN <<>>
                  ELSE Handle("messages", it[S \ {Max(S)}], q[Max(S)])]
      BY <2>1, Zenon DEF Iterates
    <3>2. \A S : Handle("messages", it[S \ {Max(S)}], q[Max(S)]) =
                   IF q[Max(S)].type = "message"
                   THEN Append(it[S \ {Max(S)}], Number(q[Max(S)]))
                   ELSE it[S \ {Max(S)}]
      BY <1>0, Zenon
    <3> QED
      BY <3>1, <3>2
  <2> QED
    BY <2>2
<1>3. PICK it : /\ it = [S \in SUBSET (1 .. n) |->
                    IF S = {} THEN <<>>
                    ELSE IF q[Max(S)].type = "message"
                         THEN Append(it[S \ {Max(S)}], Number(q[Max(S)]))
                         ELSE it[S \ {Max(S)}]]
                /\ MessagesIn(q) = it[1 .. n]
  BY <1>1, <1>2 DEF MessagesIn, FoldLeft, MapThenFoldSet
<1>4. Iterates(it, "messages", <<>>, q, n)
  BY <1>0, <1>3 DEF Iterates
<1>5. PICK r : Runs(r, "messages", <<>>, q, n) /\ r[n] = it[1 .. n]
  BY <1>1, <1>4, IteratesRuns
<1>6. /\ r[0] = <<>>
      /\ \A k \in 1 .. n : r[k] = IF q[k].type = "message" THEN Append(r[k - 1], Number(q[k]))
                                   ELSE r[k - 1]
  BY <1>0, <1>5 DEF Runs
<1> QED
  BY <1>3, <1>5, <1>6 DEF n

(* A payload after the handshake.                                          *)
LEMMA PayloadKeeps ==
  ASSUME NEW c, Later(c), NEW q \in Seq(Sendable), NEW a \in 0 .. Len(q), NEW r,
         r[a] = c, \A k \in a + 1 .. Len(q) : r[k] = OnPayloadPacket(r[k - 1], q[k]),
         Ended(c) \/ \A k \in a + 1 .. Len(q) : q[k] \in Incoming
  PROVE  LET t == r[Len(q)]
         IN  /\ Later(t) /\ t.gets = c.gets /\ t.sendThrew = c.sendThrew
             /\ t.transport = c.transport
             /\ ~Ended(c) => t.polling = c.polling
             /\ Ended(c) => Ended(t) /\ t.heard = c.heard
<1> DEFINE n == Len(q)
           I(t) == /\ Later(t) /\ t.gets = c.gets /\ t.sendThrew = c.sendThrew
                   /\ t.transport = c.transport
                   /\ ~Ended(c) => t.polling = c.polling
                   /\ Ended(c) => Ended(t) /\ t.heard = c.heard
           T == {k \in 0 .. n : k < a \/ I(r[k])}
<1>0. n \in Nat
  OBVIOUS
<1> HIDE DEF n
<1>1. ASSUME NEW k \in 0 .. n - 1, k + 1 > a, I(r[k])
      PROVE  I(r[k + 1])
  <2>1. k + 1 \in a + 1 .. n /\ (k + 1) - 1 = k
    BY <1>0, <1>1
  <2>2. r[k + 1] = OnPayloadPacket(r[k], q[k + 1])
    BY <2>1 DEF n
  <2>3. CASE Ended(c)
    <3>1. Typed(r[k]) /\ Ended(r[k])
      BY <1>1, <2>3 DEF Later
    <3> DEFINE u == r[k]
               t == OnPayloadPacket(u, q[k + 1])
    <3>2. Typed(t) /\ Ended(t) /\ t.gets = u.gets /\ t.sendThrew = u.sendThrew
          /\ t.transport = u.transport /\ t.heard = u.heard
      BY <3>1, PayloadEnded
    <3> QED
      BY <1>1, <2>2, <2>3, <3>2 DEF Later
  <2>4. CASE ~Ended(c)
    <3>1. q[k + 1] \in Incoming
      BY <2>1, <2>4 DEF n
    <3> DEFINE u == r[k]
               t == OnPayloadPacket(u, q[k + 1])
    <3>2. Later(t) /\ t.gets = u.gets /\ t.sendThrew = u.sendThrew
          /\ t.transport = u.transport /\ t.polling = u.polling
      BY <1>1, <3>1, PayloadPacketKeeps
    <3> QED
      BY <1>1, <2>2, <2>4, <3>2
  <2> QED
    BY <2>3, <2>4
<1>2. I(r[a])
  OBVIOUS
<1>3. a \in 0 .. n
  BY DEF n
<1> HIDE DEF I
<1>4. 0 \in T
  BY <1>0, <1>2, <1>3
<1>5. \A k \in 0 .. n - 1 : k \in T => k + 1 \in T
  <2> SUFFICES ASSUME NEW k \in 0 .. n - 1, k \in T PROVE k + 1 \in T
    OBVIOUS
  <2>1. CASE k + 1 < a
    BY <1>0, <2>1
  <2>2. CASE k + 1 = a
    BY <1>0, <1>2, <2>2
  <2>3. CASE k + 1 > a
    BY <1>0, <1>1, <1>3, <2>3
  <2> QED
    BY <1>0, <1>3, <2>1, <2>2, <2>3
<1> HIDE DEF T
<1>6. 0 .. n \subseteq T
  BY <1>0, <1>4, <1>5, Induction
<1>7. I(r[n])
  BY <1>0, <1>3, <1>6 DEF T
<1> QED
  BY <1>7 DEF I, n

-----------------------------------------------------------------------------
(* The client between two steps.                                           *)

(* One GET is under way while polling goes on.                             *)
Gets(s) ==
  /\ s.gets \in 0 .. 1
  /\ s.readyState # "closed" =>
        /\ s.gets = (IF s.polling /\ ~s.threw THEN 1 ELSE 0)
        /\ s.threw => s.polling

Client(s) ==
  /\ Typed(s) /\ Gets(s) /\ ~s.sendThrew
  /\ Opening(s) \/ Polls(s) \/ Pauses(s) \/ Upgraded(s) \/ Ended(s)

(* What a step of the client may do: nothing brings a closed socket back,  *)
(* or one that is open to before the handshake, or starts the polling that *)
(* an exception has stopped; and the websocket takes over for good, when   *)
(* nothing of polling is under way.                                        *)
Goes(s, t) ==
  /\ Client(t)
  /\ Ended(s) => Ended(t)
  /\ Opening(t) => Opening(s)
  /\ s.threw /\ ~Ended(t) => t.threw
  /\ s.transport = "websocket" => t.transport = "websocket"
  /\ t.transport # s.transport => t.gets = 0 /\ t.posts = <<>>

(* After the packets of a payload: the poll is complete, and the next is   *)
(* sent if there is no reason not to.                                      *)
AfterPackets(d) ==
  LET c == PausedBy([d EXCEPT !.polling = FALSE], "pollComplete")
  IN  IF d.pollState = "closed" \/ d.threw THEN d
      ELSE IF c.pollState = "open" THEN Poll(c) ELSE c

(* Polling.onData after the packets: the poll is complete, an upgrade that *)
(* waited for it goes on, or the next GET is sent.                         *)
LEMMA AfterPayload ==
  ASSUME NEW d, Later(d), d.gets = 0, ~d.sendThrew,
         ~Ended(d) => d.polling /\ d.transport = "polling"
  PROVE  LET t == AfterPackets(d)
         IN  /\ Later(t) /\ Client(t) /\ t.heard = d.heard
             /\ Ended(d) => Ended(t)
             /\ d.transport = "websocket" => t.transport = "websocket"
             /\ t.transport # d.transport => t.gets = 0 /\ t.posts = <<>>
<1> DEFINE x == [d EXCEPT !.polling = FALSE]
           c == PausedBy(x, "pollComplete")
           t == AfterPackets(d)
<1>0. t = IF d.pollState = "closed" \/ d.threw THEN d
          ELSE IF c.pollState = "open" THEN Poll(c) ELSE c
  BY DEF AfterPackets
<1> HIDE DEF t
<1>1. Typed(d)
  BY DEF Later
<1>2. CASE d.pollState = "closed" \/ d.threw
  <2>1. t = d
    BY <1>0, <1>2
  <2>2. Gets(d)
    <3>1. CASE Ended(d)
      BY <3>1 DEF Gets, Ended
    <3>2. CASE ~Ended(d)
      <4>1. d.polling /\ d.threw
        BY <1>2, <3>2
           DEF Later, Polls, OnPolling, Pauses, Quiet, Upgraded, OnWebsocket
      <4> QED
        BY <4>1 DEF Gets
    <3> QED
      BY <3>1, <3>2
  <2> QED
    BY <2>1, <2>2 DEF Client, Later, t
<1>3. CASE ~(d.pollState = "closed" \/ d.threw) /\ Ended(d)
  <2> DEFINE w == [x EXCEPT !.pauseFor = @ \ {"pollComplete"}]
             v == [w EXCEPT !.pollState = "paused"]
  <2>1. Typed(w) /\ Ended(w) /\ Same(x, w) /\ w.gets = 0 /\ ~w.sendThrew
        /\ w.heard = d.heard /\ w.transport = d.transport
    BY <1>1, <1>3 DEF Typed, Fields, Ended, Same, Steady
  <2>2. c = IF "pollComplete" \in x.pauseFor /\ w.pauseFor = {} THEN SwitchTransport(v) ELSE w
    BY DEF PausedBy
  <2> HIDE DEF w, x
  <2>3. Typed(v) /\ Ended(v) /\ Same(w, v)
    BY <2>1 DEF Typed, Fields, Ended, Same, Steady
  <2> HIDE DEF v
  <2>4. SwitchTransport(v) = v
    BY <2>3, EndedStays
  <2>5. Typed(c) /\ Ended(c) /\ c.gets = 0 /\ ~c.sendThrew
        /\ c.heard = d.heard /\ c.transport = d.transport
    BY <2>1, <2>2, <2>3, <2>4 DEF Same, Steady
  <2> HIDE DEF c
  <2>6. t = c
    BY <1>0, <1>3, <2>5 DEF Ended
  <2> QED
    BY <2>5, <2>6 DEF Later, Client, Gets, Ended, t
<1>4. CASE ~(d.pollState = "closed" \/ d.threw) /\ Polls(d)
  <2> DEFINE w == [x EXCEPT !.pauseFor = @ \ {"pollComplete"}]
             u == [[w EXCEPT !.polling = TRUE] EXCEPT !.gets = @ + 1]
  <2>1. x.pauseFor = {} /\ c = w
    BY <1>1, <1>4 DEF PausedBy, Polls, OnPolling, Typed, Fields
  <2>2. /\ w.pollState = "open" /\ w.gets = 0 /\ Typed(w) /\ Same([d EXCEPT !.polling = FALSE], w)
        /\ OnPolling(w) /\ Waits(w) /\ (w.pollWritable => w.writeBuffer = <<>>)
    BY <1>1, <1>4, <2>1
       DEF Typed, Fields, Polls, OnPolling, Probing, Waits, OnePost, Running, Same, Steady
  <2>3. w.threw = d.threw /\ w.sendThrew = d.sendThrew /\ w.heard = d.heard
        /\ w.transport = d.transport
    BY <1>1 DEF Typed, Fields
  <2> HIDE DEF w
  <2>4. Poll(w) = u
    BY DEF Poll, DoPoll
  <2>5. t = u
    BY <1>0, <1>4, <2>1, <2>2, <2>4
  <2>6. Typed(u) /\ u.threw = w.threw /\ u.sendThrew = w.sendThrew /\ u.heard = w.heard
        /\ u.transport = w.transport /\ u.gets = 1 /\ u.polling
    BY <2>2 DEF Typed, Fields
  <2>7. Polls(u)
    BY <2>2 DEF Typed, Fields, Polls, OnPolling, Probing, Waits, OnePost, Running
  <2> HIDE DEF u
  <2>8. Gets(u)
    BY <1>4, <2>3, <2>6 DEF Gets
  <2>9. ~Ended(d)
    BY <1>4 DEF Polls, OnPolling, Running, Ended
  <2> QED
    BY <2>3, <2>5, <2>6, <2>7, <2>8, <2>9 DEF Later, Client, t
<1>5. CASE ~(d.pollState = "closed" \/ d.threw) /\ Pauses(d)
  <2>1. ~Ended(d)
    BY <1>5 DEF Pauses, Upgrading, Running, Ended
  <2>2. /\ Typed(x) /\ Upgrading(x) /\ x.pollState = "pausing" /\ "pollComplete" \in x.pauseFor
        /\ Awaited(x) = x.pauseFor \ {"pollComplete"}
    <3>1. Typed(d) /\ d.polling
      BY <1>1, <2>1
    <3>2. Upgrading(d) /\ d.pollState = "pausing" /\ d.pauseFor = Awaited(d)
      BY <1>5, <3>1 DEF Pauses, Quiet
    <3>3. Typed(x)
      BY <3>1 DEF Typed, Fields
    <3>4. Upgrading(x)
      BY <3>1, <3>2 DEF Typed, Fields, Upgrading, Waits, OnePost, Running
    <3>5. x.pollState = "pausing" /\ x.pauseFor = d.pauseFor
          /\ ~x.polling /\ x.pollWritable = d.pollWritable
      BY <3>1, <3>2 DEF Typed, Fields
    <3>6. "pollComplete" \in x.pauseFor /\ Awaited(x) = x.pauseFor \ {"pollComplete"}
      BY <3>1, <3>2, <3>5 DEF Awaited
    <3> QED
      BY <3>3, <3>4, <3>5, <3>6
  <2>3. /\ x.gets = 0 /\ ~x.threw /\ ~x.sendThrew /\ x.heard = d.heard /\ ~x.polling
        /\ x.transport = d.transport
    BY <1>1, <1>5 DEF Typed, Fields
  <2> HIDE DEF x
  <2>4. /\ Typed(c) /\ (Pauses(c) \/ Upgraded(c) \/ Ended(c))
        /\ c.gets = 0 /\ ~c.threw /\ ~c.sendThrew
        /\ c.heard = d.heard /\ ~c.polling /\ c.pollState # "open"
        /\ c.transport # d.transport => c.posts = <<>>
    BY <2>2, <2>3, PausedByGoes
  <2> HIDE DEF c
  <2>5. t = c
    BY <1>0, <1>5, <2>4
  <2>6. Gets(c)
    BY <2>4 DEF Gets
  <2>7. d.transport # "websocket"
    BY <1>5 DEF Pauses, Upgrading
  <2> QED
    BY <2>1, <2>4, <2>5, <2>6, <2>7 DEF Later, Client, t
<1>6. CASE Upgraded(d)
  BY <1>6 DEF Upgraded, OnWebsocket, Ended, Running, t
<1> QED
  BY <1>2, <1>3, <1>4, <1>5, <1>6 DEF Later, t

(* s when it has got the answer to its GET.                                *)
Answered(s, c) ==
  /\ c = [s EXCEPT !.gets = @ - 1]
  /\ Typed(c) /\ c.gets = 0 /\ ~c.sendThrew /\ c.heard = s.heard
  /\ c.threw = s.threw /\ c.polling = s.polling /\ c.transport = s.transport
  /\ Opening(s) <=> Opening(c)
  /\ Polls(s) => Polls(c)
  /\ Pauses(s) => Pauses(c)
  /\ Ended(s) <=> Ended(c)

(* The states c[0], c[1], ... through which the packets of the answer lead.*)
Chain(s, q, r) ==
  /\ Answered(s, r[0])
  /\ \A k \in 1 .. Len(q) : r[k] = OnPayloadPacket(r[k - 1], q[k])
  /\ OnData(s, EncodePayload(q)) = AfterPackets(r[Len(q)])

(* OnData with the packets of q is such a chain.                           *)
LEMMA OnDataChain ==
  ASSUME NEW s, Client(s), s.gets > 0, NEW q \in Seq(Sendable), q # <<>>
  PROVE  /\ \E r : Chain(s, q, r)
         /\ ~Ended(s) => /\ s.polling /\ ~s.threw /\ s.transport = "polling"
                         /\ Opening(s) \/ Polls(s) \/ Pauses(s)
<1> DEFINE c == [s EXCEPT !.gets = @ - 1]
           d == FoldLeft(OnPayloadPacket, c, q)
<1>1. OnData(s, EncodePayload(q)) = AfterPackets(d)
  BY PayloadRoundTrip DEF OnData, AfterPackets
<1>2. s.gets = 1 /\ Typed(s)
  BY DEF Client, Gets
<1>3. /\ Typed(c) /\ c.gets = 0 /\ ~c.sendThrew /\ c.transport = s.transport
      /\ c.threw = s.threw /\ c.polling = s.polling /\ c.heard = s.heard
  BY <1>2 DEF Client, Typed, Fields
<1>4. /\ Opening(s) <=> Opening(c)
      /\ Polls(s) => Polls(c)
      /\ Pauses(s) => Pauses(c)
      /\ Ended(s) <=> Ended(c)
  <2>1. Opening(s) <=> Opening(c)
    BY <1>2 DEF Typed, Fields, Opening
  <2>2. Polls(s) => Polls(c)
    BY <1>2 DEF Typed, Fields, Polls, OnPolling, Probing, Waits, OnePost, Running
  <2>3. Pauses(s) => Pauses(c)
    BY <1>2 DEF Typed, Fields, Pauses, Upgrading, Quiet, Awaited, Waits, OnePost, Running
  <2>4. Ended(s) <=> Ended(c)
    BY <1>2 DEF Typed, Fields, Ended
  <2> QED
    BY <2>1, <2>2, <2>3, <2>4
<1>5. ~Ended(s) => s.polling /\ ~s.threw /\ s.transport = "polling"
  <2> SUFFICES ASSUME ~Ended(s) PROVE s.polling /\ ~s.threw /\ s.transport = "polling"
    OBVIOUS
  <2>1. s.readyState # "closed"
    BY DEF Client, Opening, Polls, OnPolling, Pauses, Upgrading, Upgraded, OnWebsocket, Running
  <2>2. s.polling /\ ~s.threw
    BY <1>2, <2>1 DEF Client, Gets
  <2>3. ~Upgraded(s)
    BY <2>2 DEF Upgraded, OnWebsocket
  <2> QED
    BY <2>2, <2>3 DEF Client, Opening, Polls, OnPolling, Pauses, Upgrading
<1>6. ~Ended(s) => Opening(s) \/ Polls(s) \/ Pauses(s)
  BY <1>5 DEF Client, Upgraded, OnWebsocket
<1> HIDE DEF c
<1>7. PICK r : Follows(r, c, q)
  BY FollowsExist
<1>8. Answered(s, c)
  BY <1>3, <1>4 DEF Answered, c
<1> HIDE DEF d
<1>9. Chain(s, q, r)
  BY <1>1, <1>7, <1>8 DEF Follows, Chain, d
<1> QED
  BY <1>5, <1>6, <1>9

(* The answer to a GET.                                                    *)
LEMMA OnDataGoes ==
  ASSUME NEW s, Client(s), s.gets > 0, NEW q \in Seq(Sendable), q # <<>>,
         \/ Ended(s)
         \/ q = <<ClosePacket>>
         \/ Opening(s) /\ q[1] = Packet("open") /\ \A k \in 2 .. Len(q) : q[k] \in Incoming
         \/ ~Opening(s) /\ \A k \in 1 .. Len(q) : q[k] \in Incoming
  PROVE  LET t == OnData(s, EncodePayload(q)) IN Goes(s, t) /\ Later(t)
<1>1. PICK r : Chain(s, q, r)
  BY OnDataChain
<1> DEFINE c == r[0]
           d == r[Len(q)]
           t == AfterPackets(d)
<1>2. OnData(s, EncodePayload(q)) = t
  BY <1>1 DEF Chain
<1>3. /\ Typed(c) /\ c.gets = 0 /\ ~c.sendThrew /\ c.transport = s.transport
      /\ c.threw = s.threw /\ c.polling = s.polling
  BY <1>1 DEF Chain, Answered
<1>4. /\ Opening(s) <=> Opening(c)
      /\ Polls(s) => Polls(c)
      /\ Pauses(s) => Pauses(c)
      /\ Ended(s) <=> Ended(c)
  BY <1>1 DEF Chain, Answered
<1>5. ~Ended(s) => s.polling /\ ~s.threw /\ s.transport = "polling"
  BY OnDataChain
<1>6. ~Ended(s) => Opening(s) \/ Polls(s) \/ Pauses(s)
  BY OnDataChain
<1>8. /\ r[0] = c /\ d = r[Len(q)] /\ Len(q) \in Nat /\ Len(q) > 0
      /\ \A k \in 1 .. Len(q) : r[k] = OnPayloadPacket(r[k - 1], q[k])
  BY <1>1 DEF Chain
<1> HIDE DEF c, d
<1>9. /\ Later(d) /\ d.gets = 0 /\ ~d.sendThrew /\ d.transport = s.transport
      /\ ~Ended(d) => d.polling /\ d.transport = "polling"
      /\ Ended(s) => Ended(d)
  <2>0. 0 \in 0 .. Len(q) /\ 1 \in 0 .. Len(q) /\ 1 \in 1 .. Len(q) /\ 0 + 1 = 1 /\ 1 + 1 = 2
        /\ 1 - 1 = 0
    BY <1>8
  <2>1. CASE Ended(s)
    <3>1. Later(c) /\ Ended(c)
      BY <1>3, <1>4, <2>1 DEF Later
    <3>2. /\ Later(d) /\ d.gets = c.gets /\ d.sendThrew = c.sendThrew
          /\ d.transport = c.transport /\ Ended(d)
      BY <1>8, <2>0, <3>1, PayloadKeeps
    <3> QED
      BY <1>3, <3>2
  <2>2. CASE ~Ended(s) /\ q = <<ClosePacket>>
    <3>1. Len(q) = 1 /\ q[1] = ClosePacket
      BY <2>2
    <3>2. d = OnPayloadPacket(c, ClosePacket)
      BY <1>8, <2>0, <3>1
    <3>3. Opening(c) \/ Polls(c) \/ Pauses(c)
      BY <1>4, <1>6, <2>2
    <3>4. /\ Typed(d) /\ d.gets = c.gets /\ d.sendThrew = c.sendThrew
          /\ d.transport = c.transport /\ Ended(d)
      BY <1>3, <1>5, <2>2, <3>2, <3>3, PayloadCloseEnds
    <3> QED
      BY <1>3, <2>2, <3>4 DEF Later
  <2>3. CASE /\ ~Ended(s) /\ Opening(s) /\ q[1] = Packet("open")
             /\ \A k \in 2 .. Len(q) : q[k] \in Incoming
    <3>1. r[1] = OnPayloadPacket(c, Packet("open"))
      BY <1>8, <2>0, <2>3
    <3>2. Typed(r[1]) /\ Polls(r[1]) /\ Same(c, r[1])
      BY <1>3, <1>4, <2>3, <3>1, PayloadOpenGoes
    <3> DEFINE b == r[1]
    <3>3. Later(b) /\ ~Ended(b)
      BY <3>2 DEF Later, Polls, OnPolling, Running, Ended
    <3>4. \A k \in 1 + 1 .. Len(q) : r[k] = OnPayloadPacket(r[k - 1], q[k]) /\ q[k] \in Incoming
      BY <1>8, <2>0, <2>3
    <3>5. r[1] = b
      OBVIOUS
    <3> HIDE DEF b
    <3>6. /\ Later(d) /\ d.gets = b.gets /\ d.sendThrew = b.sendThrew
          /\ d.transport = b.transport /\ d.polling = b.polling
      <4>1. /\ \A k \in 1 + 1 .. Len(q) : r[k] = OnPayloadPacket(r[k - 1], q[k])
            /\ \A k \in 1 + 1 .. Len(q) : q[k] \in Incoming
        BY <3>4
      <4>2. LET e == r[Len(q)]
            IN  /\ Later(e) /\ e.gets = b.gets /\ e.sendThrew = b.sendThrew
                /\ e.transport = b.transport
                /\ ~Ended(b) => e.polling = b.polling
                /\ Ended(b) => Ended(e) /\ e.heard = b.heard
        BY <2>0, <3>3, <3>5, <4>1, PayloadKeeps
      <4> QED
        BY <1>8, <3>3, <4>2, Zenon
    <3> QED
      BY <1>3, <1>5, <2>3, <3>2, <3>6 DEF Same, Steady, b
  <2>4. CASE ~Ended(s) /\ ~Opening(s) /\ \A k \in 1 .. Len(q) : q[k] \in Incoming
    <3>1. Later(c) /\ ~Ended(c)
      BY <1>3, <1>4, <1>6, <2>4 DEF Later
    <3>2. /\ Later(d) /\ d.gets = c.gets /\ d.sendThrew = c.sendThrew
          /\ d.transport = c.transport /\ d.polling = c.polling
      BY <1>8, <2>0, <2>4, <3>1, PayloadKeeps
    <3> QED
      BY <1>3, <1>5, <2>4, <3>2
  <2> QED
    BY <2>1, <2>2, <2>3, <2>4
<1>10. /\ Later(t) /\ Client(t)
       /\ Ended(d) => Ended(t)
       /\ d.transport = "websocket" => t.transport = "websocket"
       /\ t.transport # d.transport => t.gets = 0 /\ t.posts = <<>>
  BY <1>9, AfterPayload
<1> HIDE DEF t
<1>11. ~Opening(t)
  BY <1>10 DEF Later, Opening, Polls, OnPolling, Pauses, Upgrading, Upgraded, OnWebsocket,
               Running, Ended
<1> QED
  BY <1>2, <1>5, <1>9, <1>10, <1>11 DEF Goes

(* Steps that leave GETs and exceptions alone.                             *)
LEMMA SteadyGoes ==
  ASSUME NEW s, Client(s), NEW t, Later(t), Steady(s, t),
         Ended(s) => Ended(t)
  PROVE  Goes(s, t)
<1>1. ~Opening(t)
  BY DEF Later, Opening, Polls, OnPolling, Pauses, Upgrading, Upgraded, OnWebsocket,
         Running, Ended
<1>2. t.readyState # "closed" => s.readyState # "closed"
  <2>1. s.readyState = "closed" => Ended(s)
    BY DEF Client, Opening, Polls, OnPolling, Pauses, Upgrading, Upgraded, OnWebsocket, Running
  <2> QED
    BY <2>1 DEF Ended
<1>3. Gets(t)
  BY <1>2 DEF Client, Gets, Steady
<1> QED
  BY <1>1, <1>3 DEF Goes, Client, Later, Steady

(* Socket.onClose, after a step that changed only what does not matter     *)
(* then.                                                                   *)
LEMMA CloseGoes ==
  ASSUME NEW s, Client(s), NEW a, Typed(a),
         a.readyState = s.readyState, a.closeWait = s.closeWait,
         a.writeBuffer = s.writeBuffer, a.prevBufferLen = s.prevBufferLen,
         a.pollState = s.pollState, a.transport = s.transport,
         a.sendThrew = s.sendThrew, a.heard = s.heard, a.gets \in 0 .. 1
  PROVE  /\ Goes(s, OnClose(a)) /\ Ended(OnClose(a)) /\ OnClose(a).heard = s.heard
<1> DEFINE t == OnClose(a)
<1>1. CASE s.readyState = "closed"
  <2>1. Ended(s)
    BY <1>1 DEF Client, Opening, Polls, OnPolling, Pauses, Upgrading, Upgraded, OnWebsocket,
                Running
  <2>2. Ended(a)
    BY <2>1 DEF Ended
  <2>3. t = a
    BY <2>2, EndedStays
  <2> HIDE DEF t
  <2> QED
    BY <2>2, <2>3 DEF Goes, Client, Gets, Opening, Ended, t
<1>2. CASE s.readyState # "closed"
  <2>1. s.transport = "websocket" => s.pollState = "paused"
    BY <1>2 DEF Client, Opening, Polls, OnPolling, Pauses, Upgrading, Upgraded, OnWebsocket,
                Ended
  <2>2. Typed(t) /\ Ended(t) /\ Same(a, t)
    BY <1>2, <2>1, OnCloseEnds
  <2> HIDE DEF t
  <2>3. ~Opening(t)
    BY <2>2 DEF Ended, Opening
  <2>4. Gets(t)
    BY <2>2 DEF Ended, Gets, Same, Steady
  <2> QED
    BY <2>2, <2>3, <2>4 DEF Goes, Client, Same, Steady, t
<1> QED
  BY <1>1, <1>2

(* Manager._packet.                                                        *)
LEMMA AppWriteGoes ==
  ASSUME Client(client), client.readyState = "open"
  PROVE  Goes(client, Write(client)) /\ Write(client).heard = client.heard
<1>1. Later(client) /\ ~Ended(client)
  BY DEF Client, Later, Opening, Ended
<1>2. Later(Write(client)) /\ Same(client, Write(client))
  BY <1>1, WriteKeeps
<1> QED
  BY <1>1, <1>2, SteadyGoes DEF Same

(* Socket.close.                                                           *)
LEMMA AppCloseGoes ==
  ASSUME Client(client), client.readyState \in {"opening", "open"}
  PROVE  /\ Goes(client, Close(client)) /\ Close(client).heard = client.heard
         /\ Opening(client) => Ended(Close(client))
<1> DEFINE s == client
           c == [s EXCEPT !.readyState = "closing"]
           a == [c EXCEPT !.closeWait = "drain"]
           b == [c EXCEPT !.closeWait = "upgrade"]
<1>0. Typed(s)
  BY DEF Client
<1>1. Close(s) = IF s.writeBuffer # <<>> THEN a ELSE IF s.upgrading THEN b ELSE OnClose(c)
  BY DEF Close
<1>2. Opening(s) \/ Polls(s) \/ Pauses(s) \/ Upgraded(s)
  BY DEF Client, Ended
<1>3. ~Ended(s)
  BY DEF Ended
<1>4. CASE s.writeBuffer # <<>>
  <2>1. Typed(a) /\ Same(s, a)
    BY <1>0 DEF Typed, Fields, Same, Steady
  <2>2. Polls(s) => Polls(a)
    BY <1>0, <1>4 DEF Typed, Fields, Polls, OnPolling, Probing, Waits, OnePost, Running
  <2>3. Pauses(s) => Pauses(a)
    BY <1>0, <1>4 DEF Typed, Fields, Pauses, Upgrading, Quiet, Awaited, Waits, OnePost, Running
  <2>4. Upgraded(s) => Upgraded(a)
    BY <1>0, <1>4 DEF Typed, Fields, Upgraded, OnWebsocket, Waits, Running
  <2>5. ~Opening(s)
    BY <1>4 DEF Opening
  <2> HIDE DEF a, s
  <2>6. Later(a)
    BY <1>2, <2>1, <2>2, <2>3, <2>4, <2>5 DEF Later
  <2>7. Goes(s, a)
    BY <1>3, <2>1, <2>6, SteadyGoes DEF s, Same
  <2> QED
    BY <1>1, <1>4, <2>1, <2>5, <2>7 DEF Same, s
<1>5. CASE s.writeBuffer = <<>> /\ s.upgrading
  <2>1. Typed(b) /\ Same(s, b)
    BY <1>0 DEF Typed, Fields, Same, Steady
  <2>2. Pauses(s)
    BY <1>2, <1>5 DEF Opening, Polls, OnPolling, Upgraded, OnWebsocket
  <2>3. Pauses(b)
    BY <1>0, <1>5, <2>2
       DEF Typed, Fields, Pauses, Upgrading, Quiet, Awaited, Waits, OnePost, Running
  <2>5. ~Opening(s)
    BY <1>5 DEF Opening
  <2> HIDE DEF b, s
  <2>6. Later(b)
    BY <2>1, <2>3 DEF Later
  <2>7. Goes(s, b)
    BY <1>3, <2>1, <2>6, SteadyGoes DEF s, Same
  <2> QED
    BY <1>1, <1>5, <2>1, <2>5, <2>7 DEF Same, s
<1>6. CASE s.writeBuffer = <<>> /\ ~s.upgrading
  <2>1. Typed(c) /\ Same(s, c) /\ c.readyState # "closed" /\ c.pollState = s.pollState
    BY <1>0 DEF Typed, Fields, Same, Steady
  <2>2. s.transport = "websocket" => s.pollState = "paused"
    BY <1>2 DEF Opening, Polls, OnPolling, Pauses, Upgrading, Upgraded, OnWebsocket
  <2> DEFINE t == OnClose(c)
  <2> HIDE DEF c
  <2>3. Typed(t) /\ Ended(t) /\ Same(c, t)
    BY <2>1, <2>2, OnCloseEnds DEF Same, Steady
  <2>4. Close(s) = t
    BY <1>1, <1>6
  <2> HIDE DEF t, s
  <2>5. Gets(t) /\ ~Opening(t) /\ Client(t)
    BY <2>1, <2>3 DEF Client, Gets, Same, Steady, Ended, Opening, s
  <2> QED
    BY <2>1, <2>3, <2>4, <2>5 DEF Goes, Same, Steady, s
<1> QED
  BY <1>4, <1>5, <1>6

(* The timer of WS.write.                                                  *)
LEMMA WebsocketDrainGoes ==
  ASSUME Client(client), WebsocketDrain
  PROVE  /\ Goes(client, client') /\ client'.heard = client.heard
         /\ Opening(client) => Opening(client')
<1> DEFINE s == [client EXCEPT !.wsTimers = @ - 1, !.wsWritable = TRUE]
           t == OnDrain(s)
<1>1. /\ Typed(client) /\ client.wsTimers > 0
      /\ client' = IF s.transport = "websocket" /\ Live THEN t ELSE s
  BY DEF Client, WebsocketDrain
<1>2. Typed(s) /\ Same(client, s)
  BY <1>1 DEF Typed, Fields, Same, Steady
<1>3. CASE client.transport = "websocket" /\ Live
  <2>1. Upgraded(client)
    BY <1>3 DEF Client, Live, Opening, Polls, OnPolling, Pauses, Upgrading, Ended
  <2>2. OnWebsocket(s) /\ Waits(s)
    BY <1>1, <2>1 DEF Typed, Fields, Upgraded, OnWebsocket, Running, Waits
  <2>3. client' = t
    BY <1>1, <1>2, <1>3 DEF Same, Steady
  <2> HIDE DEF s
  <2>4. (Upgraded(t) \/ Ended(t)) /\ Same(s, t) /\ Typed(t)
    BY <1>2, <2>2, DrainWebsocket
  <2> HIDE DEF t
  <2>5. Later(t) /\ Steady(client, t) /\ t.heard = client.heard /\ ~Ended(client) /\ ~Opening(client)
    BY <1>2, <2>1, <2>4
       DEF Later, Same, Steady, Upgraded, OnWebsocket, Ended, Opening, Running
  <2>6. Goes(client, t)
    BY <2>5, SteadyGoes
  <2> QED
    BY <2>3, <2>5, <2>6
<1>4. CASE ~(client.transport = "websocket" /\ Live)
  <2>1. client' = s
    BY <1>1, <1>2, <1>4 DEF Same, Steady
  <2>2. Opening(client) => Opening(s)
    BY <1>1 DEF Typed, Fields, Opening
  <2>3. Polls(client) => Polls(s)
    BY <1>1 DEF Typed, Fields, Polls, OnPolling, Probing, Waits, OnePost, Running
  <2>4. Pauses(client) => Pauses(s)
    BY <1>1 DEF Typed, Fields, Pauses, Upgrading, Quiet, Awaited, Waits, OnePost, Running
  <2>5. Ended(client) => Ended(s)
    BY <1>1 DEF Typed, Fields, Ended
  <2>6. ~Upgraded(client)
    BY <1>4 DEF Upgraded, OnWebsocket, Running, Live
  <2>7. Opening(s) => Opening(client)
    BY <1>1 DEF Typed, Fields, Opening
  <2>8. s.readyState = client.readyState
    BY <1>1 DEF Typed, Fields
  <2> HIDE DEF s
  <2>9. Gets(s)
    BY <1>2, <2>8 DEF Client, Gets, Same, Steady
  <2> QED
    BY <1>2, <2>1, <2>2, <2>3, <2>4, <2>5, <2>6, <2>7, <2>9 DEF Goes, Client, Same, Steady
<1> QED
  BY <1>3, <1>4

(* A list without one of its things.                                       *)
LEMMA Removed ==
  ASSUME NEW posts \in Seq(Posts), NEW i \in 1 .. Len(posts)
  PROVE  /\ RemoveAt(posts, i) \in Seq(Posts)
         /\ Len(RemoveAt(posts, i)) = Len(posts) - 1
<1> DEFINE a == SubSeq(posts, 1, i - 1)
           b == SubSeq(posts, i + 1, Len(posts))
<1>1. /\ a \in Seq(Posts) /\ Len(a) = i - 1
      /\ b \in Seq(Posts) /\ Len(b) = Len(posts) - i
  OBVIOUS
<1>2. RemoveAt(posts, i) = a \o b
  BY DEF RemoveAt
<1> HIDE DEF a, b
<1>3. a \o b \in Seq(Posts) /\ Len(a \o b) = Len(a) + Len(b)
  BY <1>1
<1>4. (i - 1) + (Len(posts) - i) = Len(posts) - 1
  OBVIOUS
<1> QED
  BY <1>1, <1>2, <1>3, <1>4

(* The answer to a POST.                                                   *)
LEMMA PostAnsweredGoes ==
  ASSUME Client(client), PostAnswered
  PROVE  /\ Goes(client, client') /\ client'.heard = client.heard
         /\ ~Opening(client)
<1>0. Typed(client)
  BY DEF Client
<1>1. PICK i \in 1 .. Len(client.posts) :
        LET s == [client EXCEPT !.posts = RemoveAt(@, i), !.pollWritable = TRUE]
        IN  client' = IF Live THEN PausedBy(OnDrain(s), "drain") ELSE s
  BY DEF PostAnswered
<1> DEFINE rest == RemoveAt(client.posts, i)
           s == [client EXCEPT !.posts = rest, !.pollWritable = TRUE]
           t == OnDrain(s)
           u == PausedBy(t, "drain")
           w == [t EXCEPT !.pauseFor = @ \ {"drain"}]
           v == [w EXCEPT !.pollState = "paused"]
<1>2. client' = IF Live THEN u ELSE s
  BY <1>1
<1>3. rest \in Seq(Posts) /\ Len(rest) = Len(client.posts) - 1 /\ Len(client.posts) \in Nat
  <2>1. client.posts \in Seq(Posts)
    BY <1>0 DEF Typed
  <2> QED
    BY <2>1, Removed
<1>4. Typed(s) /\ Same(client, s)
  BY <1>0, <1>3 DEF Typed, Fields, Same, Steady
<1>5. client.posts # <<>>
  BY <1>0 DEF Typed
<1>6. ~Opening(client) /\ ~Upgraded(client)
  BY <1>5 DEF Opening, Upgraded, OnWebsocket
<1>7. u = IF "drain" \in t.pauseFor /\ w.pauseFor = {} THEN SwitchTransport(v) ELSE w
  BY DEF PausedBy
<1>8. CASE Ended(client)
  <2>1. client' = s
    BY <1>2, <1>8 DEF Live, Ended
  <2>2. Ended(s)
    BY <1>0, <1>8 DEF Typed, Fields, Ended
  <2> HIDE DEF s
  <2>3. Gets(s) /\ ~Opening(s)
    BY <1>4, <2>2 DEF Client, Gets, Same, Steady, Ended, Opening
  <2> QED
    BY <1>4, <1>6, <2>1, <2>2, <2>3 DEF Goes, Client, Same, Steady
<1>9. CASE Polls(client)
  <2>1. client' = u /\ ~Ended(client)
    BY <1>2, <1>9 DEF Live, Polls, OnPolling, Running, Ended
  <2>2. ~client.pollWritable /\ Len(client.posts) = 1
        /\ client.prevBufferLen \in 1 .. Len(client.writeBuffer) /\ Len(client.writeBuffer) \in Nat
    BY <1>0, <1>3, <1>9 DEF Polls, OnPolling, OnePost, Typed
  <2>3. /\ Running(s) /\ s.transport = "polling" /\ s.pollState = "open"
        /\ ~s.upgrading /\ s.pauseFor = {} /\ Probing(s) /\ s.pollWritable /\ Len(s.posts) = 0
        /\ s.prevBufferLen \in 0 .. Len(s.writeBuffer) /\ Waits(s) /\ s.polling
        /\ s.up \in Seq(ProbeFrames)
    BY <1>0, <1>3, <1>9, <2>2
       DEF Typed, Fields, Polls, OnPolling, Probing, OnePost, Running, Waits
  <2> HIDE DEF s
  <2>4. (Polls(t) \/ Ended(t)) /\ Same(s, t) /\ Typed(t)
    BY <1>4, <2>3, DrainPolling
  <2> HIDE DEF t
  <2>5. Typed(w) /\ Same(t, w)
    BY <2>4 DEF Typed, Fields, Same, Steady
  <2>6. CASE Polls(t)
    <3>1. t.pauseFor = {}
      BY <2>6 DEF Polls, OnPolling
    <3>2. u = w
      BY <1>7, <3>1
    <3>3. Polls(w)
      BY <2>4, <2>6 DEF Typed, Fields, Polls, OnPolling, Probing, Waits, OnePost, Running
    <3> HIDE DEF w, u
    <3>4. Later(u) /\ Steady(client, u) /\ u.heard = client.heard
      BY <1>4, <2>4, <2>5, <3>2, <3>3 DEF Later, Same, Steady
    <3>5. Goes(client, u)
      BY <2>1, <3>4, SteadyGoes
    <3> QED
      BY <1>6, <2>1, <3>4, <3>5
  <2>7. CASE Ended(t)
    <3>1. Ended(w)
      BY <2>4, <2>7 DEF Typed, Fields, Ended
    <3>2. Typed(v) /\ Ended(v) /\ Same(w, v)
      BY <2>5, <3>1 DEF Typed, Fields, Ended, Same, Steady
    <3> HIDE DEF w, v
    <3>3. SwitchTransport(v) = v
      BY <3>2, EndedStays
    <3>4. Typed(u) /\ Ended(u) /\ Same(w, u)
      BY <1>7, <2>5, <3>1, <3>2, <3>3 DEF Same, Steady
    <3> HIDE DEF u
    <3>5. Later(u) /\ Steady(client, u) /\ u.heard = client.heard
      BY <1>4, <2>4, <2>5, <3>4 DEF Later, Same, Steady
    <3>6. Goes(client, u)
      BY <2>1, <3>5, SteadyGoes
    <3> QED
      BY <1>6, <2>1, <3>5, <3>6
  <2> QED
    BY <2>4, <2>6, <2>7
<1>10. CASE Pauses(client)
  <2>1. client' = u /\ ~Ended(client)
    BY <1>2, <1>10 DEF Live, Pauses, Upgrading, Running, Ended
  <2>2. ~client.pollWritable /\ Len(client.posts) = 1
        /\ client.prevBufferLen \in 1 .. Len(client.writeBuffer) /\ Len(client.writeBuffer) \in Nat
    BY <1>0, <1>3, <1>10 DEF Pauses, Upgrading, OnePost, Typed
  <2>3. /\ Running(s) /\ s.transport = "polling" /\ s.upgrading /\ s.pingTimer
        /\ s.pollWritable /\ Len(s.posts) = 0
        /\ \/ s.probe = "pausing" /\ s.wsState = "open"
           \/ s.probe = "failed" /\ s.wsState = "closed"
        /\ s.prevBufferLen \in 0 .. Len(s.writeBuffer) /\ Waits(s) /\ s.up \in Seq(ProbeFrames)
    BY <1>0, <1>3, <1>10, <2>2
       DEF Typed, Fields, Pauses, Upgrading, OnePost, Running, Waits
  <2>4. /\ s.pollState = "pausing" /\ "drain" \in s.pauseFor
        /\ s.pauseFor \ {"drain"} = (IF s.polling THEN {"pollComplete"} ELSE {})
    BY <1>0, <1>10, <2>2 DEF Typed, Fields, Pauses, Quiet, Awaited
  <2> HIDE DEF s
  <2>5. /\ Typed(t) /\ Upgrading(t) /\ t.pollWritable /\ Same(s, t)
        /\ t.pauseFor = s.pauseFor /\ t.pollState = s.pollState
    BY <1>4, <2>3, DrainPausing
  <2> HIDE DEF t
  <2>6. Awaited(t) = t.pauseFor \ {"drain"}
    BY <2>4, <2>5 DEF Awaited, Same, Steady
  <2> HIDE DEF u
  <2>7. /\ Typed(u) /\ (Pauses(u) \/ Upgraded(u) \/ Ended(u))
        /\ u.gets = t.gets /\ u.threw = t.threw /\ u.sendThrew = t.sendThrew
        /\ u.heard = t.heard /\ u.polling = t.polling
        /\ u.transport # t.transport => ~t.polling /\ u.posts = <<>>
    BY <2>4, <2>5, <2>6, PausedByGoes DEF u
  <2>8. client.readyState # "closed"
    BY <1>10 DEF Pauses, Upgrading, Running
  <2>9. /\ u.gets = client.gets /\ u.threw = client.threw /\ u.sendThrew = client.sendThrew
        /\ u.heard = client.heard /\ u.polling = client.polling
        /\ u.transport # client.transport => ~client.polling /\ u.posts = <<>>
    BY <1>4, <2>5, <2>7 DEF Same, Steady
  <2>10. Gets(u) /\ (~client.polling => u.gets = 0)
    BY <2>8, <2>9 DEF Client, Gets
  <2>11. ~Opening(u)
    BY <2>7 DEF Opening, Pauses, Upgrading, Upgraded, OnWebsocket, Running, Ended
  <2>12. client.transport # "websocket"
    BY <1>10 DEF Pauses, Upgrading
  <2> QED
    BY <1>6, <2>1, <2>7, <2>9, <2>10, <2>11, <2>12 DEF Goes, Client
<1> QED
  BY <1>6, <1>8, <1>9, <1>10 DEF Client

(* Timeouts and failures end the connection.                               *)
LEMMA FailureGoes ==
  ASSUME Client(client), PingTimeout \/ PollFailed \/ PostFailed
  PROVE  Goes(client, client') /\ Ended(client') /\ client'.heard = client.heard
<1>0. Typed(client) /\ client.gets \in 0 .. 1 /\ ~client.sendThrew
  BY DEF Client, Gets
<1>1. CASE PingTimeout
  BY <1>0, <1>1, CloseGoes DEF PingTimeout
<1>2. CASE PollFailed
  <2> DEFINE a == [client EXCEPT !.gets = @ - 1]
  <2>1. client' = OnClose(a) /\ client.gets = 1
    BY <1>0, <1>2 DEF PollFailed
  <2>2. /\ Typed(a)
        /\ a.readyState = client.readyState /\ a.closeWait = client.closeWait
        /\ a.writeBuffer = client.writeBuffer /\ a.prevBufferLen = client.prevBufferLen
        /\ a.pollState = client.pollState /\ a.transport = client.transport
        /\ a.sendThrew = client.sendThrew /\ a.heard = client.heard /\ a.gets \in 0 .. 1
    BY <1>0, <2>1 DEF Typed, Fields
  <2> HIDE DEF a
  <2> QED
    BY <2>1, <2>2, CloseGoes
<1>3. CASE PostFailed
  <2>1. PICK i \in 1 .. Len(client.posts) :
          client' = OnClose([client EXCEPT !.posts = RemoveAt(@, i)])
    BY <1>3 DEF PostFailed
  <2> DEFINE rest == RemoveAt(client.posts, i)
             a == [client EXCEPT !.posts = rest]
  <2>2. client' = OnClose(a)
    BY <2>1
  <2>3. rest \in Seq(Posts)
    <3>1. client.posts \in Seq(Posts)
      BY <1>0 DEF Typed
    <3> QED
      BY <3>1, Removed
  <2> HIDE DEF rest
  <2>4. /\ Typed(a)
        /\ a.readyState = client.readyState /\ a.closeWait = client.closeWait
        /\ a.writeBuffer = client.writeBuffer /\ a.prevBufferLen = client.prevBufferLen
        /\ a.pollState = client.pollState /\ a.transport = client.transport
        /\ a.sendThrew = client.sendThrew /\ a.heard = client.heard /\ a.gets \in 0 .. 1
    BY <1>0, <2>3 DEF Typed, Fields
  <2> HIDE DEF a
  <2> QED
    BY <2>2, <2>4, CloseGoes
<1> QED
  BY <1>1, <1>2, <1>3

(* The websocket of the probe opens.                                       *)
LEMMA WebsocketOpenGoes ==
  ASSUME Client(client), WebsocketOpen
  PROVE  /\ Goes(client, client') /\ client'.heard = client.heard
         /\ ~Opening(client)
<1> DEFINE q == <<ProbePacket("ping")>>
           a == [client EXCEPT !.wsState = "open", !.probe = "ping"]
<1>1. Typed(client) /\ client.wsState = "opening" /\ client' = WebsocketWrite(a, q)
  BY DEF Client, WebsocketOpen
<1>2. Typed(a) /\ Same(client, a)
  BY <1>1 DEF Typed, Fields, Same, Steady
<1>3. q \in Seq(Sendable)
  BY PacketFacts, TypeFacts
<1>4. Polls(client) \/ Ended(client)
  BY <1>1 DEF Client, Opening, Pauses, Upgrading, Upgraded, OnWebsocket
<1>5. Polls(client) => Polls(a)
  BY <1>1 DEF Typed, Fields, Polls, OnPolling, Probing, Waits, OnePost, Running
<1>6. Ended(client) => Ended(a)
  BY <1>1 DEF Typed, Fields, Ended
<1> DEFINE frames == [i \in DOMAIN q |-> EncodePacket(q[i], TRUE)]
<1>7. frames \in Seq(ProbeFrames)
  <2> DEFINE frame == EncodePacket(ProbePacket("ping"), TRUE)
  <2>1. frame \in ProbeFrames
    BY DEF ProbeFrames
  <2>2. DOMAIN q = 1 .. 1 /\ q[1] = ProbePacket("ping")
    OBVIOUS
  <2>3. frames = [i \in 1 .. 1 |-> frame]
    <3>1. \A i \in 1 .. 1 : q[i] = ProbePacket("ping")
      BY <2>2
    <3> QED
      BY <2>2, <3>1, Zenon
  <2> HIDE DEF frame, frames
  <2> QED
    BY <2>1, <2>3
<1> HIDE DEF q, a, frames
<1>8. PICK up \in Seq(Frames) :
        /\ client' = [a EXCEPT !.wsWritable = FALSE, !.wsTimers = a.wsTimers + 1, !.up = up]
        /\ up = a.up \o frames
  <2>1. \E up \in Seq(Frames) :
           /\ WebsocketWrite(a, q) =
                [a EXCEPT !.wsWritable = FALSE, !.wsTimers = a.wsTimers + 1, !.up = up]
           /\ up = a.up \o frames
    BY <1>2, <1>3, WebsocketWrites, Zenon DEF frames
  <2> QED
    BY <1>1, <2>1
<1> DEFINE t == [a EXCEPT !.wsWritable = FALSE, !.wsTimers = a.wsTimers + 1, !.up = up]
<1>9. Typed(t) /\ Same(a, t)
  BY <1>2 DEF Typed, Fields, Same, Steady
<1>10. Polls(a) => Polls(t)
  <2>1. Polls(a) => up \in Seq(ProbeFrames)
    BY <1>7, <1>8 DEF Polls, OnPolling
  <2> QED
    BY <1>2, <2>1 DEF Typed, Fields, Polls, OnPolling, Probing, Waits, OnePost, Running
<1>11. Ended(a) => Ended(t)
  BY <1>2 DEF Typed, Fields, Ended
<1>12. client' = t
  BY <1>8
<1> HIDE DEF t
<1>13. /\ Later(t) /\ Steady(client, t) /\ t.heard = client.heard
       /\ Ended(client) => Ended(t)
  BY <1>2, <1>4, <1>5, <1>6, <1>9, <1>10, <1>11 DEF Later, Same, Steady
<1>14. ~Opening(client)
  BY <1>1 DEF Opening
<1>15. Goes(client, t)
  BY <1>13, SteadyGoes
<1> QED
  BY <1>12, <1>13, <1>14, <1>15

(* What comes over the websocket is decoded to what was sent.              *)
LEMMA FrameDecoded ==
  ASSUME NEW p \in Sendable
  PROVE  DecodePacket(EncodePacket(p, TRUE)) = p
  BY PacketRoundTrip, Zenon DEF Carries

(* A frame of the websocket.                                               *)
LEMMA WebsocketMessageGoes ==
  ASSUME Client(client), WebsocketMessage,
         Ended(client) \/ \E p \in Incoming : Head(down) = EncodePacket(p, TRUE)
  PROVE  /\ Goes(client, client') /\ ~Opening(client)
         /\ Ended(client) => client'.heard = client.heard
         /\ ~Ended(client) =>
              \E p \in Incoming :
                 /\ Head(down) = EncodePacket(p, TRUE)
                 /\ client'.heard = IF client.probe = "ping" \/ p.type # "message"
                                   THEN client.heard ELSE Append(client.heard, Number(p))
<1>0. /\ Typed(client) /\ client.wsState = "open"
      /\ client' = IF client.probe = "ping" THEN ProbePong(client)
                   ELSE OnPacket(client, DecodePacket(Head(down)))
  BY DEF Client, WebsocketMessage
<1>1. ~Opening(client)
  BY <1>0 DEF Opening
<1>2. CASE client.probe = "ping" /\ ~Ended(client)
  <2>1. Polls(client)
    BY <1>1, <1>2 DEF Client, Pauses, Upgrading, Upgraded, OnWebsocket
  <2> DEFINE t == ProbePong(client)
  <2>2. Typed(t) /\ Pauses(t) /\ Same(client, t)
    BY <1>0, <1>2, <2>1, ProbePongGoes
  <2>3. client' = t
    BY <1>0, <1>2
  <2> HIDE DEF t
  <2>4. Goes(client, t)
    BY <1>2, <2>2, SteadyGoes DEF Later, Same
  <2>5. PICK p \in Incoming : Head(down) = EncodePacket(p, TRUE)
    BY <1>2
  <2>6. client'.heard = client.heard
    BY <2>2, <2>3 DEF Same
  <2> QED
    BY <1>1, <1>2, <2>3, <2>4, <2>5, <2>6
<1>3. CASE client.probe = "ping" /\ Ended(client)
  <2> DEFINE s == [client EXCEPT !.probe = "pausing", !.upgrading = TRUE]
             wait == (IF s.polling THEN {"pollComplete"} ELSE {})
                         \cup (IF s.pollWritable THEN {} ELSE {"drain"})
             a == [s EXCEPT !.pollState = "pausing", !.pauseFor = wait]
             v == [a EXCEPT !.pollState = "paused"]
  <2>1. client' = IF wait = {} THEN SwitchTransport(v) ELSE a
    BY <1>0, <1>3 DEF ProbePong, Pause
  <2>2. Typed(s) /\ Ended(s) /\ Same(client, s)
    BY <1>0, <1>3 DEF Typed, Fields, Ended, Same, Steady
  <2>3. wait \in SUBSET {"pollComplete", "drain"}
    OBVIOUS
  <2> HIDE DEF s, wait
  <2>4. Typed(a) /\ Ended(a) /\ Same(s, a)
    BY <2>2, <2>3 DEF Typed, Fields, Ended, Same, Steady
  <2> HIDE DEF a
  <2>5. Typed(v) /\ Ended(v) /\ Same(a, v)
    BY <2>4 DEF Typed, Fields, Ended, Same, Steady
  <2> HIDE DEF v
  <2>6. SwitchTransport(v) = v
    BY <2>5, EndedStays
  <2>7. /\ Typed(client') /\ Ended(client') /\ Steady(client, client')
        /\ client'.heard = client.heard
    BY <2>1, <2>2, <2>4, <2>5, <2>6 DEF Same, Steady
  <2>8. Goes(client, client')
    BY <2>7, SteadyGoes DEF Later
  <2> QED
    BY <1>1, <1>3, <2>7, <2>8
<1>4. CASE client.probe # "ping" /\ Ended(client)
  <2>1. client' = client
    BY <1>0, <1>4, EndedStays
  <2>2. Goes(client, client)
    BY DEF Goes
  <2> QED
    BY <1>1, <1>4, <2>1, <2>2
<1>5. CASE client.probe # "ping" /\ ~Ended(client)
  <2>1. PICK p \in Incoming : Head(down) = EncodePacket(p, TRUE)
    BY <1>5
  <2>2. p \in Sendable
    BY IncomingFacts
  <2>3. DecodePacket(EncodePacket(p, TRUE)) = p
    BY <2>2, FrameDecoded
  <2>4. DecodePacket(Head(down)) = p
    BY <2>1, <2>3, Zenon
  <2>5. client' = OnPacket(client, p)
    BY <1>0, <1>5, <2>4
  <2>6. Later(client)
    BY <1>1 DEF Client, Later
  <2>7. /\ Later(client') /\ Steady(client, client')
        /\ client'.heard = IF client.readyState = "closed" \/ p.type # "message"
                          THEN client.heard ELSE Append(client.heard, Number(p))
    BY <2>5, <2>6, OnPacketKeeps
  <2>8. Goes(client, client')
    BY <1>5, <2>7, SteadyGoes
  <2>9. client.readyState # "closed"
    BY <1>1, <1>5 DEF Client, Polls, OnPolling, Pauses, Upgrading, Upgraded, OnWebsocket, Running
  <2> QED
    BY <1>1, <1>5, <2>1, <2>7, <2>8, <2>9
<1> QED
  BY <1>2, <1>3, <1>4, <1>5

(* The websocket closes or fails.                                          *)
LEMMA WebsocketLostGoes ==
  ASSUME Client(client), WebsocketLost
  PROVE  /\ Goes(client, client') /\ client'.heard = client.heard /\ ~Opening(client)
         /\ Ended(client') \/ client'.transport = "polling"
<1>0. Typed(client) /\ client.wsState \in {"opening", "open"} /\ client.gets \in 0 .. 1
  BY DEF Client, Gets, WebsocketLost
<1>1. PICK k \in 0 .. Len(client.up) :
        LET s == [client EXCEPT !.wsState = "closed",
                                !.up = Append(SubSeq(@, 1, k), CloseFrame)]
        IN  client' = IF s.transport = "websocket" THEN OnClose(s)
                      ELSE EmitUpgrade(FreezeTransport(s))
  BY DEF WebsocketLost
<1> DEFINE up == Append(SubSeq(client.up, 1, k), CloseFrame)
           s == [client EXCEPT !.wsState = "closed", !.up = up]
           f == IF s.probe \in {"opening", "ping", "pausing"}
                THEN [s EXCEPT !.probe = "failed"] ELSE s
<1>2. up \in Seq(Frames)
  <2>1. client.up \in Seq(Frames)
    BY <1>0 DEF Typed
  <2>2. SubSeq(client.up, 1, k) \in Seq(Frames)
    BY <2>1
  <2>3. CloseFrame \in Frames
    BY DEF Frames
  <2> QED
    BY <2>2, <2>3
<1>3. client' = IF s.transport = "websocket" THEN OnClose(s) ELSE EmitUpgrade(FreezeTransport(s))
  BY <1>1
<1>13. client.up \in Seq(ProbeFrames) => up \in Seq(ProbeFrames)
  <2> SUFFICES ASSUME client.up \in Seq(ProbeFrames) PROVE up \in Seq(ProbeFrames)
    OBVIOUS
  <2>1. SubSeq(client.up, 1, k) \in Seq(ProbeFrames)
    OBVIOUS
  <2>2. CloseFrame \in ProbeFrames
    BY DEF ProbeFrames
  <2> QED
    BY <2>1, <2>2
<1> HIDE DEF up
<1>4. Typed(s) /\ Same(client, s) /\ s.wsState = "closed" /\ s.probe = client.probe
  BY <1>0, <1>2 DEF Typed, Fields, Same, Steady
<1>5. FreezeTransport(s) = f
  BY <1>4 DEF FreezeTransport, WebsocketClose
<1>6. Typed(f) /\ Same(s, f)
  BY <1>4 DEF Typed, Fields, Same, Steady
<1>7. ~Opening(client)
  BY <1>0 DEF Opening
<1>8. CASE Ended(client)
  <2>1. Ended(s)
    BY <1>0, <1>8 DEF Typed, Fields, Ended
  <2>2. Ended(f)
    BY <1>4, <2>1 DEF Typed, Fields, Ended
  <2> HIDE DEF s, f
  <2>3. client' = s \/ client' = f
    BY <1>3, <1>4, <1>5, <1>6, <2>1, <2>2, EndedStays
  <2>4. /\ Later(client') /\ Steady(client, client') /\ Ended(client')
        /\ client'.heard = client.heard
    BY <1>4, <1>6, <2>1, <2>2, <2>3 DEF Later, Same, Steady
  <2> QED
    BY <1>7, <2>4, SteadyGoes
<1>9. CASE Upgraded(client)
  <2>1. client' = OnClose(s)
    BY <1>3, <1>4, <1>9 DEF Upgraded, OnWebsocket, Same, Steady
  <2>2. /\ s.readyState = client.readyState /\ s.closeWait = client.closeWait
        /\ s.writeBuffer = client.writeBuffer /\ s.prevBufferLen = client.prevBufferLen
        /\ s.pollState = client.pollState /\ s.transport = client.transport
        /\ s.sendThrew = client.sendThrew /\ s.heard = client.heard /\ s.gets \in 0 .. 1
    BY <1>0 DEF Typed, Fields
  <2> HIDE DEF s
  <2> QED
    BY <1>4, <1>7, <2>1, <2>2, CloseGoes
<1>10. CASE Polls(client)
  <2>1. Polls(f)
    BY <1>0, <1>10, <1>13 DEF Typed, Fields, Polls, OnPolling, Probing, Waits, OnePost, Running
  <2>2. s.transport = "polling"
    BY <1>4, <1>10 DEF Polls, OnPolling, Same, Steady
  <2> HIDE DEF s, f
  <2>3. EmitUpgrade(f) = f
    BY <1>6, <2>1 DEF EmitUpgrade, Polls, OnPolling, Waits, Running, Typed
  <2>4. client' = f
    BY <1>3, <1>5, <2>2, <2>3
  <2>5. /\ Later(f) /\ Steady(client, f) /\ f.heard = client.heard
    BY <1>4, <1>6, <2>1 DEF Later, Same, Steady
  <2>6. ~Ended(client)
    BY <1>10 DEF Polls, OnPolling, Running, Ended
  <2>7. Goes(client, f)
    BY <2>5, <2>6, SteadyGoes
  <2>8. f.transport = "polling"
    BY <2>1 DEF Polls, OnPolling
  <2> QED
    BY <1>7, <2>4, <2>5, <2>7, <2>8
<1>11. CASE Pauses(client)
  <2>1. Pauses(f) /\ f.readyState = client.readyState
    BY <1>0, <1>11, <1>13 DEF Typed, Fields, Pauses, Upgrading, Quiet, Awaited, Waits, OnePost, Running
  <2>2. s.transport = "polling"
    BY <1>4, <1>11 DEF Pauses, Upgrading, Same, Steady
  <2>3. ~Ended(client)
    BY <1>11 DEF Pauses, Upgrading, Running, Ended
  <2>4. CASE f.closeWait # "upgrade"
    <3> HIDE DEF s, f
    <3>1. client' = f
      BY <1>3, <1>5, <2>2, <2>4 DEF EmitUpgrade
    <3>2. /\ Later(f) /\ Steady(client, f) /\ f.heard = client.heard
      BY <1>4, <1>6, <2>1 DEF Later, Same, Steady
    <3>3. Goes(client, f)
      BY <2>3, <3>2, SteadyGoes
    <3>4. f.transport = "polling"
      BY <2>1 DEF Pauses, Upgrading
    <3> QED
      BY <1>7, <3>1, <3>2, <3>3, <3>4
  <2>5. CASE f.closeWait = "upgrade"
    <3>1. /\ f.readyState = client.readyState /\ f.closeWait = client.closeWait
          /\ f.writeBuffer = client.writeBuffer /\ f.prevBufferLen = client.prevBufferLen
          /\ f.pollState = client.pollState /\ f.transport = client.transport
          /\ f.sendThrew = client.sendThrew /\ f.heard = client.heard /\ f.gets \in 0 .. 1
      BY <1>0 DEF Typed, Fields
    <3> HIDE DEF s, f
    <3>2. client' = OnClose(f)
      BY <1>3, <1>5, <2>2, <2>5 DEF EmitUpgrade
    <3> QED
      BY <1>6, <1>7, <3>1, <3>2, CloseGoes
  <2> QED
    BY <2>4, <2>5
<1> QED
  BY <1>7, <1>8, <1>9, <1>10, <1>11 DEF Client
-----------------------------------------------------------------------------
(* The server and what it has for the client.                              *)

(* The first packet of a session is the handshake.                         *)
Handshake(q) ==
  /\ q # <<>> /\ q[1] = Packet("open")
  /\ \A i \in 2 .. Len(q) : q[i] \in Incoming

Carried(frame) == \E p \in Incoming : frame = EncodePacket(p, TRUE)

(* What is on its way to a client, before its handshake and after it.      *)
ToOpening ==
  /\ srv \in {"none", "open", "closed"} /\ down = <<>>
  /\ IF srv = "open" THEN Handshake(srvQueue) ELSE srvQueue = <<>>

ToRunning ==
  /\ srv # "none"
  /\ \A i \in 1 .. Len(srvQueue) : srvQueue[i] \in Incoming
  /\ \A i \in 1 .. Len(down) : Carried(down[i])

Session ==
  /\ srv \in {"none", "open", "upgrading", "upgraded", "closed"}
  /\ srvQueue \in Seq(Sendable) /\ down \in Seq(Frames) /\ emitted \in Nat
  /\ Opening(client) => ToOpening
  /\ ~Opening(client) /\ ~Ended(client) => ToRunning

IInv == Client(client) /\ Session

(* A step of the client that takes nothing from the server.                *)
LEMMA ClientStep ==
  ASSUME IInv, Goes(client, client'), UNCHANGED <<srv, srvQueue, emitted, down>>,
         Opening(client) => Opening(client') \/ Ended(client')
  PROVE  IInv'
<1>1. Client(client') /\ (Opening(client') => Opening(client))
      /\ (Ended(client) => Ended(client'))
  BY DEF Goes
<1>2. ToOpening => ToOpening'
  BY DEF ToOpening
<1>3. ToRunning => ToRunning'
  BY DEF ToRunning
<1>4. Session'
  BY <1>1, <1>2, <1>3 DEF IInv, Session
<1> QED
  BY <1>1, <1>4 DEF IInv

(* At the beginning.                                                       *)
LEMMA InitIInv ==
  ASSUME Init
  PROVE  IInv
<1>1. PICK upgrades \in BOOLEAN : client = Connecting(upgrades)
  BY DEF Init
<1>2. Typed(client)
  BY <1>1 DEF Connecting, Typed, Fields
<1>3. Opening(client) /\ Gets(client) /\ ~client.sendThrew
  BY <1>1 DEF Connecting, Opening, Gets
<1>4. Client(client)
  BY <1>2, <1>3 DEF Client
<1>5. Session
  BY <1>3 DEF Init, Session, ToOpening
<1> QED
  BY <1>4, <1>5 DEF IInv

(* An answer to a GET.                                                     *)
LEMMA PollAnsweredKeeps ==
  ASSUME IInv, PollAnswered
  PROVE  IInv' /\ Goes(client, client')
<1>0. /\ Client(client) /\ client.gets > 0 /\ srv # "closed"
      /\ UNCHANGED <<srv, emitted, down>>
      /\ srvQueue \in Seq(Sendable)
  BY DEF IInv, Session, PollAnswered
<1>1. CASE /\ srv \in {"upgrading", "upgraded"}
           /\ client' = OnData(client, EncodePayload(<<Packet("noop")>>))
           /\ UNCHANGED srvQueue
  <2> DEFINE q == <<Packet("noop")>>
  <2>1. Packet("noop") \in Incoming /\ Packet("noop") \in Sendable
    BY IncomingFacts DEF Incoming
  <2>2. q \in Seq(Sendable) /\ q # <<>> /\ \A k \in 1 .. Len(q) : q[k] \in Incoming
    BY <2>1
  <2>3. ~Opening(client)
    BY <1>1 DEF IInv, Session, ToOpening
  <2>4. client' = OnData(client, EncodePayload(q))
    BY <1>1
  <2> HIDE DEF q
  <2>5. Goes(client, client')
    BY <1>0, <2>2, <2>3, <2>4, OnDataGoes
  <2> QED
    BY <1>0, <1>1, <2>3, <2>5, ClientStep
<1>2. CASE \E k \in 1 .. Len(srvQueue) :
             /\ client' = OnData(client, EncodePayload(SubSeq(srvQueue, 1, k)))
             /\ srvQueue' = SubSeq(srvQueue, k + 1, Len(srvQueue))
  <2>1. PICK k \in 1 .. Len(srvQueue) :
             /\ client' = OnData(client, EncodePayload(SubSeq(srvQueue, 1, k)))
             /\ srvQueue' = SubSeq(srvQueue, k + 1, Len(srvQueue))
    BY <1>2
  <2> DEFINE q == SubSeq(srvQueue, 1, k)
  <2>2. /\ q \in Seq(Sendable) /\ Len(q) = k /\ q # <<>>
        /\ \A i \in 1 .. k : q[i] = srvQueue[i]
    BY <1>0
  <2>3. /\ srvQueue' \in Seq(Sendable) /\ Len(srvQueue') = Len(srvQueue) - k
        /\ \A i \in 1 .. Len(srvQueue') : srvQueue'[i] = srvQueue[i + k]
    BY <1>0, <2>1
  <2>4. client' = OnData(client, EncodePayload(q))
    BY <2>1
  <2> HIDE DEF q
  <2>5. Opening(client) => Handshake(srvQueue) /\ srv = "open" /\ down = <<>>
    BY <2>2 DEF IInv, Session, ToOpening
  <2>6. ~Opening(client) /\ ~Ended(client) => ToRunning
    BY DEF IInv, Session
  <2>7. \/ Ended(client)
        \/ Opening(client) /\ q[1] = Packet("open") /\ \A i \in 2 .. Len(q) : q[i] \in Incoming
        \/ ~Opening(client) /\ \A i \in 1 .. Len(q) : q[i] \in Incoming
    BY <2>2, <2>5, <2>6 DEF Handshake, ToRunning
  <2>8. Goes(client, client') /\ Later(client')
    BY <1>0, <2>2, <2>4, <2>7, OnDataGoes
  <2>9. ~Opening(client')
    BY <2>8 DEF Later, Opening, Polls, OnPolling, Pauses, Upgrading, Upgraded, OnWebsocket,
                Running, Ended
  <2>10. ASSUME ~Ended(client')
         PROVE  ToRunning'
    <3>1. ~Ended(client)
      BY <2>8, <2>10 DEF Goes
    <3>2. /\ srv # "none" /\ \A i \in 2 .. Len(srvQueue) : srvQueue[i] \in Incoming
          /\ \A i \in 1 .. Len(down) : Carried(down[i])
      BY <1>0, <2>5, <2>6, <3>1 DEF Handshake, ToRunning
    <3> QED
      BY <1>0, <2>1, <2>3, <3>2 DEF ToRunning
  <2>11. Session'
    BY <1>0, <2>3, <2>9, <2>10 DEF IInv, Session
  <2> QED
    BY <2>8, <2>11 DEF Goes, IInv
<1> QED
  BY <1>1, <1>2 DEF PollAnswered

(* The websocket's frames, and its end.                                    *)
LEMMA WebsocketKeeps ==
  ASSUME IInv, WebsocketMessage \/ WebsocketLost
  PROVE  IInv' /\ Goes(client, client')
<1>0. UNCHANGED <<srv, srvQueue, emitted>> /\ down \in Seq(Frames)
  BY DEF WebsocketMessage, WebsocketLost, server, IInv, Session
<1>1. Goes(client, client') /\ ~Opening(client)
  <2>1. CASE WebsocketLost
    BY <2>1, WebsocketLostGoes DEF IInv
  <2>2. CASE WebsocketMessage
    <3>1. ~Opening(client)
      BY <2>2 DEF WebsocketMessage, Opening
    <3>2. down # <<>>
      BY <2>2 DEF WebsocketMessage
    <3>3. Head(down) = down[1] /\ 1 \in 1 .. Len(down)
      BY <1>0, <3>2
    <3>4. Ended(client) \/ Carried(Head(down))
      BY <3>1, <3>3 DEF IInv, Session, ToRunning
    <3> QED
      BY <2>2, <3>4, WebsocketMessageGoes DEF Carried, IInv
  <2> QED
    BY <2>1, <2>2
<1>2. /\ down' \in Seq(Frames)
      /\ \A i \in 1 .. Len(down') : /\ i + 1 \in 1 .. Len(down)
                                    /\ down'[i] = down[i + 1]
  <2>1. CASE WebsocketLost
    <3>1. down' = <<>>
      BY <2>1 DEF WebsocketLost
    <3> QED
      BY <3>1
  <2>2. CASE WebsocketMessage
    <3>1. down # <<>> /\ down' = Tail(down)
      BY <2>2 DEF WebsocketMessage
    <3> DEFINE rest == Tail(down)
    <3>2. rest \in Seq(Frames) /\ Len(rest) = Len(down) - 1
      BY <1>0, <3>1
    <3>3. \A i \in 1 .. Len(rest) : i + 1 \in 1 .. Len(down) /\ rest[i] = down[i + 1]
      BY <1>0, <3>1, <3>2
    <3>4. down' = rest
      BY <3>1
    <3> HIDE DEF rest
    <3> QED
      BY <3>2, <3>3, <3>4
  <2> QED
    BY <2>1, <2>2
<1>4. ToRunning => ToRunning'
  BY <1>0, <1>2 DEF ToRunning
<1>5. Session'
  BY <1>0, <1>1, <1>2, <1>4 DEF IInv, Session, Goes
<1> QED
  BY <1>1, <1>5 DEF IInv, Goes

(* The server begins a session, and adds packets to it.                    *)
LEMMA ServerAddsKeeps ==
  ASSUME IInv, ServerHandshake \/ ServerSend \/ ServerPing
  PROVE  IInv' /\ UNCHANGED client
<1>0. /\ Client(client) /\ Session /\ UNCHANGED <<client, down>>
      /\ srvQueue \in Seq(Sendable) /\ emitted \in Nat
  BY DEF IInv, Session, ServerHandshake, ServerSend, ServerPing
<1>1. CASE ServerHandshake
  <2>1. srv = "none" /\ srv' = "open" /\ srvQueue' = <<Packet("open")>> /\ emitted' = emitted
    BY <1>1 DEF ServerHandshake
  <2>2. Packet("open") \in Sendable
    BY PacketFacts, TypeFacts
  <2>3. srvQueue' \in Seq(Sendable) /\ Handshake(srvQueue')
    BY <2>1, <2>2 DEF Handshake
  <2>4. Opening(client) \/ Ended(client)
    BY <1>0, <2>1 DEF Session, ToRunning
  <2>5. Opening(client) => ToOpening'
    BY <1>0, <2>1, <2>3 DEF Session, ToOpening
  <2>6. Session'
    BY <1>0, <2>1, <2>3, <2>4, <2>5 DEF Session
  <2> QED
    BY <1>0, <2>6 DEF IInv
<1>2. CASE ServerSend \/ ServerPing
  <2>1. \E p \in Incoming : srvQueue' = Append(srvQueue, p)
    <3>1. CASE ServerSend
      <4>1. emitted + 1 \in Nat /\ srvQueue' = Append(srvQueue, Message(emitted + 1))
        BY <1>0, <3>1 DEF ServerSend
      <4>2. Message(emitted + 1) \in Incoming
        BY <4>1 DEF Incoming
      <4> QED
        BY <4>1, <4>2
    <3>2. CASE ServerPing
      <4>1. srvQueue' = Append(srvQueue, Packet("ping"))
        BY <3>2 DEF ServerPing
      <4>2. Packet("ping") \in Incoming
        BY DEF Incoming
      <4> QED
        BY <4>1, <4>2
    <3> QED
      BY <1>2, <3>1, <3>2
  <2>2. PICK p \in Incoming : srvQueue' = Append(srvQueue, p)
    BY <2>1
  <2>3. /\ srv \in {"open", "upgrading", "upgraded"} /\ srv' = srv /\ emitted' \in Nat
    BY <1>0, <1>2 DEF ServerSend, ServerPing
  <2>4. p \in Sendable
    BY IncomingFacts
  <2>5. /\ srvQueue' \in Seq(Sendable) /\ Len(srvQueue') = Len(srvQueue) + 1
        /\ \A i \in 1 .. Len(srvQueue) : srvQueue'[i] = srvQueue[i]
        /\ srvQueue'[Len(srvQueue) + 1] = p
    BY <1>0, <2>2, <2>4
  <2>6. ToOpening => ToOpening'
    <3>1. Handshake(srvQueue) => Handshake(srvQueue')
      BY <1>0, <2>5 DEF Handshake
    <3> QED
      BY <1>0, <2>3, <3>1 DEF ToOpening
  <2>7. ToRunning => ToRunning'
    BY <1>0, <2>3, <2>5 DEF ToRunning
  <2>8. Session'
    BY <1>0, <2>3, <2>5, <2>6, <2>7 DEF Session
  <2> QED
    BY <1>0, <2>8 DEF IInv
<1> QED
  BY <1>1, <1>2

(* A POST reaches the server.                                              *)
LEMMA ServerPostKeeps ==
  ASSUME IInv, ServerPost
  PROVE  IInv' /\ Goes(client, client')
<1>0. /\ Client(client) /\ Session /\ Typed(client) /\ client.posts \in Seq(Posts)
      /\ UNCHANGED <<srvQueue, emitted, down>> /\ srv \in {"open", "upgrading"}
  BY DEF IInv, Client, Typed, ServerPost
<1>1. PICK i \in 1 .. Len(client.posts) :
        /\ client' = [client EXCEPT !.posts[i].got = TRUE]
        /\ srv' \in {srv, "closed"}
  BY DEF ServerPost
<1> DEFINE posts == [client.posts EXCEPT ![i] = [@ EXCEPT !.got = TRUE]]
           t == [client EXCEPT !.posts = posts]
<1>2. posts \in Seq(Posts) /\ Len(posts) = Len(client.posts) /\ posts # <<>>
  <2>1. client.posts[i] \in Posts
    BY <1>0
  <2>2. [client.posts[i] EXCEPT !.got = TRUE] \in Posts
    BY <2>1 DEF Posts
  <2> QED
    BY <1>0, <2>2
<1>3. client' = t
  BY <1>1
<1>4. client.posts # <<>>
  BY <1>0
<1> HIDE DEF posts
<1>5. Typed(t) /\ Same(client, t)
  BY <1>0, <1>2 DEF Typed, Fields, Same, Steady
<1>6. Polls(client) => Polls(t)
  BY <1>0, <1>2 DEF Typed, Fields, Polls, OnPolling, Probing, Waits, OnePost, Running
<1>7. Pauses(client) => Pauses(t)
  BY <1>0, <1>2 DEF Typed, Fields, Pauses, Upgrading, Quiet, Awaited, Waits, OnePost, Running
<1>8. Ended(client) => Ended(t)
  BY <1>0 DEF Typed, Fields, Ended
<1>9. ~Opening(client) /\ ~Upgraded(client)
  BY <1>4 DEF Opening, Upgraded, OnWebsocket
<1> HIDE DEF t
<1>10. Later(t)
  BY <1>0, <1>5, <1>6, <1>7, <1>8, <1>9 DEF Later, Client
<1>11. Goes(client, t)
  BY <1>0, <1>5, <1>8, <1>10, SteadyGoes DEF Same
<1>12. Session'
  <2>1. ToRunning => ToRunning'
    BY <1>0, <1>1 DEF ToRunning
  <2>2. ~Opening(t) /\ (Ended(client) => Ended(t))
    BY <1>9, <1>11 DEF Goes
  <2>3. srv' \in {"none", "open", "upgrading", "upgraded", "closed"}
    BY <1>0, <1>1
  <2>4. ~Opening(client') /\ (Ended(client) => Ended(client'))
    BY <1>3, <2>2
  <2> QED
    BY <1>0, <1>9, <2>1, <2>3, <2>4 DEF Session
<1> QED
  BY <1>3, <1>11, <1>12 DEF IInv, Goes

(* A frame of the websocket reaches the server.                            *)
LEMMA ServerFrameKeeps ==
  ASSUME IInv, ServerFrame
  PROVE  IInv' /\ Goes(client, client')
<1>0. /\ Client(client) /\ Session /\ Typed(client) /\ client.up \in Seq(Frames)
      /\ client.up # <<>> /\ emitted' = emitted /\ srvQueue \in Seq(Sendable)
      /\ down \in Seq(Frames) /\ client' = [client EXCEPT !.up = Tail(@)]
  BY DEF IInv, Client, Typed, ServerFrame, Session
<1> DEFINE up == Tail(client.up)
           t == [client EXCEPT !.up = up]
<1>1. up \in Seq(Frames)
  BY <1>0
<1>2. client' = t
  BY <1>0
<1>19. client.up \in Seq(ProbeFrames) => up \in Seq(ProbeFrames)
  BY <1>0
<1> HIDE DEF up
<1>3. Typed(t) /\ Same(client, t)
  BY <1>0, <1>1 DEF Typed, Fields, Same, Steady
<1>4. Polls(client) => Polls(t)
  BY <1>0, <1>19 DEF Typed, Fields, Polls, OnPolling, Probing, Waits, OnePost, Running
<1>5. Pauses(client) => Pauses(t)
  BY <1>0, <1>19 DEF Typed, Fields, Pauses, Upgrading, Quiet, Awaited, Waits, OnePost, Running
<1>6. Upgraded(client) => Upgraded(t)
  BY <1>0 DEF Typed, Fields, Upgraded, OnWebsocket, Waits, Running
<1>7. Ended(client) => Ended(t)
  BY <1>0 DEF Typed, Fields, Ended
<1>8. ~Opening(client)
  BY <1>0 DEF Opening
<1> HIDE DEF t
<1>9. Later(t)
  BY <1>0, <1>3, <1>4, <1>5, <1>6, <1>7, <1>8 DEF Later, Client
<1>10. Goes(client, t)
  BY <1>0, <1>3, <1>7, <1>9, SteadyGoes DEF Same
<1> DEFINE pong == EncodePacket(ProbePacket("pong"), TRUE)
           noop == Packet("noop")
<1>11. /\ srv' \in {"none", "open", "upgrading", "upgraded", "closed"}
       /\ srv # "none" => srv' # "none"
       /\ down' = down \/ down' = Append(down, pong)
       /\ srvQueue' = srvQueue \/ srvQueue' = Append(srvQueue, noop)
  <2>1. srv \in {"none", "open", "upgrading", "upgraded", "closed"}
    BY <1>0 DEF Session
  <2>2. /\ \/ srv' \in {"upgrading", "upgraded"}
           \/ srv' = CASE srv = "upgrading" -> "open" [] srv = "upgraded" -> "closed"
                       [] OTHER -> srv
           \/ srv' = srv
        /\ down' = down \/ down' = Append(down, pong)
        /\ srvQueue' = srvQueue \/ srvQueue' = Append(srvQueue, noop)
    BY DEF ServerFrame
  <2> QED
    BY <2>1, <2>2
<1>12. noop \in Sendable /\ noop \in Incoming
  BY IncomingFacts DEF Incoming
<1>13. pong \in Frames /\ Carried(pong)
  <2>1. ProbePacket("pong") \in Incoming
    BY DEF Incoming
  <2>2. ProbePacket("pong") \in Sendable
    BY <2>1, IncomingFacts
  <2> QED
    BY <2>1, <2>2, Zenon DEF Frames, Carried
<1> HIDE DEF pong, noop
<1>14. srvQueue' \in Seq(Sendable) /\ down' \in Seq(Frames)
  <2>1. Append(srvQueue, noop) \in Seq(Sendable)
    BY <1>0, <1>12
  <2>2. Append(down, pong) \in Seq(Frames)
    BY <1>0, <1>13
  <2> QED
    BY <1>0, <1>11, <2>1, <2>2
<1>15. /\ \A i \in 1 .. Len(srvQueue') :
            srvQueue'[i] # noop => i \in 1 .. Len(srvQueue) /\ srvQueue'[i] = srvQueue[i]
       /\ \A i \in 1 .. Len(down') :
            down'[i] # pong => i \in 1 .. Len(down) /\ down'[i] = down[i]
  BY <1>0, <1>11, <1>12, <1>13
<1>16. ToRunning => ToRunning'
  BY <1>11, <1>12, <1>13, <1>15 DEF ToRunning
<1>17. ~Opening(client') /\ (Ended(client) => Ended(client'))
  BY <1>2, <1>8, <1>10 DEF Goes
<1>18. Session'
  BY <1>0, <1>8, <1>11, <1>14, <1>16, <1>17 DEF Session
<1> QED
  BY <1>2, <1>10, <1>18 DEF IInv, Goes

(* The server writes to the websocket, or ends the session.                *)
LEMMA ServerWriteKeeps ==
  ASSUME IInv, ServerWrite
  PROVE  IInv' /\ UNCHANGED client
<1>0. /\ Client(client) /\ Session /\ UNCHANGED <<client, srv, emitted>>
      /\ srvQueue \in Seq(Sendable) /\ srvQueue # <<>> /\ down \in Seq(Frames)
      /\ srvQueue' = Tail(srvQueue) /\ srv = "upgraded"
      /\ down' = Append(down, EncodePacket(Head(srvQueue), TRUE))
  BY DEF IInv, Session, ServerWrite
<1> DEFINE p == Head(srvQueue)
           frame == EncodePacket(p, TRUE)
           rest == Tail(srvQueue)
<1>1. p \in Sendable /\ p = srvQueue[1] /\ 1 \in 1 .. Len(srvQueue)
  BY <1>0
<1>2. rest \in Seq(Sendable) /\ Len(rest) = Len(srvQueue) - 1
  BY <1>0
<1>3. \A i \in 1 .. Len(rest) : i + 1 \in 1 .. Len(srvQueue) /\ rest[i] = srvQueue[i + 1]
  BY <1>0, <1>2
<1>4. srvQueue' = rest /\ down' = Append(down, frame)
  BY <1>0
<1> HIDE DEF p, rest
<1>5. frame \in Frames /\ (p \in Incoming => Carried(frame))
  BY <1>1, Zenon DEF Frames, Carried
<1> HIDE DEF frame
<1>6. /\ Append(down, frame) \in Seq(Frames)
      /\ \A i \in 1 .. Len(Append(down, frame)) :
           \/ i \in 1 .. Len(down) /\ Append(down, frame)[i] = down[i]
           \/ Append(down, frame)[i] = frame
  BY <1>0, <1>5
<1>7. ToRunning => ToRunning'
  BY <1>0, <1>1, <1>3, <1>4, <1>5, <1>6 DEF ToRunning
<1>8. ~Opening(client)
  BY <1>0 DEF Session, ToOpening
<1>9. Session'
  BY <1>0, <1>2, <1>4, <1>6, <1>7, <1>8 DEF Session
<1> QED
  BY <1>0, <1>9 DEF IInv

(* The server ends the session.                                            *)
LEMMA ServerCloseKeeps ==
  ASSUME IInv, ServerClose
  PROVE  IInv' /\ Goes(client, client')
<1>0. /\ Client(client) /\ Session /\ emitted' = emitted /\ down' = down
      /\ srv' = "closed" /\ srvQueue' = <<>> /\ <<>> \in Seq(Sendable)
  BY DEF IInv, ServerClose
<1>1. CASE link = "up" /\ client.gets > 0
  <2> DEFINE q == <<ClosePacket>>
  <2>1. ClosePacket \in Sendable
    BY PacketFacts, TypeFacts DEF ClosePacket
  <2>2. q \in Seq(Sendable) /\ q # <<>>
    BY <2>1
  <2>3. client' = OnData(client, EncodePayload(q))
    BY <1>1 DEF ServerClose
  <2>4. Goes(client, client') /\ Later(client')
    BY <1>0, <1>1, <2>2, <2>3, OnDataGoes
  <2>5. ~Opening(client')
    BY <2>4 DEF Later, Opening, Polls, OnPolling, Pauses, Upgrading, Upgraded, OnWebsocket,
                Running, Ended
  <2>6. \A i \in 1 .. Len(down) : Ended(client) \/ Carried(down[i])
    BY <1>0 DEF Session, ToRunning, ToOpening
  <2>7. Ended(client) => Ended(client')
    BY <2>4 DEF Goes
  <2>8. Session'
    BY <1>0, <2>5, <2>6, <2>7 DEF Session, ToRunning
  <2> QED
    BY <2>4, <2>8 DEF IInv, Goes
<1>2. CASE ~(link = "up" /\ client.gets > 0)
  <2>1. client' = client
    BY <1>2 DEF ServerClose
  <2>2. ToOpening => ToOpening'
    BY <1>0 DEF ToOpening
  <2>3. ToRunning => ToRunning'
    BY <1>0 DEF ToRunning
  <2>4. Session'
    BY <1>0, <2>1, <2>2, <2>3 DEF Session
  <2>5. Goes(client, client')
    BY <1>0, <2>1 DEF Goes
  <2> QED
    BY <2>4, <2>5 DEF IInv, Goes
<1> QED
  BY <1>1, <1>2
-----------------------------------------------------------------------------
(* Every step.                                                             *)
LEMMA Step ==
  ASSUME IInv, [Next]_vars
  PROVE  IInv' /\ Goes(client, client')
<1>1. Goes(client, client) /\ Client(client)
  BY DEF IInv, Goes
<1>2. ASSUME Goes(client, client'), UNCHANGED <<srv, srvQueue, emitted, down>>,
             Opening(client) => Opening(client') \/ Ended(client')
      PROVE  IInv' /\ Goes(client, client')
  BY <1>2, ClientStep
<1>3. ASSUME UNCHANGED client, IInv'
      PROVE  IInv' /\ Goes(client, client')
  BY <1>1, <1>3
<1>4. CASE UNCHANGED vars \/ LinkDown
  BY <1>1, <1>2, <1>4 DEF vars, LinkDown, server
<1>5. CASE AppWrite
  <2>1. /\ client' = Write(client) /\ client.readyState = "open"
        /\ UNCHANGED <<srv, srvQueue, emitted, down>>
    BY <1>5 DEF AppWrite, server
  <2>2. ~Opening(client)
    BY <2>1 DEF Opening
  <2> QED
    BY <1>1, <1>2, <2>1, <2>2, AppWriteGoes
<1>6. CASE AppClose
  <2>1. /\ client' = Close(client) /\ client.readyState \in {"opening", "open"}
        /\ UNCHANGED <<srv, srvQueue, emitted, down>>
    BY <1>6 DEF AppClose, server
  <2> QED
    BY <1>1, <1>2, <2>1, AppCloseGoes
<1>7. CASE WebsocketDrain
  BY <1>1, <1>2, <1>7, WebsocketDrainGoes DEF WebsocketDrain, server
<1>8. CASE PingTimeout \/ PollFailed \/ PostFailed
  <2>1. UNCHANGED <<srv, srvQueue, emitted, down>>
    BY <1>8 DEF PingTimeout, PollFailed, PostFailed, server
  <2> QED
    BY <1>1, <1>2, <1>8, <2>1, FailureGoes
<1>9. CASE PostAnswered
  BY <1>1, <1>2, <1>9, PostAnsweredGoes DEF PostAnswered, server
<1>10. CASE WebsocketOpen
  BY <1>1, <1>2, <1>10, WebsocketOpenGoes DEF WebsocketOpen, server
<1> QED
  BY <1>3, <1>4, <1>5, <1>6, <1>7, <1>8, <1>9, <1>10, PollAnsweredKeeps, WebsocketKeeps,
     ServerAddsKeeps, ServerPostKeeps, ServerFrameKeeps, ServerWriteKeeps, ServerCloseKeeps
     DEF Next

(* The invariant holds in every state.                                     *)
THEOREM Invariance == Spec => []IInv
<1>1. IInv /\ [Next]_vars => IInv'
  BY Step
<1> QED
  BY <1>1, InitIInv, PTL DEF Spec
-----------------------------------------------------------------------------
(* The state of the socket, its transports and the session are of the      *)
(* kinds the code gives them; no more than one GET is under way, and what  *)
(* the last flush sent is no longer than the buffer.                       *)
THEOREM TypeCorrect == Spec => []TypeOK
<1>1. IInv => TypeOK
  <2>1. ASSUME IInv
        PROVE  client.prevBufferLen \in 0 .. Len(client.writeBuffer)
    <3>1. Typed(client) /\ client.writeBuffer \in Seq(Sendable)
      BY <2>1 DEF IInv, Client, Typed
    <3>2. Opening(client) \/ Polls(client) \/ Pauses(client) \/ Upgraded(client)
          \/ Ended(client)
      BY <2>1 DEF IInv, Client
    <3> QED
      BY <3>1, <3>2 DEF Typed, Opening, Polls, OnPolling, Pauses, Upgrading, OnePost,
                        Upgraded, OnWebsocket, Ended
  <2> QED
    BY <2>1 DEF IInv, Client, Typed, Gets, Session, TypeOK
<1> QED
  BY <1>1, Invariance, PTL

(* Transport.send never finds its transport opening, pausing, paused or    *)
(* closed: no flush, drain, close or switch comes at a wrong moment.       *)
THEOREM SendsOnOpenTransport == Spec => []SendFindsOpenTransport
<1>1. IInv => SendFindsOpenTransport
  BY DEF IInv, Client, SendFindsOpenTransport
<1> QED
  BY <1>1, Invariance, PTL

(* As long as polling is in use and no listener has thrown, a GET is at    *)
(* the server.                                                             *)
THEOREM PollsAlways == Spec => []AlwaysPolling
<1>1. IInv => AlwaysPolling
  BY DEF IInv, Client, Gets, AlwaysPolling, Live, Opening, Polls, OnPolling, Pauses,
         Upgrading, Quiet, Upgraded, OnWebsocket, Ended
<1> QED
  BY <1>1, Invariance, PTL

(* What waits in the buffer, and a close() that waits, will be looked at   *)
(* again: a POST, a timer or an upgrade is under way.                      *)
THEOREM NothingForgotten == Spec => []NoLostWakeup
<1>1. ASSUME IInv
      PROVE  NoLostWakeup
  <2>1. /\ Typed(client) /\ client.posts \in Seq(Posts) /\ client.writeBuffer \in Seq(Sendable)
        /\ client.wsTimers \in Nat
    BY <1>1 DEF IInv, Client, Typed
  <2>2. CASE Opening(client) \/ Ended(client)
    BY <2>2 DEF Opening, Ended, NoLostWakeup, Live
  <2>3. CASE Polls(client)
    BY <2>1, <2>3 DEF Polls, OnPolling, OnePost, Waits, Running, NoLostWakeup, Live
  <2>4. CASE Pauses(client)
    BY <2>4 DEF Pauses, Upgrading, NoLostWakeup
  <2>5. CASE Upgraded(client)
    BY <2>1, <2>5 DEF Upgraded, OnWebsocket, Waits, Running, NoLostWakeup, Live
  <2> QED
    BY <1>1, <2>2, <2>3, <2>4, <2>5 DEF IInv, Client
<1> QED
  BY <1>1, Invariance, PTL

(* When the websocket takes over, no GET and no POST is under way that     *)
(* could overtake what it sends or bring a packet after its own.           *)
THEOREM SwitchesQuietly == Spec => SwitchIsQuiet
<1>1. IInv /\ [Next]_vars =>
        [client'.transport # client.transport
            => client'.gets = 0 /\ client'.posts = <<>>]_vars
  BY Step DEF Goes
<1> QED
  BY <1>1, Invariance, PTL DEF Spec, SwitchIsQuiet
-----------------------------------------------------------------------------
(* What the listeners are given.  The messages of q are those after        *)
(* message n, up to message m, in order; a tells how far it has got after  *)
(* each packet.                                                            *)
UpTo(n) == [i \in 1 .. n |-> i]

Counts(a, q, n, m) ==
  /\ a \in [0 .. Len(q) -> Nat] /\ a[0] = n /\ a[Len(q)] = m
  /\ \A i \in 1 .. Len(q) : \/ q[i].type # "message" /\ a[i] = a[i - 1]
                            \/ q[i] = Message(a[i - 1] + 1) /\ a[i] = a[i - 1] + 1
  /\ \A i, j \in 0 .. Len(q) : i <= j => a[i] <= a[j]

Numbers(q, n, m) == \E a : Counts(a, q, n, m)

(* The next message is the one after those heard.                          *)
LEMMA UpToNext ==
  ASSUME NEW n \in Nat
  PROVE  /\ UpTo(n) \in Seq(Nat) /\ Len(UpTo(n)) = n
         /\ Append(UpTo(n), n + 1) = UpTo(n + 1)
<1>1. UpTo(n) \in Seq(Nat) /\ Len(UpTo(n)) = n
  BY DEF UpTo
<1>2. /\ Len(Append(UpTo(n), n + 1)) = n + 1
      /\ \A i \in 1 .. n + 1 : Append(UpTo(n), n + 1)[i] = i
  <2>1. \A i \in 1 .. n : UpTo(n)[i] = i
    BY DEF UpTo
  <2> QED
    BY <1>1, <2>1
<1>3. Append(UpTo(n), n + 1) \in Seq(Nat)
  BY <1>1
<1>4. UpTo(n + 1) \in Seq(Nat) /\ Len(UpTo(n + 1)) = n + 1
  BY DEF UpTo
<1>5. \A i \in 1 .. n + 1 : UpTo(n + 1)[i] = i
  BY DEF UpTo
<1> QED
  BY <1>1, <1>2, <1>3, <1>4, <1>5

(* The numbers do not fall.                                                *)
LEMMA NumbersRise ==
  ASSUME NEW q \in Seq(Sendable), NEW n, NEW m, Numbers(q, n, m)
  PROVE  n \in Nat /\ m \in Nat /\ n <= m
<1>1. PICK a : Counts(a, q, n, m)
  BY DEF Numbers
<1>2. Len(q) \in Nat /\ 0 \in 0 .. Len(q) /\ Len(q) \in 0 .. Len(q) /\ 0 <= Len(q)
  OBVIOUS
<1>3. a[0] \in Nat /\ a[Len(q)] \in Nat /\ a[0] <= a[Len(q)]
  BY <1>1, <1>2 DEF Counts
<1> QED
  BY <1>1, <1>3 DEF Counts

(* No messages.                                                            *)
LEMMA NumbersSilent ==
  ASSUME NEW q \in Seq(Sendable), NEW n \in Nat,
         \A i \in 1 .. Len(q) : q[i].type # "message"
  PROVE  Numbers(q, n, n)
<1> DEFINE a == [i \in 0 .. Len(q) |-> n]
<1>1. \A i \in 0 .. Len(q) : a[i] = n
  OBVIOUS
<1>2. a \in [0 .. Len(q) -> Nat]
  OBVIOUS
<1>3. Len(q) \in Nat /\ \A i \in 1 .. Len(q) : i \in 0 .. Len(q) /\ i - 1 \in 0 .. Len(q)
  OBVIOUS
<1> HIDE DEF a
<1>4. Counts(a, q, n, n)
  BY <1>1, <1>2, <1>3 DEF Counts
<1> QED
  BY <1>4 DEF Numbers

(* One packet more.                                                        *)
LEMMA NumbersAppend ==
  ASSUME NEW q \in Seq(Sendable), NEW n, NEW m, Numbers(q, n, m), NEW p \in Sendable
  PROVE  /\ p.type # "message" => Numbers(Append(q, p), n, m)
         /\ p = Message(m + 1) => Numbers(Append(q, p), n, m + 1)
<1>1. PICK a : Counts(a, q, n, m)
  BY DEF Numbers
<1>2. n \in Nat /\ m \in Nat
  BY NumbersRise
<1> DEFINE k == Len(q)
           x == Append(q, p)
<1>3. /\ k \in Nat /\ Len(x) = k + 1 /\ x[k + 1] = p
      /\ \A i \in 1 .. k : x[i] = q[i]
  OBVIOUS
<1>4. /\ a \in [0 .. k -> Nat] /\ a[0] = n /\ a[k] = m
      /\ \A i \in 1 .. k : \/ q[i].type # "message" /\ a[i] = a[i - 1]
                           \/ q[i] = Message(a[i - 1] + 1) /\ a[i] = a[i - 1] + 1
      /\ \A i, j \in 0 .. k : i <= j => a[i] <= a[j]
  BY <1>1 DEF Counts
<1> HIDE DEF k, x
<1>5. ASSUME NEW l \in Nat, l = m \/ l = m + 1,
             \/ p.type # "message" /\ l = m
             \/ p = Message(m + 1) /\ l = m + 1
      PROVE  Numbers(x, n, l)
  <2> DEFINE b == [i \in 0 .. k + 1 |-> IF i = k + 1 THEN l ELSE a[i]]
  <2>1. /\ \A i \in 0 .. k : b[i] = a[i]
        /\ b[k + 1] = l
    BY <1>3
  <2>2. b \in [0 .. k + 1 -> Nat]
    BY <1>3, <1>4
  <2> HIDE DEF b
  <2>3. b[0] = n
    BY <1>3, <1>4, <2>1
  <2>4. \A i \in 1 .. k + 1 : \/ x[i].type # "message" /\ b[i] = b[i - 1]
                              \/ x[i] = Message(b[i - 1] + 1) /\ b[i] = b[i - 1] + 1
    <3> SUFFICES ASSUME NEW i \in 1 .. k + 1
                 PROVE  \/ x[i].type # "message" /\ b[i] = b[i - 1]
                        \/ x[i] = Message(b[i - 1] + 1) /\ b[i] = b[i - 1] + 1
      OBVIOUS
    <3>1. CASE i = k + 1
      <4>1. i - 1 = k /\ k \in 0 .. k
        BY <1>3, <3>1
      <4>2. b[i - 1] = m /\ b[i] = l /\ x[i] = p
        BY <1>3, <1>4, <2>1, <3>1, <4>1
      <4> QED
        BY <1>5, <4>2
    <3>2. CASE i # k + 1
      <4>1. i \in 1 .. k /\ i \in 0 .. k /\ i - 1 \in 0 .. k
        BY <1>3, <3>2
      <4>2. b[i - 1] = a[i - 1] /\ b[i] = a[i] /\ x[i] = q[i]
        BY <1>3, <2>1, <4>1
      <4>3. \/ q[i].type # "message" /\ a[i] = a[i - 1]
            \/ q[i] = Message(a[i - 1] + 1) /\ a[i] = a[i - 1] + 1
        BY <1>4, <4>1
      <4> QED
        BY <4>2, <4>3
    <3> QED
      BY <3>1, <3>2
  <2>5. \A i, j \in 0 .. k + 1 : i <= j => b[i] <= b[j]
    <3>1. \A i \in 0 .. k : a[i] \in Nat /\ a[i] <= m
      BY <1>3, <1>4
    <3> QED
      <4> SUFFICES ASSUME NEW i \in 0 .. k + 1, NEW j \in 0 .. k + 1, i <= j
                   PROVE  b[i] <= b[j]
        OBVIOUS
      <4>1. CASE j = k + 1
        <5>1. b[j] = l /\ m <= l
          BY <1>3, <1>4, <1>5, <2>1, <4>1
        <5>2. CASE i = k + 1
          BY <1>5, <2>1, <4>1, <5>2
        <5>3. CASE i # k + 1
          <6>1. i \in 0 .. k
            BY <1>3, <5>3
          <6>2. b[i] = a[i] /\ a[i] \in Nat /\ a[i] <= m
            BY <2>1, <3>1, <6>1
          <6> QED
            BY <1>3, <1>4, <1>5, <5>1, <6>2
        <5> QED
          BY <5>2, <5>3
      <4>2. CASE j # k + 1
        <5>1. j \in 0 .. k /\ i \in 0 .. k
          BY <1>3, <4>2
        <5>2. a[i] <= a[j] /\ b[i] = a[i] /\ b[j] = a[j]
          BY <1>4, <2>1, <5>1
        <5> QED
          BY <5>2
      <4> QED
        BY <4>1, <4>2
  <2>6. Counts(b, x, n, l)
    BY <1>3, <2>1, <2>2, <2>3, <2>4, <2>5 DEF Counts
  <2> QED
    BY <2>6 DEF Numbers
<1> QED
  BY <1>2, <1>5 DEF x

(* What comes first is heard first.                                        *)
LEMMA NumbersSplit ==
  ASSUME NEW q \in Seq(Sendable), NEW n, NEW m, Numbers(q, n, m), NEW k \in 0 .. Len(q)
  PROVE  \E l : /\ Numbers(SubSeq(q, 1, k), n, l)
                /\ Numbers(SubSeq(q, k + 1, Len(q)), l, m)
<1>1. PICK a : Counts(a, q, n, m)
  BY DEF Numbers
<1> DEFINE x == SubSeq(q, 1, k)
           y == SubSeq(q, k + 1, Len(q))
           z == Len(q)
<1>2. /\ z \in Nat /\ k \in Nat /\ k <= z
      /\ Len(x) = k /\ \A i \in 1 .. k : x[i] = q[i]
      /\ Len(y) = z - k /\ \A i \in 1 .. z - k : y[i] = q[i + k]
  OBVIOUS
<1>3. /\ a \in [0 .. z -> Nat] /\ a[0] = n /\ a[z] = m
      /\ \A i \in 1 .. z : \/ q[i].type # "message" /\ a[i] = a[i - 1]
                           \/ q[i] = Message(a[i - 1] + 1) /\ a[i] = a[i - 1] + 1
      /\ \A i, j \in 0 .. z : i <= j => a[i] <= a[j]
  BY <1>1 DEF Counts
<1> HIDE DEF x, y, z
<1>4. Numbers(x, n, a[k])
  <2> DEFINE b == [i \in 0 .. k |-> a[i]]
  <2>1. \A i \in 0 .. k : b[i] = a[i] /\ i \in 0 .. z
    BY <1>2
  <2>2. b \in [0 .. k -> Nat]
    BY <1>2, <1>3
  <2> HIDE DEF b
  <2>3. \A i \in 1 .. k : /\ i \in 1 .. z /\ x[i] = q[i]
                          /\ b[i] = a[i] /\ b[i - 1] = a[i - 1]
    BY <1>2, <2>1
  <2>4. b[0] = n /\ b[k] = a[k]
    BY <1>2, <1>3, <2>1
  <2>5. \A i, j \in 0 .. k : i <= j => b[i] <= b[j]
    BY <1>3, <2>1
  <2>6. \A i \in 1 .. k : \/ x[i].type # "message" /\ b[i] = b[i - 1]
                          \/ x[i] = Message(b[i - 1] + 1) /\ b[i] = b[i - 1] + 1
    BY <1>3, <2>3
  <2>7. Counts(b, x, n, a[k])
    BY <1>2, <2>2, <2>4, <2>5, <2>6 DEF Counts
  <2> QED
    BY <2>7 DEF Numbers
<1>5. Numbers(y, a[k], m)
  <2> DEFINE b == [i \in 0 .. z - k |-> a[i + k]]
  <2>1. \A i \in 0 .. z - k : b[i] = a[i + k] /\ i + k \in 0 .. z
    BY <1>2
  <2>2. b \in [0 .. z - k -> Nat]
    BY <1>2, <1>3
  <2> HIDE DEF b
  <2>3. \A i \in 1 .. z - k : /\ i + k \in 1 .. z /\ y[i] = q[i + k]
                              /\ b[i] = a[i + k] /\ b[i - 1] = a[(i + k) - 1]
    <3> SUFFICES ASSUME NEW i \in 1 .. z - k
                 PROVE  /\ i + k \in 1 .. z /\ y[i] = q[i + k]
                        /\ b[i] = a[i + k] /\ b[i - 1] = a[(i + k) - 1]
      OBVIOUS
    <3>1. i \in 0 .. z - k /\ i - 1 \in 0 .. z - k /\ (i - 1) + k = (i + k) - 1 /\ i + k \in 1 .. z
      BY <1>2
    <3>2. b[i - 1] = a[(i - 1) + k] /\ b[i] = a[i + k]
      BY <2>1, <3>1
    <3> QED
      BY <1>2, <3>1, <3>2
  <2>4. b[0] = a[k] /\ b[z - k] = m
    <3>1. 0 \in 0 .. z - k /\ z - k \in 0 .. z - k /\ 0 + k = k /\ (z - k) + k = z
      BY <1>2
    <3>2. b[0] = a[0 + k] /\ b[z - k] = a[(z - k) + k]
      BY <2>1, <3>1
    <3> QED
      BY <1>3, <3>1, <3>2
  <2>5. \A i, j \in 0 .. z - k : i <= j => b[i] <= b[j]
    <3> SUFFICES ASSUME NEW i \in 0 .. z - k, NEW j \in 0 .. z - k, i <= j
                 PROVE  b[i] <= b[j]
      OBVIOUS
    <3>1. i + k \in 0 .. z /\ j + k \in 0 .. z /\ i + k <= j + k
      BY <1>2
    <3> QED
      BY <1>3, <2>1, <3>1
  <2>6. \A i \in 1 .. z - k : \/ y[i].type # "message" /\ b[i] = b[i - 1]
                              \/ y[i] = Message(b[i - 1] + 1) /\ b[i] = b[i - 1] + 1
    BY <1>3, <2>3
  <2>7. Counts(b, y, a[k], m)
    BY <1>2, <2>2, <2>4, <2>5, <2>6 DEF Counts
  <2> QED
    BY <2>7 DEF Numbers
<1> QED
  BY <1>4, <1>5 DEF x, y, z

(* The listeners have been given the first x messages, x of n .. m, all m  *)
(* of them if nothing has stopped it.                                      *)
Given(t, n, m) ==
  \E x \in n .. m : t.heard = UpTo(x) /\ (~Ended(t) /\ ~t.threw => x = m)

(* A payload after the handshake.                                          *)
LEMMA PayloadHears ==
  ASSUME NEW c, Later(c), NEW q \in Seq(Sendable), NEW b \in 0 .. Len(q), NEW r,
         r[b] = c, \A k \in b + 1 .. Len(q) : r[k] = OnPayloadPacket(r[k - 1], q[k]),
         Ended(c) \/ \A k \in b + 1 .. Len(q) : q[k] \in Incoming,
         NEW n, NEW m, NEW a, Counts(a, q, n, m), c.heard = UpTo(a[b])
  PROVE  Given(r[Len(q)], a[b], m)
<1> DEFINE z == Len(q)
           I(k) == /\ Later(r[k]) /\ Given(r[k], a[b], a[k])
                   /\ Ended(c) => Ended(r[k])
           T == {k \in 0 .. z : k < b \/ I(k)}
<1>0. /\ z \in Nat /\ a \in [0 .. z -> Nat]
      /\ \A i \in 1 .. z : \/ q[i].type # "message" /\ a[i] = a[i - 1]
                           \/ q[i] = Message(a[i - 1] + 1) /\ a[i] = a[i - 1] + 1
      /\ \A i, j \in 0 .. z : i <= j => a[i] <= a[j]
      /\ a[z] = m /\ b \in 0 .. z
  BY DEF Counts
<1>1. ASSUME NEW k \in 0 .. z - 1, k + 1 > b, b <= k, I(k)
      PROVE  I(k + 1)
  <2>1. /\ k + 1 \in b + 1 .. z /\ (k + 1) - 1 = k /\ k \in 0 .. z /\ k + 1 \in 0 .. z
        /\ k + 1 \in 1 .. z
    BY <1>0, <1>1
  <2> DEFINE u == r[k]
             p == q[k + 1]
             t == r[k + 1]
  <2>2. t = OnPayloadPacket(u, p)
    BY <2>1
  <2>3. a[b] \in Nat /\ a[k] \in Nat /\ a[k + 1] \in Nat /\ a[b] <= a[k] /\ a[k] <= a[k + 1]
    <3>1. b \in 0 .. z /\ b <= k /\ k <= k + 1
      BY <1>0, <1>1
    <3>2. a[b] \in Nat /\ a[k] \in Nat /\ a[k + 1] \in Nat
      BY <1>0, <2>1, <3>1, Zenon
    <3>3. a[b] <= a[k] /\ a[k] <= a[k + 1]
      BY <1>0, <2>1, <3>1, Zenon
    <3> QED
      BY <3>2, <3>3
  <2>4. PICK x \in a[b] .. a[k] : u.heard = UpTo(x) /\ (~Ended(u) /\ ~u.threw => x = a[k])
    BY <1>1 DEF Given
  <2>5. Later(u) /\ (Ended(c) => Ended(u))
    BY <1>1
  <2>6. p \in Sendable
    BY <2>1
  <2>7. \/ p.type # "message" /\ a[k + 1] = a[k]
        \/ p = Message(a[k] + 1) /\ a[k + 1] = a[k] + 1
    BY <1>0, <2>1
  <2>8. Ended(c) \/ p \in Incoming
    BY <2>1
  <2> HIDE DEF u, p, t, z
  <2>9. CASE Ended(u)
    <3>1. /\ Typed(t) /\ Ended(t) /\ t.heard = u.heard
      BY <2>2, <2>5, <2>9, PayloadEnded DEF Later
    <3>2. Given(t, a[b], a[k + 1])
      BY <2>3, <2>4, <3>1 DEF Given
    <3> QED
      BY <3>1, <3>2 DEF Later, t
  <2>10. CASE ~Ended(u)
    <3> DEFINE hears == ~u.threw /\ u.readyState # "closed" /\ p.type = "message"
    <3>1. p \in Incoming /\ ~Ended(c)
      BY <2>5, <2>8, <2>10
    <3>2. /\ Later(t)
          /\ t.heard = IF hears THEN Append(u.heard, Number(p)) ELSE u.heard
          /\ u.threw => t = u
      BY <2>2, <2>5, <3>1, PayloadPacketKeeps
    <3>3. u.readyState # "closed"
      BY <2>5, <2>10 DEF Later, Polls, OnPolling, Pauses, Upgrading, Upgraded, OnWebsocket,
                         Running
    <3>4. CASE u.threw
      <4>1. t = u
        BY <3>2, <3>4
      <4>2. Given(t, a[b], a[k + 1])
        BY <2>3, <2>4, <3>4, <4>1 DEF Given
      <4> QED
        BY <3>1, <3>2, <4>2 DEF t
    <3>5. CASE ~u.threw /\ p.type # "message"
      <4>1. t.heard = u.heard /\ x = a[k] /\ a[k + 1] = a[k]
        <5>1. p # Message(a[k] + 1)
          BY <2>3, <3>5, PacketFacts
        <5> QED
          BY <2>4, <2>7, <2>10, <3>2, <3>5, <5>1
      <4>2. Given(t, a[b], a[k + 1])
        BY <2>3, <2>4, <4>1 DEF Given
      <4> QED
        BY <3>1, <3>2, <4>2 DEF t
    <3>6. CASE ~u.threw /\ p.type = "message"
      <4>1. x = a[k] /\ p = Message(a[k] + 1) /\ a[k + 1] = a[k] + 1
        BY <2>4, <2>7, <2>10, <3>6
      <4>2. Number(p) = a[k] + 1
        BY <2>3, <4>1, PacketFacts
      <4>3. t.heard = Append(UpTo(a[k]), a[k] + 1)
        BY <2>4, <3>2, <3>3, <3>6, <4>1, <4>2
      <4>4. t.heard = UpTo(a[k + 1])
        BY <2>3, <4>1, <4>3, UpToNext
      <4>5. a[k + 1] \in a[b] .. a[k + 1]
        BY <2>3
      <4>6. Given(t, a[b], a[k + 1])
        BY <4>4, <4>5 DEF Given
      <4> QED
        BY <3>1, <3>2, <4>6 DEF t
    <3> QED
      BY <3>4, <3>5, <3>6
  <2> QED
    BY <2>9, <2>10
<1>2. I(b)
  <2>1. b \in 0 .. z /\ a[b] \in Nat
    BY <1>0
  <2>2. a[b] \in a[b] .. a[b]
    BY <2>1
  <2>3. Given(r[b], a[b], a[b])
    BY <2>2 DEF Given
  <2> QED
    BY <2>3
<1>3. b \in 0 .. z
  OBVIOUS
<1> HIDE DEF I, z
<1>4. 0 \in T
  BY <1>0, <1>2, <1>3
<1>5. \A k \in 0 .. z - 1 : k \in T => k + 1 \in T
  <2> SUFFICES ASSUME NEW k \in 0 .. z - 1, k \in T PROVE k + 1 \in T
    OBVIOUS
  <2>1. CASE k + 1 < b
    BY <1>0, <2>1
  <2>2. CASE k + 1 = b
    BY <1>0, <1>2, <2>2
  <2>3. CASE k + 1 > b
    <3>1. b <= k /\ ~(k < b)
      BY <1>0, <1>3, <2>3
    <3>2. I(k)
      BY <3>1
    <3> QED
      BY <1>0, <1>1, <1>3, <2>3, <3>1, <3>2
  <2> QED
    BY <1>0, <1>3, <2>1, <2>2, <2>3
<1> HIDE DEF T
<1>6. 0 .. z \subseteq T
  BY <1>0, <1>4, <1>5, Induction
<1>7. z \in T /\ ~(z < b)
  BY <1>0, <1>6
<1>8. I(z)
  BY <1>7 DEF T
<1> QED
  BY <1>0, <1>8 DEF I, z

(* The answer to a GET.                                                    *)
LEMMA OnDataHears ==
  ASSUME NEW s, Client(s), s.gets > 0, NEW q \in Seq(Sendable), q # <<>>,
         \/ Ended(s)
         \/ Opening(s) /\ q[1] = Packet("open") /\ \A k \in 2 .. Len(q) : q[k] \in Incoming
         \/ ~Opening(s) /\ \A k \in 1 .. Len(q) : q[k] \in Incoming,
         NEW n, NEW m, Numbers(q, n, m), s.heard = UpTo(n)
  PROVE  Given(OnData(s, EncodePayload(q)), n, m)
<1>1. PICK r : Chain(s, q, r)
  BY OnDataChain
<1> DEFINE c == r[0]
           d == r[Len(q)]
           t == AfterPackets(d)
<1>2. OnData(s, EncodePayload(q)) = t
  BY <1>1 DEF Chain
<1>3. PICK a : Counts(a, q, n, m)
  BY DEF Numbers
<1>4. /\ Typed(c) /\ c.gets = 0 /\ ~c.sendThrew /\ c.transport = s.transport
      /\ c.threw = s.threw /\ c.polling = s.polling /\ c.heard = s.heard
      /\ Opening(s) <=> Opening(c)
      /\ Polls(s) => Polls(c)
      /\ Pauses(s) => Pauses(c)
      /\ Ended(s) <=> Ended(c)
  BY <1>1 DEF Chain, Answered
<1>5. ~Ended(s) => /\ s.polling /\ ~s.threw /\ s.transport = "polling"
                   /\ Opening(s) \/ Polls(s) \/ Pauses(s)
  BY OnDataChain
<1>6. /\ r[0] = c /\ d = r[Len(q)] /\ Len(q) \in Nat /\ Len(q) > 0
      /\ \A k \in 1 .. Len(q) : r[k] = OnPayloadPacket(r[k - 1], q[k])
      /\ a[0] = n
  BY <1>1, <1>3 DEF Chain, Counts
<1>7. /\ 0 \in 0 .. Len(q) /\ 1 \in 0 .. Len(q) /\ 1 \in 1 .. Len(q) /\ 0 + 1 = 1 /\ 1 + 1 = 2
      /\ 1 - 1 = 0
  BY <1>6
<1> HIDE DEF c, d
<1>8. Given(d, n, m) /\ Later(d) /\ d.gets = 0 /\ ~d.sendThrew
      /\ (~Ended(d) => d.polling /\ d.transport = "polling")
  <2>1. CASE ~Opening(s)
    <3>1. Later(c)
      BY <1>4, <1>5, <2>1 DEF Later
    <3>2. Ended(c) \/ \A k \in 0 + 1 .. Len(q) : q[k] \in Incoming
      BY <1>4, <1>7, <2>1
    <3>3. \A k \in 0 + 1 .. Len(q) : r[k] = OnPayloadPacket(r[k - 1], q[k])
      BY <1>6, <1>7
    <3>4. Given(r[Len(q)], a[0], m)
      BY <1>3, <1>4, <1>6, <1>7, <3>1, <3>2, <3>3, PayloadHears
    <3>5. /\ Later(r[Len(q)]) /\ r[Len(q)].gets = c.gets /\ r[Len(q)].sendThrew = c.sendThrew
          /\ r[Len(q)].transport = c.transport
          /\ ~Ended(c) => r[Len(q)].polling = c.polling
          /\ Ended(c) => Ended(r[Len(q)])
      BY <1>6, <1>7, <3>1, <3>2, <3>3, PayloadKeeps
    <3> QED
      BY <1>4, <1>5, <1>6, <3>4, <3>5
  <2>2. CASE Opening(s)
    <3> DEFINE b == r[1]
    <3>0. ~Ended(s)
      BY <2>2 DEF Opening, Ended
    <3>1. q[1] = Packet("open") /\ \A k \in 1 + 1 .. Len(q) : q[k] \in Incoming
      BY <1>7, <2>2, <3>0
    <3>2. b = OnPayloadPacket(c, Packet("open"))
      BY <1>6, <1>7, <3>1
    <3>3. Typed(b) /\ Polls(b) /\ Same(c, b)
      BY <1>4, <2>2, <3>2, PayloadOpenGoes
    <3>4. Later(b) /\ ~Ended(b)
      BY <3>3 DEF Later, Polls, OnPolling, Running, Ended
    <3>5. \A k \in 1 + 1 .. Len(q) : r[k] = OnPayloadPacket(r[k - 1], q[k])
      BY <1>6, <1>7
    <3>6. a[1] = n
      <4>1. "open" \in DOMAIN PACKET_TYPES
        BY TypeFacts
      <4>2. Packet("open").type # "message"
        BY <4>1, PacketFacts
      <4>3. a[0] \in Nat /\ Message(a[0] + 1).type = "message"
        BY <1>3, <1>7, PacketFacts DEF Counts
      <4> QED
        BY <1>3, <1>6, <1>7, <3>1, <4>2, <4>3 DEF Counts
    <3>7. b.heard = UpTo(a[1])
      BY <1>4, <3>3, <3>6 DEF Same
    <3>8. r[1] = b
      OBVIOUS
    <3> HIDE DEF b
    <3>9. Given(r[Len(q)], a[1], m)
      BY <1>3, <1>6, <1>7, <3>1, <3>4, <3>5, <3>7, <3>8, PayloadHears
    <3>10. /\ Later(r[Len(q)]) /\ r[Len(q)].gets = b.gets /\ r[Len(q)].sendThrew = b.sendThrew
           /\ r[Len(q)].transport = b.transport /\ r[Len(q)].polling = b.polling
      BY <1>6, <1>7, <3>1, <3>4, <3>5, <3>8, PayloadKeeps
    <3> QED
      BY <1>4, <1>5, <1>6, <3>0, <3>3, <3>6, <3>9, <3>10 DEF Same, Steady
  <2> QED
    BY <2>1, <2>2
<1>9. /\ t.heard = d.heard /\ (Ended(d) => Ended(t)) /\ (d.threw => t = d)
  <2>1. d.threw => t = d
    BY DEF AfterPackets
  <2> QED
    BY <1>8, <2>1, AfterPayload
<1> HIDE DEF t
<1>10. Given(t, n, m)
  BY <1>8, <1>9 DEF Given
<1> QED
  BY <1>2, <1>10

(* A closed socket is given nothing.                                       *)
LEMMA OnDataSilent ==
  ASSUME NEW s, Client(s), s.gets > 0, NEW q \in Seq(Sendable), q # <<>>, Ended(s)
  PROVE  OnData(s, EncodePayload(q)).heard = s.heard
<1>1. PICK r : Chain(s, q, r)
  BY OnDataChain
<1> DEFINE c == r[0]
           d == r[Len(q)]
           t == AfterPackets(d)
<1>2. OnData(s, EncodePayload(q)) = t
  BY <1>1 DEF Chain
<1>3. /\ Typed(c) /\ c.gets = 0 /\ ~c.sendThrew /\ Ended(c) /\ c.heard = s.heard
  BY <1>1 DEF Chain, Answered
<1>4. /\ r[0] = c /\ d = r[Len(q)] /\ Len(q) \in Nat /\ Len(q) > 0
      /\ \A k \in 0 + 1 .. Len(q) : r[k] = OnPayloadPacket(r[k - 1], q[k])
      /\ 0 \in 0 .. Len(q)
  BY <1>1 DEF Chain
<1> HIDE DEF c, d
<1>5. /\ Later(d) /\ d.gets = 0 /\ ~d.sendThrew /\ Ended(d) /\ d.heard = s.heard
  <2>1. Later(c)
    BY <1>3 DEF Later
  <2>2. /\ Later(d) /\ d.gets = c.gets /\ d.sendThrew = c.sendThrew
        /\ Ended(d) /\ d.heard = c.heard
    BY <1>3, <1>4, <2>1, PayloadKeeps
  <2> QED
    BY <1>3, <2>2
<1>6. t.heard = d.heard
  BY <1>5, AfterPayload
<1> HIDE DEF t
<1> QED
  BY <1>2, <1>5, <1>6

(* The answer with which the server ends the session ends the connection.  *)
LEMMA OnDataCloses ==
  ASSUME NEW s, Client(s), s.gets > 0
  PROVE  LET t == OnData(s, EncodePayload(<<ClosePacket>>))
         IN  Ended(t) /\ t.heard = s.heard
<1> DEFINE q == <<ClosePacket>>
<1>0. ClosePacket \in Sendable
  BY PacketFacts, TypeFacts DEF ClosePacket
<1>1. q \in Seq(Sendable) /\ q # <<>> /\ Len(q) = 1 /\ q[1] = ClosePacket
  BY <1>0
<1> HIDE DEF q
<1>2. PICK r : Chain(s, q, r)
  BY <1>1, OnDataChain
<1> DEFINE c == r[0]
           d == r[1]
           t == AfterPackets(d)
<1>3. OnData(s, EncodePayload(q)) = t
  BY <1>1, <1>2 DEF Chain
<1>4. ~Ended(s) => ~s.threw /\ (Opening(s) \/ Polls(s) \/ Pauses(s))
  BY <1>1, OnDataChain
<1>5. /\ Typed(c) /\ c.gets = 0 /\ ~c.sendThrew /\ c.heard = s.heard /\ c.threw = s.threw
      /\ ~Ended(s) => Opening(c) \/ Polls(c) \/ Pauses(c)
      /\ Ended(s) <=> Ended(c)
  BY <1>2, <1>4 DEF Chain, Answered
<1>6. d = OnPayloadPacket(c, ClosePacket)
  <2>1. 1 \in 1 .. Len(q) /\ 1 - 1 = 0
    BY <1>1
  <2> QED
    BY <1>1, <1>2, <2>1 DEF Chain
<1> HIDE DEF c, d
<1>7. /\ Typed(d) /\ Ended(d) /\ d.gets = c.gets /\ d.sendThrew = c.sendThrew
      /\ d.heard = c.heard
  <2>1. CASE Ended(s)
    BY <1>5, <1>6, <2>1, PayloadEnded
  <2>2. CASE ~Ended(s)
    BY <1>4, <1>5, <1>6, <2>2, PayloadCloseEnds
  <2> QED
    BY <2>1, <2>2
<1>8. Ended(t) /\ t.heard = d.heard
  BY <1>5, <1>7, AfterPayload DEF Later
<1> HIDE DEF t
<1> QED
  BY <1>3, <1>5, <1>7, <1>8 DEF q

(* The frames are those of the packets held, of what the server sends.     *)
Sent(frames, held) ==
  /\ held \in Seq(Incoming) /\ Len(frames) = Len(held)
  /\ \A i \in 1 .. Len(held) : frames[i] = EncodePacket(held[i], TRUE)

Pong == EncodePacket(ProbePacket("pong"), TRUE)
Pongs(frames) == \A i \in 1 .. Len(frames) : frames[i] = Pong

(* What a session that is over still holds may lack the last messages.     *)
Latest(m) == m \in Nat /\ m <= emitted /\ (srv # "closed" => m = emitted)

(* What is to come after message n: from polling, and from the websocket,  *)
(* where the frames on their way come first.                               *)
ComesByPoll(n) == \E m : Numbers(srvQueue, n, m) /\ Latest(m)

ComesByFrame(n) ==
  \E held, l, m : Sent(down, held) /\ Numbers(held, n, l) /\ Numbers(srvQueue, l, m) /\ Latest(m)

(* The listeners have been given the first messages, and what is to come   *)
(* are the next.                                                           *)
Order(n) ==
  /\ client.heard = UpTo(n) /\ n <= emitted
  /\ ~Ended(client) /\ client.transport = "polling" =>
        srv # "upgraded" /\ Pongs(down) /\ (~client.threw => ComesByPoll(n))
  /\ ~Ended(client) /\ client.transport = "websocket" => ComesByFrame(n)

OrderDown == \E n \in Nat : Order(n)

(* Of what the server sends only messages are heard.                       *)
LEMMA PongsHeld ==
  ASSUME NEW frames \in Seq(Frames), Pongs(frames), NEW n \in Nat
  PROVE  \E held : Sent(frames, held) /\ Numbers(held, n, n)
<1> DEFINE p == ProbePacket("pong")
           held == [i \in 1 .. Len(frames) |-> p]
<1>1. p \in Incoming /\ p \in Sendable /\ p.type # "message"
  BY IncomingFacts, PacketFacts, TypeFacts DEF Incoming
<1>2. Len(frames) \in Nat
  OBVIOUS
<1> HIDE DEF p
<1>3. /\ held \in Seq(Incoming) /\ held \in Seq(Sendable) /\ Len(held) = Len(frames)
      /\ \A i \in 1 .. Len(frames) : held[i] = p
  BY <1>1, <1>2
<1> HIDE DEF held
<1>4. Sent(frames, held)
  BY <1>3 DEF Sent, Pongs, Pong, p
<1>5. Numbers(held, n, n)
  BY <1>1, <1>3, NumbersSilent
<1> QED
  BY <1>4, <1>5

(* A client that is connected uses polling until the websocket is in use,  *)
(* and then no exception has stopped it.                                   *)
LEMMA Transports ==
  ASSUME NEW s, Client(s), ~Ended(s)
  PROVE  /\ s.transport = "polling" \/ s.transport = "websocket"
         /\ s.transport = "websocket" => Upgraded(s) /\ ~s.threw /\ s.gets = 0
         /\ s.gets > 0 => s.transport = "polling" /\ ~s.threw
         /\ Upgraded(s) => s.transport = "websocket"
<1>1. s.transport = "websocket" => Upgraded(s)
  BY DEF Client, Opening, Polls, OnPolling, Pauses, Upgrading
<1>2. Upgraded(s) => /\ ~s.polling /\ s.readyState # "closed" /\ s.transport = "websocket"
  BY DEF Upgraded, OnWebsocket, Running
<1>3. s.readyState # "closed"
  BY DEF Client, Opening, Polls, OnPolling, Pauses, Upgrading, Upgraded, OnWebsocket, Running
<1>4. s.gets = (IF s.polling /\ ~s.threw THEN 1 ELSE 0) /\ (s.threw => s.polling)
  BY <1>3 DEF Client, Gets
<1>5. s.transport \in {"polling", "websocket"}
  BY DEF Client, Typed
<1> QED
  BY <1>1, <1>2, <1>4, <1>5

(* A client that polled before the step.                                   *)
LEMMA PollingOrder ==
  ASSUME IInv', NEW k \in Nat, client'.heard = UpTo(k), k <= emitted',
         srv' # "upgraded", Pongs(down'),
         ~Ended(client') /\ ~client'.threw => ComesByPoll(k)'
  PROVE  Order(k)'
<1>1. Client(client') /\ down' \in Seq(Frames)
  BY DEF IInv, Session
<1>2. ASSUME ~Ended(client'), client'.transport = "websocket"
      PROVE  ComesByFrame(k)'
  <2>1. ~client'.threw
    BY <1>1, <1>2, Transports
  <2>2. PICK m : Numbers(srvQueue', k, m) /\ Latest(m)'
    BY <1>2, <2>1 DEF ComesByPoll
  <2>3. PICK held : Sent(down', held) /\ Numbers(held, k, k)
    BY <1>1, PongsHeld
  <2> QED
    BY <2>2, <2>3 DEF ComesByFrame
<1> QED
  BY <1>2 DEF Order

(* A client that is closed: only what it has heard matters.                *)
LEMMA ClosedOrder ==
  ASSUME Ended(client'), NEW n \in Nat, Order(n), client'.heard = client.heard,
         emitted \in Nat, emitted' \in Nat, emitted <= emitted'
  PROVE  Order(n)'
  BY DEF Order

(* A step of the client, or of the server on the way to it, that gives it  *)
(* nothing to hear.                                                        *)
LEMMA SilentOrder ==
  ASSUME IInv, IInv', Goes(client, client'), NEW n \in Nat, Order(n),
         client'.heard = client.heard, UNCHANGED <<srvQueue, emitted>>,
         srv' \in {srv, "closed"},
         \A i \in 1 .. Len(down') : \E j \in 1 .. Len(down) : down'[i] = down[j],
         client.transport = "polling" \/ Ended(client') \/ down' = down
  PROVE  Order(n)'
<1>1. /\ emitted \in Nat /\ emitted' \in Nat /\ emitted <= emitted' /\ n <= emitted'
      /\ client'.heard = UpTo(n) /\ Client(client) /\ Client(client')
  BY DEF IInv, Session, Order
<1>2. CASE Ended(client')
  BY <1>1, <1>2, ClosedOrder
<1>3. CASE ~Ended(client') /\ client.transport = "polling"
  <2>1. /\ ~Ended(client) /\ srv' # "upgraded" /\ Pongs(down')
        /\ ~client.threw => ComesByPoll(n)
    BY <1>3 DEF Goes, Order, Pongs
  <2>2. ASSUME ~Ended(client'), ~client'.threw
        PROVE  ComesByPoll(n)'
    <3>1. ~client.threw
      <4>1. client.threw \in BOOLEAN
        BY <1>1 DEF Client, Typed
      <4> QED
        BY <2>2, <4>1 DEF Goes
    <3>2. PICK m : Numbers(srvQueue, n, m) /\ Latest(m)
      BY <2>1, <3>1 DEF ComesByPoll
    <3>3. Numbers(srvQueue', n, m) /\ Latest(m)'
      BY <3>2 DEF Latest
    <3> QED
      BY <3>3 DEF ComesByPoll
  <2> QED
    BY <1>1, <2>1, <2>2, PollingOrder
<1>4. CASE ~Ended(client') /\ client.transport # "polling"
  <2>1. ~Ended(client) /\ down' = down
    BY <1>4 DEF Goes
  <2>2. client.transport = "websocket" /\ client'.transport = "websocket"
    BY <1>1, <1>4, <2>1, Transports DEF Goes
  <2>3. PICK held, l, m :
          Sent(down, held) /\ Numbers(held, n, l) /\ Numbers(srvQueue, l, m) /\ Latest(m)
    BY <2>1, <2>2 DEF Order, ComesByFrame
  <2>4. /\ Sent(down', held) /\ Numbers(srvQueue', l, m) /\ Latest(m)'
    BY <2>1, <2>3 DEF Latest
  <2>5. ComesByFrame(n)'
    BY <2>3, <2>4 DEF ComesByFrame
  <2> QED
    BY <1>1, <2>2, <2>5 DEF Order
<1> QED
  BY <1>2, <1>3, <1>4

(* An answer to a GET gives the listeners the next messages.               *)
LEMMA PollAnsweredOrder ==
  ASSUME IInv, IInv', Goes(client, client'), PollAnswered, NEW n \in Nat, Order(n)
  PROVE  \E k \in Nat : n <= k /\ Order(k)'
<1>0. /\ Client(client) /\ client.gets > 0 /\ srv # "closed"
      /\ UNCHANGED <<srv, emitted, down>>
      /\ srvQueue \in Seq(Sendable) /\ emitted \in Nat /\ Client(client')
      /\ Opening(client) => ToOpening
      /\ ~Opening(client) /\ ~Ended(client) => ToRunning
  BY DEF IInv, Session, PollAnswered
<1>1. PICK q \in Seq(Sendable) :
        /\ q # <<>> /\ client' = OnData(client, EncodePayload(q))
        /\ \A m : Numbers(srvQueue, n, m) => \E l : Numbers(q, n, l) /\ Numbers(srvQueue', l, m)
        /\ \/ Ended(client)
           \/ Opening(client) /\ q[1] = Packet("open") /\ \A k \in 2 .. Len(q) : q[k] \in Incoming
           \/ ~Opening(client) /\ \A k \in 1 .. Len(q) : q[k] \in Incoming
  <2>1. CASE /\ srv \in {"upgrading", "upgraded"}
             /\ client' = OnData(client, EncodePayload(<<Packet("noop")>>))
             /\ UNCHANGED srvQueue
    <3> DEFINE p == Packet("noop")
               q == <<p>>
    <3>1. p \in Incoming /\ p \in Sendable /\ p.type # "message"
      BY IncomingFacts, PacketFacts, TypeFacts DEF Incoming
    <3> HIDE DEF p
    <3>2. /\ q \in Seq(Sendable) /\ q # <<>> /\ \A k \in 1 .. Len(q) : q[k] \in Incoming
          /\ \A k \in 1 .. Len(q) : q[k].type # "message"
      BY <3>1
    <3>3. ~Opening(client)
      BY <1>0, <2>1 DEF ToOpening
    <3>4. client' = OnData(client, EncodePayload(q)) /\ srvQueue' = srvQueue
      BY <2>1 DEF p
    <3> HIDE DEF q
    <3>5. Numbers(q, n, n)
      BY <3>2, NumbersSilent
    <3> QED
      BY <3>2, <3>3, <3>4, <3>5
  <2>2. CASE \E k \in 1 .. Len(srvQueue) :
               /\ client' = OnData(client, EncodePayload(SubSeq(srvQueue, 1, k)))
               /\ srvQueue' = SubSeq(srvQueue, k + 1, Len(srvQueue))
    <3>1. PICK k \in 1 .. Len(srvQueue) :
               /\ client' = OnData(client, EncodePayload(SubSeq(srvQueue, 1, k)))
               /\ srvQueue' = SubSeq(srvQueue, k + 1, Len(srvQueue))
      BY <2>2
    <3> DEFINE q == SubSeq(srvQueue, 1, k)
    <3>2. /\ q \in Seq(Sendable) /\ Len(q) = k /\ q # <<>>
          /\ \A i \in 1 .. k : q[i] = srvQueue[i]
      BY <1>0
    <3>3. k \in 0 .. Len(srvQueue)
      BY <1>0
    <3>4. \A m : Numbers(srvQueue, n, m) => \E l : Numbers(q, n, l) /\ Numbers(srvQueue', l, m)
      BY <1>0, <3>1, <3>3, NumbersSplit
    <3>5. client' = OnData(client, EncodePayload(q))
      BY <3>1
    <3> HIDE DEF q
    <3>6. Opening(client) => Handshake(srvQueue)
      BY <3>2 DEF IInv, Session, ToOpening
    <3>7. \/ Ended(client)
          \/ Opening(client) /\ q[1] = Packet("open") /\ \A i \in 2 .. Len(q) : q[i] \in Incoming
          \/ ~Opening(client) /\ \A i \in 1 .. Len(q) : q[i] \in Incoming
      BY <1>0, <3>2, <3>6 DEF Handshake, ToRunning
    <3> QED
      BY <3>2, <3>4, <3>5, <3>7
  <2> QED
    BY <2>1, <2>2 DEF PollAnswered
<1>2. CASE Ended(client)
  <2>1. client'.heard = client.heard
    BY <1>0, <1>1, <1>2, OnDataSilent
  <2>2. Ended(client')
    BY <1>2 DEF Goes
  <2>3. Order(n)'
    BY <1>0, <2>1, <2>2, ClosedOrder
  <2> QED
    BY <2>3
<1>3. CASE ~Ended(client)
  <2>1. client.transport = "polling" /\ ~client.threw
    BY <1>0, <1>3, Transports
  <2>2. PICK m : Numbers(srvQueue, n, m) /\ Latest(m)
    BY <1>3, <2>1 DEF Order, ComesByPoll
  <2>3. PICK l : Numbers(q, n, l) /\ Numbers(srvQueue', l, m)
    BY <1>1, <2>2
  <2>4. client.heard = UpTo(n) /\ srv # "upgraded" /\ Pongs(down)
    BY <1>3, <2>1 DEF Order
  <2>5. Given(client', n, l)
    BY <1>0, <1>1, <2>3, <2>4, OnDataHears
  <2>6. l \in Nat /\ n <= l
    BY <2>3, NumbersRise
  <2>7. srvQueue' \in Seq(Sendable)
    BY DEF IInv, Session
  <2>8. m \in Nat /\ l <= m /\ m <= emitted
    BY <2>2, <2>3, <2>7, NumbersRise DEF Latest
  <2>9. PICK x \in n .. l :
          client'.heard = UpTo(x) /\ (~Ended(client') /\ ~client'.threw => x = l)
    BY <2>5 DEF Given
  <2>10. x \in Nat /\ n <= x /\ x <= emitted'
    BY <1>0, <2>6, <2>8, <2>9
  <2>11. ~Ended(client') /\ ~client'.threw => ComesByPoll(x)'
    <3>1. Latest(m)'
      BY <1>0, <2>2 DEF Latest
    <3> QED
      BY <2>3, <2>9, <3>1 DEF ComesByPoll
  <2>12. srv' # "upgraded" /\ Pongs(down')
    BY <1>0, <2>4
  <2>13. Order(x)'
    BY <2>9, <2>10, <2>11, <2>12, PollingOrder
  <2> QED
    BY <2>10, <2>13
<1> QED
  BY <1>2, <1>3

(* The first packet, and those after it.                                   *)
LEMMA NumbersHead ==
  ASSUME NEW q \in Seq(Sendable), q # <<>>, NEW n, NEW m, Numbers(q, n, m)
  PROVE  \E l \in Nat : /\ Numbers(Tail(q), l, m)
                        /\ \/ q[1].type # "message" /\ l = n
                           \/ q[1] = Message(n + 1) /\ l = n + 1
<1> DEFINE x == SubSeq(q, 1, 1)
           y == SubSeq(q, 2, Len(q))
<1>1. 1 \in 0 .. Len(q) /\ 1 + 1 = 2
  OBVIOUS
<1>2. PICK l : Numbers(x, n, l) /\ Numbers(y, l, m)
  <2>1. \E l : Numbers(SubSeq(q, 1, 1), n, l) /\ Numbers(SubSeq(q, 1 + 1, Len(q)), l, m)
    BY <1>1, NumbersSplit
  <2> QED
    BY <1>1, <2>1
<1>3. x \in Seq(Sendable) /\ Len(x) = 1 /\ x[1] = q[1]
  OBVIOUS
<1>4. y = Tail(q)
  BY TailIsSubSeq
<1> HIDE DEF x, y
<1>5. PICK a : Counts(a, x, n, l)
  BY <1>2 DEF Numbers
<1>6. a[0] = n /\ a[1] = l /\ \/ x[1].type # "message" /\ a[1] = a[0]
                              \/ x[1] = Message(a[0] + 1) /\ a[1] = a[0] + 1
  <2>1. 1 \in 1 .. Len(x) /\ 1 - 1 = 0
    BY <1>3
  <2> QED
    BY <1>3, <1>5, <2>1 DEF Counts
<1>7. l \in Nat
  BY <1>2, <1>3, NumbersRise
<1> QED
  BY <1>2, <1>3, <1>4, <1>6, <1>7

(* A frame gives the listeners the next message, if it carries one.        *)
LEMMA FrameOrder ==
  ASSUME IInv, IInv', Goes(client, client'), WebsocketMessage, NEW n \in Nat, Order(n)
  PROVE  \E k \in Nat : n <= k /\ Order(k)'
<1>0. /\ Client(client) /\ Client(client') /\ down \in Seq(Frames) /\ down # <<>>
      /\ UNCHANGED <<srv, srvQueue, emitted>> /\ down' = Tail(down) /\ emitted \in Nat
      /\ client.heard = UpTo(n) /\ n <= emitted /\ srvQueue \in Seq(Sendable)
      /\ ~Opening(client)
  BY DEF IInv, Session, WebsocketMessage, server, Order, Opening
<1> DEFINE frame == Head(down)
           rest == Tail(down)
<1>1. /\ frame = down[1] /\ 1 \in 1 .. Len(down) /\ down' = rest
      /\ rest \in Seq(Frames) /\ Len(rest) = Len(down) - 1
      /\ \A i \in 1 .. Len(rest) : i + 1 \in 1 .. Len(down) /\ rest[i] = down[i + 1]
  BY <1>0
<1>2. /\ Ended(client) => client'.heard = client.heard
      /\ ~Ended(client) =>
            \E p \in Incoming :
               /\ frame = EncodePacket(p, TRUE)
               /\ client'.heard = IF client.probe = "ping" \/ p.type # "message"
                                 THEN client.heard ELSE Append(client.heard, Number(p))
  <2>1. Ended(client) \/ Carried(Head(down))
    BY <1>0, <1>1 DEF IInv, Session, ToRunning
  <2> QED
    BY <1>0, <2>1, WebsocketMessageGoes DEF Carried
<1> HIDE DEF frame, rest
<1>3. ASSUME client'.heard = client.heard, client.transport = "polling" \/ Ended(client)
      PROVE  Order(n)'
  <2>1. \A i \in 1 .. Len(down') : \E j \in 1 .. Len(down) : down'[i] = down[j]
    BY <1>1
  <2>2. client.transport = "polling" \/ Ended(client')
    BY <1>3 DEF Goes
  <2> QED
    BY <1>0, <1>3, <2>1, <2>2, SilentOrder
<1>4. CASE Ended(client)
  BY <1>2, <1>3, <1>4
<1>5. CASE ~Ended(client)
  <2>1. PICK p \in Incoming :
               /\ frame = EncodePacket(p, TRUE)
               /\ client'.heard = IF client.probe = "ping" \/ p.type # "message"
                                 THEN client.heard ELSE Append(client.heard, Number(p))
    BY <1>2, <1>5
  <2>2. p \in Sendable
    BY IncomingFacts
  <2>3. DecodePacket(frame) = p
    BY <2>1, <2>2, FrameDecoded
  <2>4. CASE client.transport = "polling"
    <3>1. frame = Pong
      BY <1>0, <1>1, <1>5, <2>4 DEF Order, Pongs
    <3>2. ProbePacket("pong") \in Sendable /\ ProbePacket("pong").type = "pong"
      BY PacketFacts, TypeFacts
    <3>3. DecodePacket(frame) = ProbePacket("pong")
      BY <3>1, <3>2, FrameDecoded DEF Pong
    <3>4. client'.heard = client.heard
      BY <2>1, <2>3, <3>2, <3>3
    <3> QED
      BY <1>3, <2>4, <3>4
  <2>5. CASE client.transport # "polling"
    <3>1. client.transport = "websocket" /\ Upgraded(client)
      BY <1>0, <1>5, <2>5, Transports
    <3>2. client.probe # "ping" /\ client'.transport = "websocket"
      BY <3>1 DEF Upgraded, OnWebsocket, Goes
    <3>3. PICK held, l, m :
            Sent(down, held) /\ Numbers(held, n, l) /\ Numbers(srvQueue, l, m) /\ Latest(m)
      BY <1>5, <3>1 DEF Order, ComesByFrame
    <3>4. /\ held \in Seq(Incoming) /\ held \in Seq(Sendable) /\ Len(held) = Len(down)
          /\ held # <<>> /\ \A i \in 1 .. Len(down) : down[i] = EncodePacket(held[i], TRUE)
      <4>1. held \in Seq(Incoming) /\ Len(held) = Len(down)
            /\ \A i \in 1 .. Len(held) : down[i] = EncodePacket(held[i], TRUE)
        BY <3>3 DEF Sent
      <4>2. held \in Seq(Sendable)
        BY <4>1, IncomingFacts
      <4>3. held # <<>>
        BY <1>0, <4>1
      <4> QED
        BY <4>1, <4>2, <4>3
    <3>5. held[1] = p
      <4>1. held[1] \in Sendable /\ frame = EncodePacket(held[1], TRUE)
        <5>1. 1 \in 1 .. Len(held)
          BY <1>1, <3>4
        <5>2. held[1] \in Sendable
          BY <3>4, <5>1
        <5> QED
          BY <1>1, <3>4, <5>2
      <4> QED
        BY <2>3, <4>1, FrameDecoded
    <3>6. PICK k \in Nat : /\ Numbers(Tail(held), k, l)
                           /\ \/ held[1].type # "message" /\ k = n
                              \/ held[1] = Message(n + 1) /\ k = n + 1
      BY <3>3, <3>4, NumbersHead
    <3> DEFINE rest2 == Tail(held)
    <3>7. /\ rest2 \in Seq(Incoming) /\ Len(rest2) = Len(held) - 1
          /\ \A i \in 1 .. Len(rest2) : i + 1 \in 1 .. Len(held) /\ rest2[i] = held[i + 1]
      BY <3>4
    <3>8. Numbers(rest2, k, l) /\ rest2 \in Seq(Sendable)
      BY <3>6, <3>7, IncomingFacts
    <3> HIDE DEF rest2
    <3>9. Sent(rest, rest2)
      BY <1>1, <3>4, <3>7 DEF Sent
    <3>10. client'.heard = UpTo(k)
      <4>1. CASE p.type # "message"
        <5>1. p # Message(n + 1)
          <6>1. n + 1 \in Nat
            OBVIOUS
          <6> QED
            BY <4>1, <6>1, PacketFacts
        <5> QED
          BY <1>0, <2>1, <3>5, <3>6, <4>1, <5>1
      <4>2. CASE p.type = "message"
        <5>1. p = Message(n + 1) /\ k = n + 1
          BY <3>5, <3>6, <4>2
        <5>2. Number(p) = n + 1
          BY <5>1, PacketFacts
        <5> QED
          BY <1>0, <2>1, <3>2, <4>2, <5>1, <5>2, UpToNext
      <4> QED
        BY <4>1, <4>2
    <3>11. n <= k /\ k <= emitted
      <4>1. l \in Nat /\ k <= l
        BY <3>8, NumbersRise
      <4>2. m \in Nat /\ l <= m
        BY <1>0, <3>3, NumbersRise
      <4> QED
        BY <1>0, <3>3, <3>6, <4>1, <4>2 DEF Latest
    <3>12. ComesByFrame(k)'
      <4>1. Sent(down', rest2) /\ Numbers(srvQueue', l, m) /\ Latest(m)'
        BY <1>0, <1>1, <3>3, <3>9 DEF Latest
      <4> QED
        BY <3>8, <4>1 DEF ComesByFrame
    <3>13. Order(k)'
      BY <1>0, <3>2, <3>10, <3>11, <3>12 DEF Order
    <3> QED
      BY <3>11, <3>13
  <2> QED
    BY <2>4, <2>5
<1> QED
  BY <1>4, <1>5

(* The server begins a session, and adds messages and pings to it.         *)
LEMMA ServerAddsOrder ==
  ASSUME IInv, IInv', ServerHandshake \/ ServerSend \/ ServerPing, NEW n \in Nat, Order(n)
  PROVE  Order(n)'
<1>0. /\ Client(client) /\ client' = client /\ down' = down
      /\ srvQueue \in Seq(Sendable) /\ emitted \in Nat /\ emitted' \in Nat /\ emitted <= emitted'
      /\ client.heard = UpTo(n) /\ n <= emitted /\ n <= emitted'
      /\ ~Opening(client) /\ ~Ended(client) => ToRunning
      /\ Opening(client) => ToOpening
      /\ srv # "closed" /\ (srv' = srv \/ srv' = "open")
  BY DEF IInv, Session, Order, ServerHandshake, ServerSend, ServerPing
<1>1. CASE Ended(client)
  BY <1>0, <1>1, ClosedOrder
<1>2. CASE ~Ended(client)
  <2>1. ASSUME NEW l, NEW m, Numbers(srvQueue, l, m), Latest(m)
        PROVE  \E k : Numbers(srvQueue', l, k) /\ Latest(k)'
    <3>1. m \in Nat /\ m = emitted /\ l \in Nat
      BY <1>0, <2>1, NumbersRise DEF Latest
    <3>2. CASE ServerHandshake
      <4> DEFINE p == Packet("open")
                 q == <<p>>
      <4>1. p \in Sendable /\ p.type # "message"
        BY PacketFacts, TypeFacts
      <4>2. srvQueue' = q /\ srv = "none" /\ emitted' = emitted
        BY <3>2 DEF ServerHandshake
      <4> HIDE DEF p
      <4>3. q \in Seq(Sendable) /\ \A i \in 1 .. Len(q) : q[i].type # "message"
        BY <4>1
      <4> HIDE DEF q
      <4>4. Numbers(q, l, l)
        BY <3>1, <4>3, NumbersSilent
      <4>5. srvQueue = <<>>
        BY <1>0, <1>2, <4>2 DEF ToOpening, ToRunning
      <4>6. l = m
        <5>1. PICK a : Counts(a, srvQueue, l, m)
          BY <2>1 DEF Numbers
        <5> QED
          BY <4>5, <5>1 DEF Counts
      <4> QED
        BY <3>1, <4>2, <4>4, <4>6 DEF Latest
    <3>3. CASE ServerSend
      <4> DEFINE p == Message(emitted + 1)
      <4>1. p \in Sendable /\ p = Message(m + 1)
        BY <3>1, PacketFacts
      <4>2. srvQueue' = Append(srvQueue, p) /\ emitted' = m + 1
        BY <3>1, <3>3 DEF ServerSend
      <4> HIDE DEF p
      <4>3. Numbers(srvQueue', l, m + 1)
        BY <1>0, <2>1, <4>1, <4>2, NumbersAppend
      <4>4. Latest(m + 1)'
        BY <3>1, <4>2 DEF Latest
      <4> QED
        BY <4>3, <4>4
    <3>4. CASE ServerPing
      <4> DEFINE p == Packet("ping")
      <4>1. p \in Sendable /\ p.type # "message"
        BY PacketFacts, TypeFacts
      <4>2. srvQueue' = Append(srvQueue, p) /\ emitted' = emitted
        BY <3>4 DEF ServerPing
      <4> HIDE DEF p
      <4>3. Numbers(srvQueue', l, m)
        BY <1>0, <2>1, <4>1, <4>2, NumbersAppend
      <4> QED
        BY <3>1, <4>2, <4>3 DEF Latest
    <3> QED
      BY <3>2, <3>3, <3>4
  <2>2. CASE client.transport = "polling"
    <3>1. srv # "upgraded" /\ Pongs(down) /\ (~client.threw => ComesByPoll(n))
      BY <1>2, <2>2 DEF Order
    <3>2. ~client.threw => ComesByPoll(n)'
      BY <2>1, <3>1 DEF ComesByPoll
    <3>3. srv' # "upgraded" /\ Pongs(down')
      BY <1>0, <3>1
    <3> QED
      BY <1>0, <3>2, <3>3, PollingOrder
  <2>3. CASE client.transport # "polling"
    <3>1. client.transport = "websocket"
      BY <1>0, <1>2, <2>3, Transports
    <3>2. PICK held, l, m :
            Sent(down, held) /\ Numbers(held, n, l) /\ Numbers(srvQueue, l, m) /\ Latest(m)
      BY <1>2, <3>1 DEF Order, ComesByFrame
    <3>3. PICK k : Numbers(srvQueue', l, k) /\ Latest(k)'
      BY <2>1, <3>2
    <3>4. Sent(down', held)
      BY <1>0, <3>2
    <3>5. ComesByFrame(n)'
      BY <3>2, <3>3, <3>4 DEF ComesByFrame
    <3> QED
      BY <1>0, <3>1, <3>5 DEF Order
  <2> QED
    BY <2>2, <2>3
<1> QED
  BY <1>1, <1>2

(* A POST is nothing to the way down.                                      *)
LEMMA ServerPostOrder ==
  ASSUME IInv, IInv', Goes(client, client'), ServerPost, NEW n \in Nat, Order(n)
  PROVE  Order(n)'
<1>1. PICK i \in 1 .. Len(client.posts) :
        /\ client' = [client EXCEPT !.posts[i].got = TRUE]
        /\ srv' \in {srv, "closed"}
  BY DEF ServerPost
<1>2. client'.heard = client.heard
  BY <1>1 DEF IInv, Client, Typed, Fields
<1>3. UNCHANGED <<srvQueue, emitted, down>>
  BY DEF ServerPost
<1>4. \A j \in 1 .. Len(down') : \E k \in 1 .. Len(down) : down'[j] = down[k]
  BY <1>3
<1> QED
  BY <1>1, <1>2, <1>3, <1>4, SilentOrder

(* Before the websocket is in use no frame on it tells of an upgrade.      *)
LEMMA UpgradeFrame == EncodePacket(Packet("upgrade"), TRUE) \notin ProbeFrames
<1> DEFINE frame == EncodePacket(Packet("upgrade"), TRUE)
<1>1. /\ Packet("upgrade") \in Sendable /\ Packet("upgrade").type = "upgrade"
      /\ ProbePacket("ping") \in Sendable /\ ProbePacket("ping").type = "ping"
  BY PacketFacts, TypeFacts
<1>2. frame # EncodePacket(ProbePacket("ping"), TRUE)
  <2>1. DecodePacket(frame) = Packet("upgrade")
    BY <1>1, FrameDecoded
  <2>2. DecodePacket(EncodePacket(ProbePacket("ping"), TRUE)) = ProbePacket("ping")
    BY <1>1, FrameDecoded
  <2> HIDE DEF frame
  <2>3. Packet("upgrade") # ProbePacket("ping")
    BY <1>1
  <2> QED
    BY <2>1, <2>2, <2>3
<1>3. frame # CloseFrame
  <2> DEFINE c == PACKET_TYPES["upgrade"]
  <2>1. c.kind = "char"
    BY TypeFacts
  <2>2. Packet("upgrade").type = "upgrade" /\ Packet("upgrade").data = <<>>
    BY DEF Packet
  <2>3. frame = <<c>> \o <<>>
    BY <2>2 DEF EncodePacket, IsBinary
  <2> HIDE DEF c, frame
  <2>4. frame[1] = c
    BY <2>3
  <2>5. CloseFrame[1] = Symbol("close", 0) /\ Symbol("close", 0).kind = "close"
    BY DEF CloseFrame, Symbol
  <2> QED
    BY <2>1, <2>4, <2>5
<1> QED
  BY <1>2, <1>3 DEF ProbeFrames

(* A frame that reaches the server makes it add a pong and a noop at most. *)
LEMMA ServerFrameOrder ==
  ASSUME IInv, IInv', Goes(client, client'), ServerFrame, NEW n \in Nat, Order(n)
  PROVE  Order(n)'
<1>0. /\ Client(client) /\ Client(client') /\ Typed(client) /\ client.up \in Seq(Frames)
      /\ client.up # <<>> /\ emitted' = emitted /\ srvQueue \in Seq(Sendable)
      /\ down \in Seq(Frames) /\ down' \in Seq(Frames) /\ emitted \in Nat
      /\ client' = [client EXCEPT !.up = Tail(@)]
      /\ client.heard = UpTo(n) /\ n <= emitted
  BY DEF IInv, Client, Typed, ServerFrame, Session, Order
<1>1. /\ client'.heard = client.heard /\ client'.transport = client.transport
      /\ client'.threw = client.threw
      /\ Ended(client) => Ended(client')
  BY <1>0 DEF Typed, Fields, Goes
<1> DEFINE upgrade == EncodePacket(Packet("upgrade"), TRUE)
           noop == Packet("noop")
<1>2. /\ srv' = "upgraded" => srv = "upgraded" \/ Head(client.up) = upgrade
      /\ srv' # "closed" => srv # "closed"
      /\ down' = down \/ down' = Append(down, Pong)
      /\ srvQueue' = srvQueue \/ srvQueue' = Append(srvQueue, noop)
  <2>1. \/ srv' = "upgrading" /\ srv = "open"
        \/ srv' = "upgraded" /\ Head(client.up) = upgrade /\ srv = "upgrading"
        \/ srv' = CASE srv = "upgrading" -> "open" [] srv = "upgraded" -> "closed"
                    [] OTHER -> srv
        \/ srv' = srv
    BY DEF ServerFrame
  <2>2. /\ down' = down \/ down' = Append(down, Pong)
        /\ srvQueue' = srvQueue \/ srvQueue' = Append(srvQueue, noop)
    BY DEF ServerFrame, Pong
  <2> HIDE DEF upgrade
  <2> QED
    BY <2>1, <2>2
<1>3. /\ noop \in Sendable /\ noop.type # "message"
      /\ ProbePacket("pong") \in Incoming /\ ProbePacket("pong") \in Sendable
      /\ ProbePacket("pong").type # "message"
  BY IncomingFacts, PacketFacts, TypeFacts DEF Incoming
<1> HIDE DEF noop
<1>4. ASSUME NEW l, NEW m, Numbers(srvQueue, l, m), Latest(m)
      PROVE  Numbers(srvQueue', l, m) /\ Latest(m)'
  <2>1. Numbers(srvQueue', l, m)
    BY <1>0, <1>2, <1>3, <1>4, NumbersAppend
  <2> QED
    BY <1>0, <1>2, <1>4, <2>1 DEF Latest
<1>5. CASE Ended(client)
  BY <1>0, <1>1, <1>5, ClosedOrder
<1>6. CASE ~Ended(client) /\ client.transport = "polling"
  <2>1. srv # "upgraded" /\ Pongs(down) /\ (~client.threw => ComesByPoll(n))
    BY <1>6 DEF Order
  <2>2. client.up \in Seq(ProbeFrames)
    <3>1. ~Opening(client) /\ ~Upgraded(client)
      BY <1>0, <1>6 DEF Opening, Upgraded, OnWebsocket
    <3> QED
      BY <1>0, <1>6, <3>1 DEF Client, Polls, OnPolling, Pauses, Upgrading
  <2>3. Head(client.up) \in ProbeFrames
    BY <1>0, <2>2
  <2>4. srv' # "upgraded"
    BY <1>2, <2>1, <2>3, UpgradeFrame
  <2>5. Pongs(down')
    <3>1. Len(Append(down, Pong)) = Len(down) + 1
          /\ \A i \in 1 .. Len(down) + 1 :
                Append(down, Pong)[i] = IF i = Len(down) + 1 THEN Pong ELSE down[i]
      BY <1>0
    <3>2. Len(down) \in Nat
      BY <1>0
    <3> QED
      BY <1>2, <2>1, <3>1, <3>2 DEF Pongs
  <2>6. ~client'.threw => ComesByPoll(n)'
    BY <1>1, <1>4, <2>1 DEF ComesByPoll
  <2> QED
    BY <1>0, <1>1, <2>4, <2>5, <2>6, PollingOrder
<1>7. CASE ~Ended(client) /\ client.transport # "polling"
  <2>1. client.transport = "websocket"
    BY <1>0, <1>7, Transports
  <2>2. PICK held, l, m :
          Sent(down, held) /\ Numbers(held, n, l) /\ Numbers(srvQueue, l, m) /\ Latest(m)
    BY <1>7, <2>1 DEF Order, ComesByFrame
  <2>3. \E h : Sent(down', h) /\ Numbers(h, n, l)
    <3>1. CASE down' = down
      BY <2>2, <3>1
    <3>2. CASE down' = Append(down, Pong)
      <4> DEFINE p == ProbePacket("pong")
                 h == Append(held, p)
      <4>1. held \in Seq(Incoming) /\ held \in Seq(Sendable) /\ Len(held) = Len(down)
            /\ \A i \in 1 .. Len(held) : down[i] = EncodePacket(held[i], TRUE)
        <5>1. held \in Seq(Incoming) /\ Len(held) = Len(down)
              /\ \A i \in 1 .. Len(held) : down[i] = EncodePacket(held[i], TRUE)
          BY <2>2 DEF Sent
        <5>2. held \in Seq(Sendable)
          BY <5>1, IncomingFacts
        <5> QED
          BY <5>1, <5>2
      <4>2. p \in Incoming /\ p \in Sendable /\ p.type # "message"
        BY <1>3
      <4>3. Pong = EncodePacket(p, TRUE)
        BY DEF Pong
      <4> HIDE DEF p
      <4>4. Numbers(h, n, l)
        BY <2>2, <4>1, <4>2, NumbersAppend
      <4>5. /\ h \in Seq(Incoming) /\ Len(h) = Len(held) + 1 /\ h[Len(held) + 1] = p
            /\ \A i \in 1 .. Len(held) : h[i] = held[i]
        BY <4>1, <4>2
      <4>6. /\ Len(down') = Len(down) + 1 /\ down'[Len(down) + 1] = Pong
            /\ \A i \in 1 .. Len(down) : down'[i] = down[i]
        BY <1>0, <3>2
      <4> HIDE DEF h
      <4>8. ASSUME NEW i \in 1 .. Len(h)
            PROVE  down'[i] = EncodePacket(h[i], TRUE)
        <5>1. CASE i = Len(held) + 1
          BY <4>1, <4>3, <4>5, <4>6, <5>1
        <5>2. CASE i # Len(held) + 1
          <6>1. i \in 1 .. Len(held) /\ i \in 1 .. Len(down)
            BY <4>1, <4>5, <5>2
          <6> QED
            BY <4>1, <4>5, <4>6, <6>1
        <5> QED
          BY <5>1, <5>2
      <4>9. Sent(down', h)
        BY <4>1, <4>5, <4>6, <4>8 DEF Sent
      <4> QED
        BY <4>4, <4>9
    <3> QED
      BY <1>2, <3>1, <3>2
  <2>4. ComesByFrame(n)'
    BY <1>4, <2>2, <2>3 DEF ComesByFrame
  <2> QED
    BY <1>0, <1>1, <2>1, <2>4 DEF Order
<1> QED
  BY <1>5, <1>6, <1>7

(* What the server writes to the websocket goes behind what is on its way. *)
LEMMA ServerWriteOrder ==
  ASSUME IInv, IInv', ServerWrite, NEW n \in Nat, Order(n)
  PROVE  Order(n)'
<1>0. /\ Client(client) /\ UNCHANGED <<client, srv, emitted>> /\ emitted \in Nat
      /\ srvQueue \in Seq(Sendable) /\ srvQueue # <<>> /\ down \in Seq(Frames)
      /\ srvQueue' = Tail(srvQueue) /\ srv = "upgraded"
      /\ down' = Append(down, EncodePacket(Head(srvQueue), TRUE))
      /\ client.heard = UpTo(n) /\ n <= emitted
      /\ ~Opening(client) /\ ~Ended(client) => ToRunning
      /\ ~Opening(client)
  BY DEF IInv, Session, ToOpening, ServerWrite, Order
<1>1. CASE Ended(client)
  BY <1>0, <1>1, ClosedOrder
<1>2. CASE ~Ended(client)
  <2>1. client.transport = "websocket"
    BY <1>0, <1>2, Transports DEF Order
  <2>2. PICK held, l, m :
          Sent(down, held) /\ Numbers(held, n, l) /\ Numbers(srvQueue, l, m) /\ Latest(m)
    BY <1>2, <2>1 DEF Order, ComesByFrame
  <2>3. PICK x \in Nat : /\ Numbers(Tail(srvQueue), x, m)
                         /\ \/ srvQueue[1].type # "message" /\ x = l
                            \/ srvQueue[1] = Message(l + 1) /\ x = l + 1
    BY <1>0, <2>2, NumbersHead
  <2> DEFINE p == srvQueue[1]
             h == Append(held, p)
             frame == EncodePacket(p, TRUE)
  <2>4. p \in Incoming /\ p \in Sendable /\ p = Head(srvQueue)
    <3>1. 1 \in 1 .. Len(srvQueue) /\ Head(srvQueue) = srvQueue[1]
      BY <1>0
    <3>2. p \in Incoming
      BY <1>0, <1>2, <3>1 DEF ToRunning
    <3> QED
      BY <3>1, <3>2, IncomingFacts
  <2>5. down' = Append(down, frame) /\ frame \in Frames
    <3>1. frame \in Frames
      BY <2>4, Zenon DEF Frames
    <3> QED
      BY <1>0, <2>4, <3>1
  <2>6. /\ held \in Seq(Incoming) /\ Len(held) = Len(down)
        /\ \A i \in 1 .. Len(held) : down[i] = EncodePacket(held[i], TRUE)
    BY <2>2 DEF Sent
  <2>7. held \in Seq(Sendable)
    BY <2>6, IncomingFacts
  <2>8. \/ p.type # "message" /\ x = l
        \/ p = Message(l + 1) /\ x = l + 1
    BY <2>3
  <2>9. frame = EncodePacket(p, TRUE)
    OBVIOUS
  <2> HIDE DEF p, frame
  <2>10. Numbers(h, n, x)
    BY <2>2, <2>4, <2>7, <2>8, NumbersAppend
  <2>11. /\ h \in Seq(Incoming) /\ Len(h) = Len(held) + 1 /\ h[Len(held) + 1] = p
         /\ \A i \in 1 .. Len(held) : h[i] = held[i]
    BY <2>4, <2>6
  <2>12. /\ Len(down') = Len(down) + 1 /\ down'[Len(down) + 1] = frame
         /\ \A i \in 1 .. Len(down) : down'[i] = down[i]
    <3>1. down \in Seq(Frames) /\ frame \in Frames /\ down' = Append(down, frame)
      BY <1>0, <2>5
    <3>2. /\ Len(Append(down, frame)) = Len(down) + 1 /\ Append(down, frame)[Len(down) + 1] = frame
          /\ \A i \in 1 .. Len(down) : Append(down, frame)[i] = down[i]
      BY <3>1
    <3> QED
      BY <3>1, <3>2
  <2> HIDE DEF h
  <2>13. ASSUME NEW i \in 1 .. Len(h)
         PROVE  down'[i] = EncodePacket(h[i], TRUE)
    <3>1. CASE i = Len(held) + 1
      BY <2>6, <2>9, <2>11, <2>12, <3>1
    <3>2. CASE i # Len(held) + 1
      <4>1. i \in 1 .. Len(held) /\ i \in 1 .. Len(down)
        BY <2>6, <2>11, <3>2
      <4> QED
        BY <2>6, <2>11, <2>12, <4>1
    <3> QED
      BY <3>1, <3>2
  <2>14. Sent(down', h)
    BY <2>6, <2>11, <2>12, <2>13 DEF Sent
  <2>15. Numbers(srvQueue', x, m) /\ Latest(m)'
    BY <1>0, <2>2, <2>3 DEF Latest
  <2>16. ComesByFrame(n)'
    BY <2>10, <2>14, <2>15 DEF ComesByFrame
  <2> QED
    BY <1>0, <2>1, <2>16 DEF Order
<1> QED
  BY <1>1, <1>2

(* The end of the session takes what the server holds away.                *)
LEMMA ServerCloseOrder ==
  ASSUME IInv, IInv', ServerClose, NEW n \in Nat, Order(n)
  PROVE  Order(n)'
<1>0. /\ Client(client) /\ Client(client') /\ emitted' = emitted /\ down' = down
      /\ srv' = "closed" /\ srvQueue' = <<>> /\ emitted \in Nat /\ srvQueue \in Seq(Sendable)
      /\ client.heard = UpTo(n) /\ n <= emitted
  BY DEF IInv, Session, ServerClose, Order
<1>1. CASE link = "up" /\ client.gets > 0
  <2>1. client' = OnData(client, EncodePayload(<<ClosePacket>>))
    BY <1>1 DEF ServerClose
  <2>2. Ended(client') /\ client'.heard = client.heard
    BY <1>0, <1>1, <2>1, OnDataCloses
  <2> QED
    BY <1>0, <2>2, ClosedOrder
<1>2. CASE ~(link = "up" /\ client.gets > 0)
  <2>1. client' = client
    BY <1>2 DEF ServerClose
  <2>2. ASSUME NEW l \in Nat
        PROVE  Numbers(srvQueue', l, l)
    <3>1. <<>> \in Seq(Sendable) /\ \A i \in 1 .. Len(<<>>) : <<>>[i].type # "message"
      OBVIOUS
    <3> QED
      BY <1>0, <3>1, NumbersSilent
  <2>3. CASE Ended(client)
    BY <1>0, <2>1, <2>3, ClosedOrder
  <2>4. CASE ~Ended(client) /\ client.transport = "polling"
    <3>1. Pongs(down)
      BY <2>4 DEF Order
    <3>2. ComesByPoll(n)'
      BY <1>0, <2>2 DEF ComesByPoll, Latest
    <3>3. Pongs(down') /\ srv' # "upgraded"
      BY <1>0, <3>1
    <3> QED
      BY <1>0, <2>1, <3>2, <3>3, PollingOrder
  <2>5. CASE ~Ended(client) /\ client.transport # "polling"
    <3>1. client.transport = "websocket"
      BY <1>0, <2>5, Transports
    <3>2. PICK held, l, m :
            Sent(down, held) /\ Numbers(held, n, l) /\ Numbers(srvQueue, l, m) /\ Latest(m)
      BY <2>5, <3>1 DEF Order, ComesByFrame
    <3>3. l \in Nat /\ l <= emitted
      <4>1. l \in Nat /\ m \in Nat /\ l <= m
        BY <1>0, <3>2, NumbersRise
      <4> QED
        BY <1>0, <3>2, <4>1 DEF Latest
    <3>4. Sent(down', held) /\ Numbers(srvQueue', l, l) /\ Latest(l)'
      BY <1>0, <2>2, <3>2, <3>3 DEF Latest
    <3>5. ComesByFrame(n)'
      BY <3>2, <3>4 DEF ComesByFrame
    <3> QED
      BY <1>0, <2>1, <3>1, <3>5 DEF Order
  <2> QED
    BY <2>3, <2>4, <2>5
<1> QED
  BY <1>1, <1>2

(* Every step gives the listeners the next messages, or none.              *)
LEMMA OrderStep ==
  ASSUME IInv, IInv', Goes(client, client'), [Next]_vars, NEW n \in Nat, Order(n)
  PROVE  \E k \in Nat : /\ n <= k /\ Order(k)'
                        /\ emitted' = emitted \/ (emitted' = emitted + 1 /\ k = n)
<1>1. Client(client) /\ n <= n
  BY DEF IInv
<1>2. ASSUME client'.heard = client.heard, UNCHANGED <<srv, srvQueue, emitted, down>>
      PROVE  Order(n)'
  <2>1. \A i \in 1 .. Len(down') : \E j \in 1 .. Len(down) : down'[i] = down[j]
    BY <1>2
  <2> QED
    BY <1>2, <2>1, SilentOrder
<1>3. CASE UNCHANGED vars \/ LinkDown
  <2>1. client'.heard = client.heard /\ UNCHANGED <<srv, srvQueue, emitted, down>>
    BY <1>3 DEF vars, LinkDown, server
  <2> QED
    BY <1>1, <1>2, <2>1
<1>4. CASE AppWrite
  <2>1. /\ client' = Write(client) /\ client.readyState = "open"
        /\ UNCHANGED <<srv, srvQueue, emitted, down>>
    BY <1>4 DEF AppWrite, server
  <2> QED
    BY <1>1, <1>2, <2>1, AppWriteGoes
<1>5. CASE AppClose
  <2>1. /\ client' = Close(client) /\ client.readyState \in {"opening", "open"}
        /\ UNCHANGED <<srv, srvQueue, emitted, down>>
    BY <1>5 DEF AppClose, server
  <2> QED
    BY <1>1, <1>2, <2>1, AppCloseGoes
<1>6. CASE WebsocketDrain \/ PostAnswered \/ WebsocketOpen
  <2>1. UNCHANGED <<srv, srvQueue, emitted, down>>
    BY <1>6 DEF WebsocketDrain, PostAnswered, WebsocketOpen, server
  <2> QED
    BY <1>1, <1>2, <1>6, <2>1, WebsocketDrainGoes, PostAnsweredGoes, WebsocketOpenGoes
<1>7. CASE PingTimeout \/ PollFailed \/ PostFailed
  <2>1. UNCHANGED <<srv, srvQueue, emitted, down>>
    BY <1>7 DEF PingTimeout, PollFailed, PostFailed, server
  <2> QED
    BY <1>1, <1>2, <1>7, <2>1, FailureGoes
<1>8. CASE WebsocketLost
  <2>1. UNCHANGED <<srv, srvQueue, emitted>> /\ down' = <<>>
    BY <1>8 DEF WebsocketLost, server
  <2>2. client'.heard = client.heard /\ (Ended(client') \/ client'.transport = "polling")
    BY <1>1, <1>8, WebsocketLostGoes
  <2>3. client.transport = "polling" \/ Ended(client')
    <3>1. client.transport \in {"polling", "websocket"}
      BY <1>1 DEF Client, Typed
    <3> QED
      BY <2>2, <3>1 DEF Goes
  <2>4. \A i \in 1 .. Len(down') : \E j \in 1 .. Len(down) : down'[i] = down[j]
    BY <2>1
  <2>5. Order(n)'
    BY <2>1, <2>2, <2>3, <2>4, SilentOrder
  <2> QED
    BY <1>1, <2>1, <2>5
<1>9. CASE PollAnswered
  <2>1. emitted' = emitted
    BY <1>9 DEF PollAnswered
  <2> QED
    BY <1>9, <2>1, PollAnsweredOrder
<1>10. CASE WebsocketMessage
  <2>1. emitted' = emitted
    BY <1>10 DEF WebsocketMessage, server
  <2> QED
    BY <1>10, <2>1, FrameOrder
<1>11. CASE ServerHandshake \/ ServerSend \/ ServerPing
  <2>1. emitted' = emitted \/ emitted' = emitted + 1
    BY <1>11 DEF ServerHandshake, ServerSend, ServerPing
  <2> QED
    BY <1>1, <1>11, <2>1, ServerAddsOrder
<1>12. CASE ServerPost
  <2>1. emitted' = emitted
    BY <1>12 DEF ServerPost
  <2> QED
    BY <1>1, <1>12, <2>1, ServerPostOrder
<1>13. CASE ServerFrame
  <2>1. emitted' = emitted
    BY <1>13 DEF ServerFrame
  <2> QED
    BY <1>1, <1>13, <2>1, ServerFrameOrder
<1>14. CASE ServerWrite
  <2>1. emitted' = emitted
    BY <1>14 DEF ServerWrite
  <2> QED
    BY <1>1, <1>14, <2>1, ServerWriteOrder
<1>15. CASE ServerClose
  <2>1. emitted' = emitted
    BY <1>15 DEF ServerClose
  <2> QED
    BY <1>1, <1>15, <2>1, ServerCloseOrder
<1> QED
  BY <1>3, <1>4, <1>5, <1>6, <1>7, <1>8, <1>9, <1>10, <1>11, <1>12, <1>13, <1>14, <1>15 DEF Next

(* At the beginning nothing was sent.                                      *)
LEMMA OrderInit ==
  ASSUME Init
  PROVE  Order(0) /\ Down!Init
<1>1. PICK upgrades \in BOOLEAN : client = Connecting(upgrades)
  BY DEF Init
<1>2. /\ client.heard = <<>> /\ client.transport = "polling"
      /\ srv = "none" /\ srvQueue = <<>> /\ emitted = 0 /\ down = <<>>
  BY <1>1 DEF Connecting, Init
<1>3. UpTo(0) = <<>>
  BY UpToNext
<1>4. Numbers(srvQueue, 0, 0)
  <2>1. <<>> \in Seq(Sendable) /\ \A i \in 1 .. Len(<<>>) : <<>>[i].type # "message"
    OBVIOUS
  <2> QED
    BY <1>2, <2>1, NumbersSilent
<1>5. ComesByPoll(0) /\ Pongs(down)
  BY <1>2, <1>4 DEF ComesByPoll, Latest, Pongs
<1>6. Order(0)
  BY <1>2, <1>3, <1>5 DEF Order
<1> QED
  BY <1>2, <1>6 DEF Down!Init

(* The listeners are given the messages of the server in order, each once, *)
(* over polling, through the upgrade and over the websocket, and when one  *)
(* of them throws: every step is one of the channel that sends a message   *)
(* or gives the next ones, or changes nothing of it.                       *)
THEOREM DeliversDownInOrder == Spec => DeliversDown
<1>1. ASSUME IInv, OrderDown, [Next]_vars
      PROVE  OrderDown' /\ [Down!Next]_<<emitted, client.heard>>
  <2>1. IInv' /\ Goes(client, client')
    BY <1>1, Step
  <2>2. PICK n \in Nat : Order(n)
    BY <1>1 DEF OrderDown
  <2>3. PICK k \in Nat : /\ n <= k /\ Order(k)'
                         /\ emitted' = emitted \/ (emitted' = emitted + 1 /\ k = n)
    BY <1>1, <2>1, <2>2, OrderStep
  <2>4. client.heard = UpTo(n) /\ client'.heard = UpTo(k) /\ k <= emitted'
    BY <2>2, <2>3 DEF Order
  <2>5. Len(client.heard) = n
    BY <2>4, UpToNext
  <2>6. [Down!Next]_<<emitted, client.heard>>
    <3>1. CASE k = n /\ emitted' = emitted
      BY <2>4, <3>1
    <3>2. CASE k = n /\ emitted' = emitted + 1
      <4>1. Down!Send
        BY <2>4, <3>2 DEF Down!Send
      <4> QED
        BY <4>1 DEF Down!Next
    <3>3. CASE k # n
      <4>1. emitted' = emitted /\ emitted \in Nat /\ k \in n + 1 .. emitted
        BY <1>1, <2>3, <2>4, <3>3 DEF IInv, Session
      <4>2. Down!Deliver
        BY <2>4, <2>5, <4>1 DEF Down!Deliver, UpTo
      <4> QED
        BY <4>2 DEF Down!Next
    <3> QED
      BY <2>3, <3>1, <3>2, <3>3
  <2>7. OrderDown'
    BY <2>3 DEF OrderDown
  <2> QED
    BY <2>6, <2>7
<1>2. Init => OrderDown /\ Down!Init
  BY OrderInit DEF OrderDown
<1>3. Init => IInv
  BY InitIInv
<1> QED
  BY <1>1, <1>2, <1>3, Invariance, PTL DEF Spec, DeliversDown, Down!Spec
-----------------------------------------------------------------------------
(* The messages of one sequence, then those of another.                    *)
LEMMA NumbersJoin ==
  ASSUME NEW q \in Seq(Sendable), NEW r \in Seq(Sendable), NEW n, NEW l, NEW m,
         Numbers(q, n, l), Numbers(r, l, m)
  PROVE  Numbers(q \o r, n, m)
<1>1. PICK a : Counts(a, q, n, l)
  BY DEF Numbers
<1>2. PICK b : Counts(b, r, l, m)
  BY DEF Numbers
<1> DEFINE x == Len(q)
           y == Len(r)
           s == q \o r
           c == [i \in 0 .. x + y |-> IF i <= x THEN a[i] ELSE b[i - x]]
<1>3. /\ x \in Nat /\ y \in Nat /\ Len(s) = x + y
      /\ \A i \in 1 .. x + y : s[i] = IF i <= x THEN q[i] ELSE r[i - x]
  BY ConcatProperties
<1>4. /\ a \in [0 .. x -> Nat] /\ a[0] = n /\ a[x] = l
      /\ \A i \in 1 .. x : \/ q[i].type # "message" /\ a[i] = a[i - 1]
                           \/ q[i] = Message(a[i - 1] + 1) /\ a[i] = a[i - 1] + 1
      /\ \A i, j \in 0 .. x : i <= j => a[i] <= a[j]
  BY <1>1 DEF Counts
<1>5. /\ b \in [0 .. y -> Nat] /\ b[0] = l /\ b[y] = m
      /\ \A i \in 1 .. y : \/ r[i].type # "message" /\ b[i] = b[i - 1]
                           \/ r[i] = Message(b[i - 1] + 1) /\ b[i] = b[i - 1] + 1
      /\ \A i, j \in 0 .. y : i <= j => b[i] <= b[j]
  BY <1>2 DEF Counts
<1> HIDE DEF x, y, s
<1>6. /\ \A i \in 0 .. x : c[i] = a[i]
      /\ \A i \in 0 .. y : c[i + x] = b[i]
  <2>1. \A i \in 0 .. x : c[i] = a[i]
    BY <1>3
  <2>2. ASSUME NEW i \in 0 .. y PROVE c[i + x] = b[i]
    <3>1. CASE i = 0
      <4>1. c[x] = a[x] /\ i + x = x
        BY <1>3, <3>1
      <4> QED
        BY <1>4, <1>5, <3>1, <4>1
    <3>2. CASE i # 0
      <4>1. i + x \in 0 .. x + y /\ ~(i + x <= x) /\ (i + x) - x = i
        BY <1>3, <3>2
      <4> QED
        BY <4>1
    <3> QED
      BY <3>1, <3>2
  <2> QED
    BY <2>1, <2>2
<1>7. c \in [0 .. x + y -> Nat]
  <2> SUFFICES ASSUME NEW i \in 0 .. x + y
               PROVE  (IF i <= x THEN a[i] ELSE b[i - x]) \in Nat
    OBVIOUS
  <2>1. CASE i <= x
    <3>1. i \in 0 .. x
      BY <1>3, <2>1
    <3> QED
      BY <1>4, <2>1, <3>1
  <2>2. CASE ~(i <= x)
    <3>1. i - x \in 0 .. y
      BY <1>3, <2>2
    <3> QED
      BY <1>5, <2>2, <3>1
  <2> QED
    BY <2>1, <2>2
<1> HIDE DEF c
<1>8. c[0] = n /\ c[x + y] = m
  <2>1. 0 \in 0 .. x /\ y \in 0 .. y /\ y + x = x + y
    BY <1>3
  <2>2. c[0] = a[0] /\ c[y + x] = b[y]
    BY <1>6, <2>1
  <2> QED
    BY <1>4, <1>5, <2>1, <2>2
<1>9. \A i \in 1 .. x + y : \/ s[i].type # "message" /\ c[i] = c[i - 1]
                            \/ s[i] = Message(c[i - 1] + 1) /\ c[i] = c[i - 1] + 1
  <2> SUFFICES ASSUME NEW i \in 1 .. x + y
               PROVE  \/ s[i].type # "message" /\ c[i] = c[i - 1]
                      \/ s[i] = Message(c[i - 1] + 1) /\ c[i] = c[i - 1] + 1
    OBVIOUS
  <2>1. CASE i <= x
    <3>1. i \in 1 .. x /\ i \in 0 .. x /\ i - 1 \in 0 .. x
      BY <1>3, <2>1
    <3>2. s[i] = q[i] /\ c[i] = a[i] /\ c[i - 1] = a[i - 1]
      BY <1>3, <1>6, <2>1, <3>1
    <3>3. \/ q[i].type # "message" /\ a[i] = a[i - 1]
          \/ q[i] = Message(a[i - 1] + 1) /\ a[i] = a[i - 1] + 1
      BY <1>4, <3>1
    <3> QED
      BY <3>2, <3>3
  <2>2. CASE ~(i <= x)
    <3> DEFINE j == i - x
    <3>1. j \in 1 .. y /\ j \in 0 .. y /\ j - 1 \in 0 .. y /\ j + x = i /\ (j - 1) + x = i - 1
      BY <1>3, <2>2
    <3> HIDE DEF j
    <3>2. c[j + x] = b[j] /\ c[(j - 1) + x] = b[j - 1]
      BY <1>6, <3>1
    <3>3. s[i] = r[j] /\ c[i] = b[j] /\ c[i - 1] = b[j - 1]
      BY <1>3, <2>2, <3>1, <3>2 DEF j
    <3>4. \/ r[j].type # "message" /\ b[j] = b[j - 1]
          \/ r[j] = Message(b[j - 1] + 1) /\ b[j] = b[j - 1] + 1
      BY <1>5, <3>1
    <3> QED
      BY <3>3, <3>4
  <2> QED
    BY <2>1, <2>2
<1>10. \A i, j \in 0 .. x + y : i <= j => c[i] <= c[j]
  <2> SUFFICES ASSUME NEW i \in 0 .. x + y, NEW j \in 0 .. x + y, i <= j
               PROVE  c[i] <= c[j]
    OBVIOUS
  <2>1. CASE j <= x
    <3>1. i \in 0 .. x /\ j \in 0 .. x
      BY <1>3, <2>1
    <3> QED
      BY <1>4, <1>6, <3>1
  <2>2. CASE ~(i <= x)
    <3>1. i - x \in 0 .. y /\ j - x \in 0 .. y /\ (i - x) + x = i /\ (j - x) + x = j
          /\ i - x <= j - x
      BY <1>3, <2>2
    <3>2. c[(i - x) + x] = b[i - x] /\ c[(j - x) + x] = b[j - x] /\ b[i - x] <= b[j - x]
      BY <1>5, <1>6, <3>1
    <3> QED
      BY <3>1, <3>2
  <2>3. CASE i <= x /\ ~(j <= x)
    <3>1. /\ i \in 0 .. x /\ x \in 0 .. x /\ 0 \in 0 .. y
          /\ j - x \in 0 .. y /\ (j - x) + x = j
      BY <1>3, <2>3
    <3>2. c[i] = a[i] /\ a[i] <= l /\ a[i] \in Nat
      BY <1>4, <1>6, <2>3, <3>1
    <3>3. c[(j - x) + x] = b[j - x] /\ l <= b[j - x] /\ b[j - x] \in Nat
      <4>1. b[0] <= b[j - x]
        BY <1>5, <3>1
      <4> QED
        BY <1>5, <1>6, <3>1, <4>1
    <3>4. l \in Nat
      BY <1>4, <3>1
    <3> QED
      BY <3>1, <3>2, <3>3, <3>4
  <2> QED
    BY <2>1, <2>2, <2>3
<1>11. Counts(c, s, n, m)
  BY <1>3, <1>7, <1>8, <1>9, <1>10 DEF Counts
<1> QED
  BY <1>11 DEF Numbers, s

(* To continue with a sequence and one thing more.                         *)
LEMMA ConcatAppend ==
  ASSUME NEW s \in Seq(Nat), NEW t \in Seq(Nat), NEW e \in Nat
  PROVE  /\ s \o Append(t, e) \in Seq(Nat)
         /\ s \o Append(t, e) = Append(s \o t, e)
<1> DEFINE u == Append(t, e)
           x == s \o u
           y == s \o t
           z == Append(y, e)
<1>1. /\ u \in Seq(Nat) /\ Len(u) = Len(t) + 1 /\ u[Len(t) + 1] = e
      /\ \A i \in 1 .. Len(t) : u[i] = t[i]
  OBVIOUS
<1> HIDE DEF u
<1>2. /\ x \in Seq(Nat) /\ Len(x) = Len(s) + Len(u)
      /\ \A i \in 1 .. Len(s) + Len(u) : x[i] = IF i <= Len(s) THEN s[i] ELSE u[i - Len(s)]
  BY <1>1, ConcatProperties
<1>3. /\ y \in Seq(Nat) /\ Len(y) = Len(s) + Len(t)
      /\ \A i \in 1 .. Len(s) + Len(t) : y[i] = IF i <= Len(s) THEN s[i] ELSE t[i - Len(s)]
  BY ConcatProperties
<1> HIDE DEF x, y
<1>4. /\ z \in Seq(Nat) /\ Len(z) = Len(y) + 1 /\ z[Len(y) + 1] = e
      /\ \A i \in 1 .. Len(y) : z[i] = y[i]
  <2>1. y \in Seq(Nat)
    BY <1>3
  <2> QED
    BY <2>1
<1> HIDE DEF z
<1>5. Len(s) \in Nat /\ Len(t) \in Nat /\ Len(x) = Len(z)
  <2>1. Len(s) \in Nat /\ Len(t) \in Nat
    OBVIOUS
  <2>2. Len(x) = Len(s) + (Len(t) + 1)
    BY <1>1, <1>2, Zenon
  <2>3. Len(z) = (Len(s) + Len(t)) + 1
    BY <1>3, <1>4, Zenon
  <2> QED
    BY <2>1, <2>2, <2>3
<1>6. ASSUME NEW i \in 1 .. Len(x) PROVE x[i] = z[i]
  <2>0. i \in 1 .. Len(s) + Len(u) /\ i \in 1 .. (Len(s) + Len(t)) + 1
    BY <1>1, <1>2, <1>5
  <2>1. CASE i <= Len(s)
    <3>1. i \in 1 .. Len(y) /\ i \in 1 .. Len(s) + Len(t)
      BY <1>3, <1>5, <2>0, <2>1
    <3> QED
      BY <1>2, <1>3, <1>4, <2>0, <2>1, <3>1
  <2>2. CASE i > Len(s) /\ i <= Len(s) + Len(t)
    <3>1. i - Len(s) \in 1 .. Len(t) /\ i \in 1 .. Len(y)
      BY <1>3, <1>5, <2>2
    <3> QED
      BY <1>1, <1>2, <1>3, <1>4, <1>5, <2>2, <3>1
  <2>3. CASE i = Len(s) + Len(t) + 1
    BY <1>1, <1>2, <1>3, <1>4, <1>5, <2>3
  <2> QED
    BY <1>5, <2>0, <2>1, <2>2, <2>3
<1>7. x = z
  BY <1>2, <1>4, <1>5, <1>6, SeqEqual
<1> QED
  BY <1>2, <1>7 DEF x, u, y, z

(* The messages found in a sequence continue those before it.              *)
LEMMA MessagesHeard ==
  ASSUME NEW q \in Seq(Sendable), NEW n, NEW m, Numbers(q, n, m)
  PROVE  UpTo(n) \o MessagesIn(q) = UpTo(m)
<1>1. PICK a : Counts(a, q, n, m)
  BY DEF Numbers
<1>2. PICK r : /\ r[0] = <<>> /\ MessagesIn(q) = r[Len(q)]
               /\ \A k \in 1 .. Len(q) :
                     r[k] = IF q[k].type = "message" THEN Append(r[k - 1], Number(q[k]))
                            ELSE r[k - 1]
  BY MessagesFound
<1> DEFINE z == Len(q)
           I(k) == r[k] \in Seq(Nat) /\ UpTo(n) \o r[k] = UpTo(a[k])
           T == {k \in 0 .. z : I(k)}
<1>3. /\ z \in Nat /\ a \in [0 .. z -> Nat] /\ a[0] = n /\ a[z] = m
      /\ \A i \in 1 .. z : \/ q[i].type # "message" /\ a[i] = a[i - 1]
                           \/ q[i] = Message(a[i - 1] + 1) /\ a[i] = a[i - 1] + 1
  BY <1>1 DEF Counts
<1>4. n \in Nat /\ UpTo(n) \in Seq(Nat)
  <2>1. n \in Nat
    BY NumbersRise
  <2> QED
    BY <2>1, UpToNext
<1> HIDE DEF z
<1>5. ASSUME NEW k \in 0 .. z - 1, I(k)
      PROVE  I(k + 1)
  <2>1. k + 1 \in 1 .. z /\ (k + 1) - 1 = k /\ k \in 0 .. z /\ k + 1 \in 0 .. z
    BY <1>3
  <2> DEFINE p == q[k + 1]
  <2>2. r[k + 1] = IF p.type = "message" THEN Append(r[k], Number(p)) ELSE r[k]
    BY <1>2, <2>1 DEF z
  <2>3. \/ p.type # "message" /\ a[k + 1] = a[k]
        \/ p = Message(a[k] + 1) /\ a[k + 1] = a[k] + 1
    BY <1>3, <2>1
  <2>4. a[k] \in Nat /\ a[k] + 1 \in Nat
    BY <1>3, <2>1
  <2> HIDE DEF p
  <2>5. CASE p.type # "message" /\ a[k + 1] = a[k]
    BY <1>5, <2>2, <2>5
  <2>6. CASE p = Message(a[k] + 1) /\ a[k + 1] = a[k] + 1
    <3>1. p.type = "message" /\ Number(p) = a[k] + 1
      BY <2>4, <2>6, PacketFacts
    <3>2. r[k + 1] = Append(r[k], a[k] + 1)
      BY <2>2, <3>1
    <3>3. r[k] \in Seq(Nat) /\ UpTo(n) \o r[k] = UpTo(a[k])
      BY <1>5
    <3>4. Append(r[k], a[k] + 1) \in Seq(Nat)
      BY <2>4, <3>3
    <3>5. UpTo(n) \o Append(r[k], a[k] + 1) = Append(UpTo(n) \o r[k], a[k] + 1)
      BY <1>4, <2>4, <3>3, ConcatAppend
    <3>6. Append(UpTo(a[k]), a[k] + 1) = UpTo(a[k] + 1)
      BY <2>4, UpToNext
    <3> QED
      BY <2>6, <3>2, <3>3, <3>4, <3>5, <3>6
  <2> QED
    BY <2>3, <2>5, <2>6
<1>6. I(0)
  <2>1. r[0] = <<>> /\ <<>> \in Seq(Nat)
    BY <1>2
  <2>2. UpTo(n) \o <<>> = UpTo(n)
    BY <1>4, ConcatEmptySeq
  <2> QED
    BY <1>3, <2>1, <2>2
<1> HIDE DEF I
<1>7. 0 \in T /\ \A k \in 0 .. z - 1 : k \in T => k + 1 \in T
  BY <1>3, <1>5, <1>6
<1> HIDE DEF T
<1>8. 0 .. z \subseteq T
  BY <1>3, <1>7, Induction
<1>9. z \in T
  BY <1>3, <1>8
<1>10. I(z)
  BY <1>9 DEF T
<1> QED
  BY <1>2, <1>3, <1>10 DEF I, z

(* What the client has on the wire.  A frame of the websocket is a packet, *)
(* or the end.                                                             *)
FrameOf(p) == IF p = ClosePacket THEN CloseFrame ELSE EncodePacket(p, TRUE)
FramesOf(q) == [i \in DOMAIN q |-> EncodePacket(q[i], TRUE)]

(* The packets of the frames; none of the messages comes before the        *)
(* upgrade.                                                                *)
Written(frames, held) ==
  /\ held \in Seq(Sendable) /\ Len(frames) = Len(held)
  /\ \A i \in 1 .. Len(held) : frames[i] = FrameOf(held[i])
  /\ \A i, j \in 1 .. Len(held) :
        held[i] = Packet("upgrade") /\ j < i => held[j].type # "message"

(* The server takes messages from the websocket, or will.                  *)
Hears(v, held) == v = "upgraded" \/ \E i \in 1 .. Len(held) : held[i] = Packet("upgrade")

(* Of the frames it will get the messages after n, up to m.                *)
Told(frames, v, held, n, m) ==
  Written(frames, held) /\ m \in Nat /\ (Hears(v, held) => Numbers(held, n, m))

(* What the client writes once it is connected.                            *)
Outgoing == {p \in Sendable : p.type \in {"pong", "message"}}

(* A frame tells which packet it is.                                       *)
LEMMA FrameFacts ==
  /\ \A p \in Sendable : /\ EncodePacket(p, TRUE) # CloseFrame
                         /\ DecodePacket(EncodePacket(p, TRUE)) = p
                         /\ FrameOf(p) = CloseFrame <=> p = ClosePacket
  /\ \A p, r \in Sendable :
        FrameOf(p) = EncodePacket(r, TRUE) => p = r /\ p # ClosePacket
<1>1. ASSUME NEW p \in Sendable
      PROVE  EncodePacket(p, TRUE) # CloseFrame
  <2>1. CASE IsBinary(p.data)
    <3>1. EncodePacket(p, TRUE) = p.data /\ p.data[1].kind = "buffer"
      BY <2>1 DEF EncodePacket, IsBinary
    <3>2. CloseFrame[1].kind = "close"
      BY DEF CloseFrame, Symbol
    <3> QED
      BY <3>1, <3>2
  <2>2. CASE ~IsBinary(p.data)
    <3> DEFINE c == PACKET_TYPES[p.type]
               d == p.data
    <3>1. EncodePacket(p, TRUE) = <<c>> \o d
      BY <2>2 DEF EncodePacket
    <3>2. c.kind = "char" /\ c \in Symbols
      BY TypeFacts DEF Sendable, Packets
    <3>3. d \in Seq(Symbols)
      BY DEF Sendable, Packets
    <3> HIDE DEF c, d
    <3>4. (<<c>> \o d)[1] = c
      BY <3>2, <3>3
    <3>5. CloseFrame[1].kind = "close"
      BY DEF CloseFrame, Symbol
    <3> QED
      BY <3>1, <3>2, <3>4, <3>5
  <2> QED
    BY <2>1, <2>2
<1>2. ASSUME NEW p \in Sendable
      PROVE  DecodePacket(EncodePacket(p, TRUE)) = p
  BY FrameDecoded
<1>3. ASSUME NEW p \in Sendable
      PROVE  FrameOf(p) = CloseFrame <=> p = ClosePacket
  BY <1>1 DEF FrameOf
<1>4. ASSUME NEW p \in Sendable, NEW r \in Sendable, FrameOf(p) = EncodePacket(r, TRUE)
      PROVE  p = r /\ p # ClosePacket
  <2>1. p # ClosePacket
    BY <1>1, <1>4 DEF FrameOf
  <2>2. EncodePacket(p, TRUE) = EncodePacket(r, TRUE)
    BY <1>4, <2>1 DEF FrameOf
  <2> QED
    BY <1>2, <2>1, <2>2, Zenon
<1> QED
  BY <1>1, <1>2, <1>3, <1>4

(* The packets the client sends by themselves.                             *)
LEMMA ClientPackets ==
  /\ ClosePacket \in Sendable /\ ClosePacket.type = "close"
  /\ Packet("upgrade") \in Sendable /\ Packet("upgrade").type = "upgrade"
  /\ Packet("pong") \in Outgoing
  /\ ProbePacket("ping") \in Sendable /\ ProbePacket("ping").type = "ping"
  /\ \A k \in Nat : Message(k) \in Outgoing
  /\ \A p \in Outgoing : p \in Sendable /\ p # ClosePacket /\ p # Packet("upgrade")
<1>1. /\ ClosePacket \in Sendable /\ ClosePacket.type = "close"
      /\ Packet("upgrade") \in Sendable /\ Packet("upgrade").type = "upgrade"
      /\ Packet("pong") \in Outgoing
      /\ ProbePacket("ping") \in Sendable /\ ProbePacket("ping").type = "ping"
  BY PacketFacts, TypeFacts DEF ClosePacket, Outgoing
<1>2. \A k \in Nat : Message(k) \in Outgoing
  BY PacketFacts DEF Outgoing
<1>3. \A p \in Outgoing : p \in Sendable /\ p # ClosePacket /\ p # Packet("upgrade")
  BY <1>1 DEF Outgoing
<1> QED
  BY <1>1, <1>2, <1>3

(* One frame more that is no message and no upgrade.                       *)
LEMMA FrameAppended ==
  ASSUME NEW frames \in Seq(Frames), NEW v, NEW held, NEW n, NEW m,
         Told(frames, v, held, n, m),
         NEW p \in Sendable, p.type # "message", p # Packet("upgrade")
  PROVE  /\ Told(Append(frames, FrameOf(p)), v, Append(held, p), n, m)
         /\ Hears(v, Append(held, p)) => Hears(v, held)
<1> DEFINE f == FrameOf(p)
           x == Append(frames, f)
           h == Append(held, p)
           z == Len(held)
<1>1. Written(frames, held)
  BY DEF Told
<1>2. /\ held \in Seq(Sendable) /\ z \in Nat /\ Len(frames) = z
      /\ \A i \in 1 .. z : frames[i] = FrameOf(held[i])
  BY <1>1 DEF Written
<1>3. /\ h \in Seq(Sendable) /\ Len(h) = z + 1 /\ h[z + 1] = p
      /\ \A i \in 1 .. z : h[i] = held[i]
  BY <1>2
<1> HIDE DEF f
<1>4. /\ Len(x) = z + 1 /\ x[z + 1] = f
      /\ \A i \in 1 .. z : x[i] = frames[i]
  BY <1>2
<1> HIDE DEF h, x, z
<1>5. ASSUME NEW i \in 1 .. Len(h) PROVE x[i] = FrameOf(h[i])
  <2>1. CASE i = z + 1
    BY <1>3, <1>4, <2>1 DEF f
  <2>2. CASE i # z + 1
    <3>1. i \in 1 .. z
      BY <1>2, <1>3, <2>2
    <3> QED
      BY <1>2, <1>3, <1>4, <3>1
  <2> QED
    BY <2>1, <2>2
<1>6. ASSUME NEW i \in 1 .. Len(h), h[i] = Packet("upgrade")
      PROVE  i \in 1 .. z /\ held[i] = Packet("upgrade")
  <2>1. i # z + 1
    BY <1>3, <1>6
  <2>2. i \in 1 .. z
    BY <1>2, <1>3, <2>1
  <2> QED
    BY <1>3, <1>6, <2>2
<1>7. ASSUME NEW i \in 1 .. Len(h), NEW j \in 1 .. Len(h), h[i] = Packet("upgrade"), j < i
      PROVE  h[j].type # "message"
  <2>1. i \in 1 .. z /\ held[i] = Packet("upgrade")
    BY <1>6, <1>7
  <2>2. j \in 1 .. z
    BY <1>2, <1>7, <2>1
  <2>3. held[j].type # "message"
    BY <1>1, <1>7, <2>1, <2>2 DEF Written, z
  <2> QED
    BY <1>3, <2>2, <2>3
<1>8. Written(x, h)
  BY <1>3, <1>4, <1>5, <1>7 DEF Written
<1>9. Hears(v, h) => Hears(v, held)
  BY <1>6 DEF Hears, z
<1>10. Hears(v, h) => Numbers(h, n, m)
  BY <1>2, <1>9, NumbersAppend DEF Told, h
<1> QED
  BY <1>8, <1>9, <1>10 DEF Told, x, h, f

(* A list of members of S is a sequence over S.                            *)
LEMMA ListIsSeq ==
  ASSUME NEW S, NEW n \in Nat, NEW f, f = [i \in 1 .. n |-> f[i]],
         \A i \in 1 .. n : f[i] \in S
  PROVE  f \in Seq(S) /\ Len(f) = n
<1>1. f \in [1 .. n -> S] /\ DOMAIN f = 1 .. n
  OBVIOUS
<1>2. f \in Seq(S)
  BY <1>1, SeqDef
<1>3. Len(f) \in Nat /\ DOMAIN f = 1 .. Len(f)
  BY <1>2
<1> QED
  BY <1>1, <1>2, <1>3

(* The packets of a flush more.                                            *)
LEMMA FramesJoined ==
  ASSUME NEW frames \in Seq(Frames), NEW v, NEW held, NEW n, NEW m,
         Told(frames, v, held, n, m),
         NEW q \in Seq(Outgoing), NEW l \in Nat, Hears(v, held) => Numbers(q, m, l)
  PROVE  /\ Told(frames \o FramesOf(q), v, held \o q, n, l)
         /\ Hears(v, held \o q) => Hears(v, held)
<1> DEFINE e == FramesOf(q)
           x == frames \o e
           h == held \o q
           z == Len(held)
           y == Len(q)
<1>1. Written(frames, held)
  BY DEF Told
<1>2. /\ held \in Seq(Sendable) /\ z \in Nat /\ Len(frames) = z
      /\ \A i \in 1 .. z : frames[i] = FrameOf(held[i])
  BY <1>1 DEF Written
<1>3. q \in Seq(Sendable) /\ y \in Nat
  BY ClientPackets
<1>4. /\ h \in Seq(Sendable) /\ Len(h) = z + y
      /\ \A i \in 1 .. z + y : h[i] = IF i <= z THEN held[i] ELSE q[i - z]
  BY <1>2, <1>3, ConcatProperties
<1>5. /\ e \in Seq(Frames) /\ Len(e) = y
      /\ \A i \in 1 .. y : e[i] = FrameOf(q[i])
  <2>1. DOMAIN q = 1 .. y
    BY <1>3
  <2>2. e = [i \in 1 .. y |-> EncodePacket(q[i], TRUE)]
    BY <2>1 DEF FramesOf
  <2>3. \A i \in 1 .. y : q[i] \in Outgoing
    BY <1>3
  <2>4. \A i \in 1 .. y : EncodePacket(q[i], TRUE) = FrameOf(q[i])
    BY <2>3, ClientPackets, Zenon DEF FrameOf
  <2>5. \A i \in 1 .. y : EncodePacket(q[i], TRUE) \in Frames
    BY <2>3, ClientPackets, Zenon DEF Frames
  <2> HIDE DEF y, e
  <2>6. \A i \in 1 .. y : e[i] = EncodePacket(q[i], TRUE)
    BY <2>2
  <2>7. e = [i \in 1 .. y |-> e[i]] /\ \A i \in 1 .. y : e[i] \in Frames
    <3>1. e = [i \in 1 .. y |-> e[i]]
      BY <2>2, Zenon
    <3> QED
      BY <2>5, <2>6, <3>1
  <2>8. e \in Seq(Frames) /\ Len(e) = y
    <3>1. y \in Nat
      BY <1>3
    <3> QED
      BY <2>7, <3>1, ListIsSeq, Zenon
  <2> QED
    BY <2>4, <2>6, <2>8, Zenon
<1> HIDE DEF e, y, z, h
<1>6. /\ Len(x) = z + y
      /\ \A i \in 1 .. z + y : x[i] = IF i <= z THEN frames[i] ELSE e[i - z]
  <2>1. Len(frames) = z /\ e \in Seq(Frames) /\ Len(e) = y
    BY <1>2, <1>5
  <2> QED
    BY <2>1, ConcatProperties
<1> HIDE DEF x
<1>7. ASSUME NEW i \in 1 .. Len(h) PROVE x[i] = FrameOf(h[i])
  <2>1. CASE i <= z
    <3>1. i \in 1 .. z /\ i \in 1 .. z + y
      BY <1>2, <1>4, <2>1
    <3> QED
      BY <1>2, <1>4, <1>6, <2>1, <3>1
  <2>2. CASE ~(i <= z)
    <3>1. i - z \in 1 .. y /\ i \in 1 .. z + y
      BY <1>2, <1>3, <1>4, <2>2
    <3> QED
      BY <1>4, <1>5, <1>6, <2>2, <3>1
  <2> QED
    BY <2>1, <2>2
<1>8. ASSUME NEW i \in 1 .. Len(h), h[i] = Packet("upgrade")
      PROVE  i \in 1 .. z /\ held[i] = Packet("upgrade")
  <2>1. i <= z
    <3> SUFFICES ASSUME ~(i <= z) PROVE FALSE
      OBVIOUS
    <3>1. i - z \in 1 .. y /\ i \in 1 .. z + y
      BY <1>2, <1>3, <1>4
    <3>2. h[i] = q[i - z] /\ q[i - z] \in Outgoing
      BY <1>4, <3>1 DEF y
    <3> QED
      BY <1>8, <3>2, ClientPackets
  <2>2. i \in 1 .. z /\ i \in 1 .. z + y
    BY <1>2, <1>4, <2>1
  <2> QED
    BY <1>4, <1>8, <2>1, <2>2
<1>9. ASSUME NEW i \in 1 .. Len(h), NEW j \in 1 .. Len(h), h[i] = Packet("upgrade"), j < i
      PROVE  h[j].type # "message"
  <2>1. i \in 1 .. z /\ held[i] = Packet("upgrade")
    BY <1>8, <1>9
  <2>2. j \in 1 .. z /\ j <= z /\ j \in 1 .. z + y
    BY <1>2, <1>4, <1>9, <2>1
  <2>3. held[j].type # "message"
    BY <1>1, <1>9, <2>1, <2>2 DEF Written, z
  <2> QED
    BY <1>4, <2>2, <2>3
<1>10. Written(x, h)
  BY <1>4, <1>6, <1>7, <1>9 DEF Written
<1>11. Hears(v, h) => Hears(v, held)
  BY <1>8 DEF Hears, z
<1>12. Hears(v, h) => Numbers(h, n, l)
  BY <1>2, <1>3, <1>11, NumbersJoin DEF Told, h
<1> QED
  BY <1>10, <1>11, <1>12 DEF Told, x, h, e

(* A beginning of the frames.                                              *)
LEMMA FramesCut ==
  ASSUME NEW frames \in Seq(Frames), NEW v, NEW held, NEW n, NEW m,
         Told(frames, v, held, n, m), NEW k \in 0 .. Len(frames)
  PROVE  /\ Hears(v, SubSeq(held, 1, k)) => Hears(v, held)
         /\ \E l \in 0 .. m : Told(SubSeq(frames, 1, k), v, SubSeq(held, 1, k), n, l)
<1> DEFINE x == SubSeq(frames, 1, k)
           h == SubSeq(held, 1, k)
           z == Len(held)
<1>1. Written(frames, held) /\ m \in Nat
  BY DEF Told
<1>2. /\ held \in Seq(Sendable) /\ z \in Nat /\ Len(frames) = z
      /\ \A i \in 1 .. z : frames[i] = FrameOf(held[i])
  BY <1>1 DEF Written
<1>3. /\ h \in Seq(Sendable) /\ Len(h) = k /\ k \in Nat /\ k <= z
      /\ \A i \in 1 .. k : h[i] = held[i]
  BY <1>2
<1>4. Len(x) = k /\ \A i \in 1 .. k : x[i] = frames[i]
  BY <1>2
<1> HIDE DEF h, x, z
<1>5. \A i \in 1 .. k : i \in 1 .. z
  BY <1>2, <1>3
<1>6. Written(x, h)
  <2>1. \A i \in 1 .. Len(h) : x[i] = FrameOf(h[i])
    BY <1>2, <1>3, <1>4, <1>5
  <2>2. ASSUME NEW i \in 1 .. Len(h), NEW j \in 1 .. Len(h), h[i] = Packet("upgrade"), j < i
        PROVE  h[j].type # "message"
    <3>1. i \in 1 .. z /\ j \in 1 .. z /\ held[i] = Packet("upgrade") /\ h[j] = held[j]
      BY <1>3, <1>5, <2>2
    <3> QED
      BY <1>1, <2>2, <3>1 DEF Written, z
  <2> QED
    BY <1>3, <1>4, <2>1, <2>2 DEF Written
<1>7. Hears(v, h) => Hears(v, held)
  BY <1>3, <1>5 DEF Hears, z
<1>8. \E l \in 0 .. m : Told(x, v, h, n, l)
  <2>1. CASE Hears(v, held)
    <3>1. Numbers(held, n, m) /\ k \in 0 .. z
      BY <1>2, <1>3, <2>1 DEF Told
    <3>2. PICK l : Numbers(h, n, l) /\ Numbers(SubSeq(held, k + 1, Len(held)), l, m)
      BY <1>2, <3>1, NumbersSplit DEF h, z
    <3>3. l \in Nat /\ l <= m
      <4>1. SubSeq(held, k + 1, Len(held)) \in Seq(Sendable)
        BY <1>2, <1>3 DEF z
      <4> QED
        BY <3>2, <4>1, NumbersRise
    <3>4. Told(x, v, h, n, l) /\ l \in 0 .. m
      BY <1>1, <1>6, <3>2, <3>3 DEF Told
    <3> QED
      BY <3>4
  <2>2. CASE ~Hears(v, held)
    <3>1. Told(x, v, h, n, 0) /\ 0 \in 0 .. m
      BY <1>1, <1>6, <1>7, <2>2 DEF Told
    <3> QED
      BY <3>1
  <2> QED
    BY <2>1, <2>2
<1> QED
  BY <1>7, <1>8 DEF x, h

(* Before the upgrade there is no message among the frames.                *)
LEMMA ProbesWritten ==
  ASSUME NEW frames \in Seq(ProbeFrames), NEW v, v # "upgraded", NEW n \in Nat
  PROVE  \E held : /\ Told(frames, v, held, n, n) /\ ~Hears(v, held)
                   /\ \A i \in 1 .. Len(held) : held[i].type # "message"
<1> DEFINE ping == ProbePacket("ping")
           h == [i \in 1 .. Len(frames) |-> IF frames[i] = CloseFrame THEN ClosePacket ELSE ping]
<1>0. Len(frames) \in Nat /\ \A i \in 1 .. Len(frames) : frames[i] \in ProbeFrames
  OBVIOUS
<1>1. /\ ping \in Sendable /\ ping.type = "ping" /\ ping # ClosePacket
      /\ ClosePacket \in Sendable /\ ClosePacket.type = "close"
      /\ Packet("upgrade").type = "upgrade"
  BY ClientPackets
<1>2. FrameOf(ping) = EncodePacket(ping, TRUE) /\ FrameOf(ClosePacket) = CloseFrame
  BY <1>1 DEF FrameOf
<1>3. \A i \in 1 .. Len(frames) : frames[i] = CloseFrame \/ frames[i] = EncodePacket(ping, TRUE)
  BY <1>0 DEF ProbeFrames
<1> HIDE DEF ping
<1>4. /\ h \in Seq(Sendable) /\ Len(h) = Len(frames)
      /\ \A i \in 1 .. Len(frames) : /\ frames[i] = FrameOf(h[i])
                                     /\ h[i].type # "message" /\ h[i].type # "upgrade"
  <2>1. h \in Seq(Sendable) /\ Len(h) = Len(frames)
    BY <1>0, <1>1
  <2>2. \A i \in 1 .. Len(frames) :
           h[i] = IF frames[i] = CloseFrame THEN ClosePacket ELSE ping
    OBVIOUS
  <2> HIDE DEF h
  <2> QED
    BY <1>1, <1>2, <1>3, <2>1, <2>2
<1> HIDE DEF h
<1>5. Written(frames, h)
  BY <1>4 DEF Written
<1>6. ~Hears(v, h)
  BY <1>1, <1>4 DEF Hears
<1>7. Told(frames, v, h, n, n)
  BY <1>5, <1>6 DEF Told
<1> QED
  BY <1>4, <1>6, <1>7
-----------------------------------------------------------------------------
(* What the client still holds of its messages: those after message n, up  *)
(* to message z, where the session of the server is in state v.            *)

(* What of the buffer is not under way.                                    *)
Rest(s) == SubSeq(s.writeBuffer, s.prevBufferLen + 1, Len(s.writeBuffer))

(* The POSTs the server has not got.                                       *)
Ungot(posts) == {i \in 1 .. Len(posts) : ~posts[i].got}

CloseBody == EncodePayload(<<ClosePacket>>)
ClosePost == [body |-> CloseBody, got |-> FALSE]

(* Polling: the POST that is under way has the beginning of the buffer.    *)
ByPost(s, n, z) ==
  /\ Len(s.posts) <= 1
  /\ \A i \in Ungot(s.posts) :
        /\ s.prevBufferLen > 0
        /\ s.posts[i].body = EncodePayload(SubSeq(s.writeBuffer, 1, s.prevBufferLen))
  /\ Numbers(IF Ungot(s.posts) = {} THEN Rest(s) ELSE s.writeBuffer, n, z)

(* When the socket is closed one POST may still bring messages.            *)
LastPost(body, n, z) ==
  \E q \in Seq(Sendable), m \in Nat :
     q # <<>> /\ body = EncodePayload(q) /\ Numbers(q, n, m) /\ m <= z

LeftPosts(posts, n, z) ==
  \A i \in Ungot(posts) : posts[i].body # CloseBody =>
     /\ LastPost(posts[i].body, n, z)
     /\ \A j \in Ungot(posts) : j # i => posts[j].body = CloseBody

OverPolling(s, v, n, z) ==
  /\ v # "upgraded" /\ s.up \in Seq(ProbeFrames)
  /\ IF s.readyState = "closed" THEN LeftPosts(s.posts, n, z) ELSE ByPost(s, n, z)

(* The websocket: the frames, then the rest of the buffer.                 *)
OverWebsocket(s, v, n, z) ==
  /\ s.posts = <<>>
  /\ \E held, m :
        /\ Told(s.up, v, held, n, m) /\ m <= z
        /\ s.readyState # "closed" /\ Hears(v, held) => Numbers(Rest(s), m, z)

Holds(s, v, n, z) ==
  /\ n \in Nat /\ z \in Nat /\ n <= z
  /\ s.writeBuffer \in Seq(Outgoing) /\ s.prevBufferLen \in 0 .. Len(s.writeBuffer)
  /\ s.transport = "polling" => OverPolling(s, v, n, z)
  /\ s.transport = "websocket" => OverWebsocket(s, v, n, z)

(* The messages are those of the buffer and of what is on the wire only.   *)
LEMMA HoldsAlike ==
  ASSUME NEW s, NEW t, NEW v, NEW n, NEW z, Holds(s, v, n, z),
         t.readyState = "closed" <=> s.readyState = "closed",
         t.transport = s.transport, t.writeBuffer = s.writeBuffer,
         t.prevBufferLen = s.prevBufferLen, t.posts = s.posts, t.up = s.up
  PROVE  Holds(t, v, n, z)
<1>1. Rest(t) = Rest(s)
  BY DEF Rest
<1>2. s.transport = "polling" => OverPolling(t, v, n, z)
  BY <1>1 DEF Holds, OverPolling, ByPost
<1>3. s.transport = "websocket" => OverWebsocket(t, v, n, z)
  <2> SUFFICES ASSUME s.transport = "websocket" PROVE OverWebsocket(t, v, n, z)
    OBVIOUS
  <2>1. PICK held, m :
          /\ Told(s.up, v, held, n, m) /\ m <= z
          /\ s.readyState # "closed" /\ Hears(v, held) => Numbers(Rest(s), m, z)
    BY DEF Holds, OverWebsocket
  <2>2. /\ Told(t.up, v, held, n, m)
        /\ t.readyState # "closed" /\ Hears(v, held) => Numbers(Rest(t), m, z)
    BY <1>1, <2>1
  <2> QED
    BY <2>1, <2>2 DEF Holds, OverWebsocket
<1> QED
  BY <1>2, <1>3 DEF Holds

(* A server that does not begin to hear the websocket.                     *)
LEMMA HoldsQuieter ==
  ASSUME NEW s, NEW v, NEW w, NEW n, NEW z, Holds(s, v, n, z), w = v \/ w # "upgraded"
  PROVE  Holds(s, w, n, z)
<1>1. s.transport = "polling" => OverPolling(s, w, n, z)
  BY DEF Holds, OverPolling
<1>2. s.transport = "websocket" => OverWebsocket(s, w, n, z)
  <2> SUFFICES ASSUME s.transport = "websocket" PROVE OverWebsocket(s, w, n, z)
    OBVIOUS
  <2>1. PICK held, m :
          /\ Told(s.up, v, held, n, m) /\ m <= z
          /\ s.readyState # "closed" /\ Hears(v, held) => Numbers(Rest(s), m, z)
    BY DEF Holds, OverWebsocket
  <2>2. Hears(w, held) => Hears(v, held)
    BY DEF Hears
  <2>3. Told(s.up, w, held, n, m)
    BY <2>1, <2>2 DEF Told
  <2> QED
    BY <2>1, <2>2, <2>3 DEF Holds, OverWebsocket
<1> QED
  BY <1>1, <1>2 DEF Holds

(* What does not matter once the socket is closed.                         *)
LEMMA HoldsClosed ==
  ASSUME NEW s, NEW v, NEW n, NEW z, Holds(s, v, n, z), s.readyState # "closed"
  PROVE  s.transport = "polling" => Len(s.posts) <= 1 /\ LeftPosts(s.posts, n, z)
<1> SUFFICES ASSUME s.transport = "polling"
             PROVE  Len(s.posts) <= 1 /\ LeftPosts(s.posts, n, z)
  OBVIOUS
<1>1. ByPost(s, n, z) /\ s.writeBuffer \in Seq(Sendable) /\ n \in Nat /\ z \in Nat
      /\ s.prevBufferLen \in 0 .. Len(s.writeBuffer)
  BY ClientPackets DEF Holds, OverPolling
<1>2. \A i, j \in Ungot(s.posts) : i = j
  BY <1>1 DEF ByPost, Ungot
<1>3. ASSUME NEW i \in Ungot(s.posts)
      PROVE  LastPost(s.posts[i].body, n, z)
  <2> DEFINE b == s.writeBuffer
             k == s.prevBufferLen
             q == SubSeq(b, 1, k)
  <2>1. k > 0 /\ s.posts[i].body = EncodePayload(q) /\ Numbers(b, n, z)
    BY <1>1, <1>3 DEF ByPost
  <2> HIDE DEF b, k
  <2>2. q \in Seq(Sendable) /\ q # <<>>
    BY <1>1, <2>1 DEF b, k
  <2>3. PICK m : Numbers(q, n, m) /\ Numbers(SubSeq(b, k + 1, Len(b)), m, z)
    BY <1>1, <2>1, NumbersSplit DEF b, k
  <2>4. m \in Nat /\ m <= z
    <3>1. SubSeq(b, k + 1, Len(b)) \in Seq(Sendable)
      BY <1>1 DEF b, k
    <3> QED
      BY <2>3, <3>1, NumbersRise
  <2> HIDE DEF q
  <2> QED
    BY <2>1, <2>2, <2>3, <2>4 DEF LastPost
<1>4. LeftPosts(s.posts, n, z)
  BY <1>2, <1>3 DEF LeftPosts
<1> QED
  BY <1>1, <1>4 DEF ByPost

(* Closing: the buffer is dropped, and the end of the connection may be    *)
(* written.                                                                *)
LEMMA OnCloseWrites ==
  ASSUME NEW s, Typed(s), s.readyState # "closed"
  PROVE  LET t == OnClose(s)
         IN  /\ t.readyState = "closed" /\ t.sent = s.sent /\ t.transport = s.transport
             /\ t.writeBuffer = <<>> /\ t.prevBufferLen = 0
             /\ t.up = s.up \/ t.up = Append(s.up, CloseFrame)
                \/ t.up = Append(Append(s.up, CloseFrame), CloseFrame)
             /\ \/ t.posts = s.posts
                \/ s.transport = "polling" /\ t.posts = Append(s.posts, ClosePost)
<1> DEFINE c == TransportClose(s)
           f == FreezeTransport(c)
           e == [f EXCEPT !.readyState = "closed", !.closeWait = "no",
                          !.writeBuffer = <<>>, !.prevBufferLen = 0, !.pingTimer = FALSE]
<1>1. OnClose(s) = e
  BY DEF OnClose
<1>2. /\ DOMAIN c = Fields /\ c.sent = s.sent /\ c.transport = s.transport
      /\ c.up = s.up \/ c.up = Append(s.up, CloseFrame)
      /\ \/ c.posts = s.posts
         \/ s.transport = "polling" /\ c.posts = Append(s.posts, ClosePost)
  <2>1. CASE s.transport = "polling"
    <3>1. c = PollingClose(s)
      BY <2>1 DEF TransportClose
    <3> HIDE DEF c
    <3> QED
      BY <2>1, <3>1
      DEF Typed, Fields, PollingClose, PollingWrite, DoWrite, ClosePost, CloseBody
  <2>2. CASE s.transport # "polling"
    <3>1. c = WebsocketClose(s)
      BY <2>2 DEF TransportClose
    <3> HIDE DEF c
    <3> QED
      BY <2>2, <3>1 DEF Typed, Fields, WebsocketClose
  <2> QED
    BY <2>1, <2>2
<1> HIDE DEF c
<1>3. /\ DOMAIN f = Fields /\ f.sent = c.sent /\ f.transport = c.transport
      /\ f.up = c.up \/ f.up = Append(c.up, CloseFrame)
      /\ f.posts = c.posts
  BY <1>2 DEF Fields, FreezeTransport, WebsocketClose
<1> HIDE DEF f
<1>4. /\ e.readyState = "closed" /\ e.sent = f.sent /\ e.transport = f.transport
      /\ e.writeBuffer = <<>> /\ e.prevBufferLen = 0 /\ e.up = f.up /\ e.posts = f.posts
  BY <1>3 DEF Fields
<1> HIDE DEF e
<1> QED
  BY <1>1, <1>2, <1>3, <1>4

(* What remains to be kept when the socket closes.                         *)
Closable(s, v, n, z) ==
  /\ n \in Nat /\ z \in Nat /\ n <= z
  /\ s.transport = "polling" =>
        v # "upgraded" /\ s.up \in Seq(ProbeFrames) /\ LeftPosts(s.posts, n, z)
  /\ s.transport = "websocket" =>
        s.posts = <<>> /\ \E held, m : Told(s.up, v, held, n, m) /\ m <= z

(* What must be kept when it closes is part of what is held.               *)
LEMMA HoldsClosable ==
  ASSUME NEW s, NEW v, NEW n, NEW z, Holds(s, v, n, z), s.readyState # "closed"
  PROVE  Closable(s, v, n, z)
<1>1. s.transport = "polling" => LeftPosts(s.posts, n, z)
  BY HoldsClosed
<1>2. s.transport = "websocket" =>
        s.posts = <<>> /\ \E held, m : Told(s.up, v, held, n, m) /\ m <= z
  BY DEF Holds, OverWebsocket
<1> QED
  BY <1>1, <1>2 DEF Closable, Holds, OverPolling

(* The end of the connection behind what was written.                      *)
LEMMA LeftPostsClose ==
  ASSUME NEW posts \in Seq(Posts), NEW n, NEW z, LeftPosts(posts, n, z)
  PROVE  LeftPosts(Append(posts, ClosePost), n, z)
<1> DEFINE k == Len(posts)
           x == Append(posts, ClosePost)
<1>1. /\ k \in Nat /\ Len(x) = k + 1 /\ x[k + 1] = ClosePost
      /\ \A i \in 1 .. k : x[i] = posts[i]
  OBVIOUS
<1>2. ClosePost.body = CloseBody
  BY DEF ClosePost
<1> HIDE DEF x
<1>3. ASSUME NEW i \in Ungot(x), x[i].body # CloseBody
      PROVE  i \in Ungot(posts) /\ x[i] = posts[i] /\ posts[i].body # CloseBody
  <2>1. i \in 1 .. k + 1 /\ ~x[i].got
    BY <1>1, <1>3 DEF Ungot
  <2>2. i # k + 1
    BY <1>1, <1>2, <1>3
  <2>3. i \in 1 .. k
    BY <1>1, <2>1, <2>2
  <2> QED
    BY <1>1, <1>3, <2>1, <2>3 DEF Ungot
<1>4. ASSUME NEW i \in Ungot(x), x[i].body # CloseBody
      PROVE  /\ LastPost(x[i].body, n, z)
             /\ \A j \in Ungot(x) : j # i => x[j].body = CloseBody
  <2>1. i \in Ungot(posts) /\ x[i] = posts[i] /\ posts[i].body # CloseBody
    BY <1>3, <1>4
  <2>2. /\ LastPost(posts[i].body, n, z)
        /\ \A j \in Ungot(posts) : j # i => posts[j].body = CloseBody
    BY <2>1 DEF LeftPosts
  <2>3. ASSUME NEW j \in Ungot(x), j # i, x[j].body # CloseBody
        PROVE  FALSE
    BY <1>3, <2>2, <2>3
  <2> QED
    BY <2>1, <2>2, <2>3
<1> QED
  BY <1>4 DEF LeftPosts, x

(* Closing a socket that is not closed keeps it.                           *)
LEMMA OnCloseLeft ==
  ASSUME NEW s, Typed(s), s.readyState # "closed", NEW v, NEW n, NEW z, Closable(s, v, n, z)
  PROVE  Holds(OnClose(s), v, n, z) /\ OnClose(s).sent = s.sent
<1> DEFINE t == OnClose(s)
<1>1. /\ t.readyState = "closed" /\ t.sent = s.sent /\ t.transport = s.transport
      /\ t.writeBuffer = <<>> /\ t.prevBufferLen = 0
      /\ t.up = s.up \/ t.up = Append(s.up, CloseFrame)
         \/ t.up = Append(Append(s.up, CloseFrame), CloseFrame)
      /\ \/ t.posts = s.posts
         \/ s.transport = "polling" /\ t.posts = Append(s.posts, ClosePost)
  BY OnCloseWrites
<1> HIDE DEF t
<1>2. s.transport = "polling" => OverPolling(t, v, n, z)
  <2> SUFFICES ASSUME s.transport = "polling" PROVE OverPolling(t, v, n, z)
    OBVIOUS
  <2>1. v # "upgraded" /\ s.up \in Seq(ProbeFrames) /\ LeftPosts(s.posts, n, z)
    BY DEF Closable
  <2>2. LeftPosts(t.posts, n, z)
    <3>1. s.posts \in Seq(Posts)
      BY DEF Typed
    <3> QED
      BY <1>1, <2>1, <3>1, LeftPostsClose
  <2>3. t.up \in Seq(ProbeFrames)
    <3>1. CloseFrame \in ProbeFrames
      BY DEF ProbeFrames
    <3>2. Append(s.up, CloseFrame) \in Seq(ProbeFrames)
      BY <2>1, <3>1
    <3>3. Append(Append(s.up, CloseFrame), CloseFrame) \in Seq(ProbeFrames)
      BY <3>1, <3>2
    <3> QED
      BY <1>1, <2>1, <3>2, <3>3
  <2> QED
    BY <1>1, <2>1, <2>2, <2>3 DEF OverPolling
<1>3. s.transport = "websocket" => OverWebsocket(t, v, n, z)
  <2> SUFFICES ASSUME s.transport = "websocket" PROVE OverWebsocket(t, v, n, z)
    OBVIOUS
  <2>1. PICK held, m : Told(s.up, v, held, n, m) /\ m <= z
    BY DEF Closable
  <2>2. s.posts = <<>> /\ t.posts = <<>>
    BY <1>1 DEF Closable
  <2>3. /\ ClosePacket \in Sendable /\ ClosePacket.type # "message"
        /\ ClosePacket # Packet("upgrade") /\ FrameOf(ClosePacket) = CloseFrame
    BY ClientPackets DEF FrameOf
  <2>4. s.up \in Seq(Frames) /\ CloseFrame \in Frames /\ Append(s.up, CloseFrame) \in Seq(Frames)
    <3>1. s.up \in Seq(Frames) /\ CloseFrame \in Frames
      BY DEF Typed, Frames
    <3> QED
      BY <3>1
  <2>5. Told(Append(s.up, CloseFrame), v, Append(held, ClosePacket), n, m)
    BY <2>1, <2>3, <2>4, FrameAppended
  <2>6. Told(Append(Append(s.up, CloseFrame), CloseFrame), v,
             Append(Append(held, ClosePacket), ClosePacket), n, m)
    BY <2>3, <2>4, <2>5, FrameAppended
  <2>7. \E h, k : Told(t.up, v, h, n, k) /\ k <= z
    BY <1>1, <2>1, <2>5, <2>6
  <2> QED
    BY <1>1, <2>2, <2>7 DEF OverWebsocket
<1>4. t.writeBuffer \in Seq(Outgoing) /\ t.prevBufferLen \in 0 .. Len(t.writeBuffer)
  BY <1>1
<1> QED
  BY <1>1, <1>2, <1>3, <1>4 DEF Holds, Closable, t

(* Socket.onClose.                                                         *)
LEMMA OnCloseHolds ==
  ASSUME NEW s, Typed(s), NEW v, NEW n, NEW z, Holds(s, v, n, z)
  PROVE  Holds(OnClose(s), v, n, z) /\ OnClose(s).sent = s.sent
<1>1. CASE s.readyState = "closed"
  BY <1>1 DEF OnClose
<1>2. CASE s.readyState # "closed"
  BY <1>2, HoldsClosable, OnCloseLeft
<1> QED
  BY <1>1, <1>2

(* When flush may write, nothing is under way and the transport is open.   *)
Ready(s) ==
  s.readyState # "closed" /\ ~s.upgrading /\ Writable(s) =>
     /\ s.prevBufferLen = 0 /\ TransportState(s) = "open"
     /\ s.transport = "polling" => s.posts = <<>>

(* In every phase after the handshake.                                     *)
LEMMA LaterReady ==
  ASSUME NEW s, Later(s)
  PROVE  Ready(s)
<1>1. Typed(s)
  BY DEF Later
<1>2. CASE Polls(s)
  BY <1>1, <1>2 DEF Typed, Polls, OnPolling, OnePost, Ready, Writable, TransportState
<1>3. CASE Pauses(s)
  BY <1>3 DEF Pauses, Upgrading, Ready
<1>4. CASE Upgraded(s)
  <2>1. s.wsWritable => s.writeBuffer = <<>> /\ s.prevBufferLen \in 0 .. Len(s.writeBuffer)
    BY <1>4 DEF Upgraded, OnWebsocket
  <2>2. s.wsWritable => s.prevBufferLen = 0
    BY <2>1
  <2> QED
    BY <1>4, <2>2 DEF Upgraded, OnWebsocket, Ready, Writable, TransportState
<1>5. CASE Ended(s)
  BY <1>5 DEF Ended, Ready
<1> QED
  BY <1>2, <1>3, <1>4, <1>5 DEF Later

(* Nothing of the buffer is under way.                                     *)
LEMMA RestWhole ==
  ASSUME NEW s, s.writeBuffer \in Seq(Outgoing), s.prevBufferLen = 0
  PROVE  Rest(s) = s.writeBuffer
<1> DEFINE b == s.writeBuffer
<1>1. SubSeq(b, 1, Len(b)) = b
  BY SubSeqFull
<1> QED
  BY <1>1 DEF Rest

(* Socket.flush.                                                           *)
LEMMA FlushHolds ==
  ASSUME NEW s, Typed(s), Ready(s), NEW v, NEW n, NEW z, Holds(s, v, n, z)
  PROVE  Holds(Flush(s), v, n, z) /\ Flush(s).sent = s.sent
<1> DEFINE b == s.writeBuffer
           k == Len(s.writeBuffer)
           t == Flush(s)
<1>1. CASE ~(s.readyState # "closed" /\ Writable(s) /\ ~s.upgrading /\ s.writeBuffer # <<>>)
  BY <1>1 DEF Flush
<1>2. CASE s.readyState # "closed" /\ Writable(s) /\ ~s.upgrading /\ s.writeBuffer # <<>>
  <2>1. /\ s.prevBufferLen = 0 /\ TransportState(s) = "open"
        /\ s.transport = "polling" => s.posts = <<>>
    BY <1>2 DEF Ready
  <2>2. t = [TransportSend(s, b) EXCEPT !.prevBufferLen = k]
    BY <1>2 DEF Flush
  <2>3. b \in Seq(Outgoing) /\ b \in Seq(Sendable) /\ k \in Nat /\ k > 0 /\ b # <<>>
        /\ n \in Nat /\ z \in Nat /\ n <= z
    <3>1. s.writeBuffer \in Seq(Outgoing) /\ n \in Nat /\ z \in Nat /\ n <= z
      BY DEF Holds
    <3> QED
      BY <1>2, <3>1, ClientPackets
  <2>4. Rest(s) = b
    BY <2>1, <2>3, RestWhole
  <2>5. s.transport \in {"polling", "websocket"}
    BY DEF Typed
  <2>6. CASE s.transport = "polling"
    <3> DEFINE post == [body |-> EncodePayload(b), got |-> FALSE]
               ps == Append(s.posts, post)
               r == [s EXCEPT !.pollWritable = FALSE, !.posts = ps, !.prevBufferLen = k]
    <3>1. TransportSend(s, b) = PollingWrite(s, b)
      BY <2>1, <2>6 DEF TransportSend
    <3>2. PollingWrite(s, b) = [s EXCEPT !.pollWritable = FALSE, !.posts = ps]
      BY DEF PollingWrite, DoWrite, Typed, Fields
    <3>3. post.body = EncodePayload(b) /\ post.got = FALSE
      OBVIOUS
    <3>4. t = r
      BY <2>2, <3>1, <3>2 DEF Typed, Fields
    <3> HIDE DEF t, b, k, post
    <3>5. Len(ps) = 1 /\ ps[1] = post
      <4>1. s.posts = <<>>
        BY <2>1, <2>6
      <4> QED
        BY <4>1
    <3> HIDE DEF ps
    <3>6. /\ r.readyState = s.readyState /\ r.transport = "polling" /\ r.sent = s.sent
          /\ r.writeBuffer = b /\ r.prevBufferLen = k /\ r.up = s.up /\ r.posts = ps
      BY <2>6 DEF Typed, Fields, b
    <3> HIDE DEF r
    <3>7. Ungot(ps) = {1}
      BY <3>3, <3>5 DEF Ungot
    <3>8. SubSeq(b, 1, k) = b
      BY <2>3, SubSeqFull DEF b, k
    <3>9. Numbers(b, n, z)
      <4>1. Ungot(s.posts) = {}
        BY <2>1, <2>6 DEF Ungot
      <4>2. ByPost(s, n, z)
        BY <1>2, <2>6 DEF Holds, OverPolling
      <4> QED
        BY <2>4, <4>1, <4>2 DEF ByPost
    <3>10. ByPost(r, n, z)
      <4>0. Len(ps) <= 1
        BY <3>5
      <4>1. Len(r.posts) <= 1 /\ Ungot(r.posts) = {1}
        BY <3>6, <3>7, <4>0, Zenon
      <4>2. /\ r.prevBufferLen > 0
            /\ r.posts[1].body = EncodePayload(SubSeq(r.writeBuffer, 1, r.prevBufferLen))
        BY <2>3, <3>3, <3>5, <3>6, <3>8
      <4>3. Numbers(r.writeBuffer, n, z)
        BY <3>6, <3>9
      <4> QED
        BY <4>1, <4>2, <4>3 DEF ByPost
    <3>11. OverPolling(r, v, n, z)
      BY <1>2, <2>6, <3>6, <3>10 DEF Holds, OverPolling
    <3> QED
      BY <2>3, <3>4, <3>6, <3>11 DEF Holds, t, b, k
  <2>7. CASE s.transport = "websocket"
    <3> DEFINE r == [s EXCEPT !.wsWritable = FALSE, !.wsTimers = s.wsTimers + 1,
                              !.up = s.up \o FramesOf(b), !.prevBufferLen = k]
    <3>1. TransportSend(s, b) = WebsocketWrite(s, b)
      BY <2>1, <2>7 DEF TransportSend
    <3>2. WebsocketWrite(s, b) = [s EXCEPT !.wsWritable = FALSE, !.wsTimers = s.wsTimers + 1,
                                           !.up = s.up \o FramesOf(b)]
      BY DEF WebsocketWrite, FramesOf, Typed, Fields
    <3>4. t = r
      BY <2>2, <3>1, <3>2 DEF Typed, Fields
    <3> HIDE DEF t, b, k
    <3>5. /\ r.readyState = s.readyState /\ r.transport = "websocket" /\ r.sent = s.sent
          /\ r.writeBuffer = b /\ r.prevBufferLen = k /\ r.up = s.up \o FramesOf(b)
          /\ r.posts = s.posts
      BY <2>7 DEF Typed, Fields, b
    <3> HIDE DEF r
    <3>6. PICK held, m :
            /\ Told(s.up, v, held, n, m) /\ m <= z
            /\ s.readyState # "closed" /\ Hears(v, held) => Numbers(Rest(s), m, z)
      BY <2>7 DEF Holds, OverWebsocket
    <3>7. /\ Told(s.up \o FramesOf(b), v, held \o b, n, z)
          /\ Hears(v, held \o b) => Hears(v, held)
      <4>1. s.up \in Seq(Frames)
        BY DEF Typed
      <4> QED
        BY <1>2, <2>3, <2>4, <3>6, <4>1, FramesJoined
    <3>8. Numbers(Rest(r), z, z)
      <4>1. Rest(r) = <<>>
        BY <2>3, <3>5 DEF Rest, k, b
      <4>2. <<>> \in Seq(Sendable) /\ \A i \in 1 .. Len(<<>>) : <<>>[i].type # "message"
        OBVIOUS
      <4> QED
        BY <2>3, <4>1, <4>2, NumbersSilent
    <3>9. OverWebsocket(r, v, n, z)
      BY <2>3, <2>7, <3>5, <3>7, <3>8 DEF Holds, OverWebsocket
    <3> QED
      BY <2>3, <3>4, <3>5, <3>9 DEF Holds, t, b, k
  <2> QED
    BY <2>5, <2>6, <2>7
<1> QED
  BY <1>1, <1>2

(* One packet more at the end of the buffer.                               *)
LEMMA AppendedRest ==
  ASSUME NEW b \in Seq(Sendable), NEW p \in Sendable, NEW k \in 0 .. Len(b)
  PROVE  LET c == Append(b, p)
         IN  /\ c \in Seq(Sendable) /\ Len(c) = Len(b) + 1
             /\ SubSeq(c, 1, k) = SubSeq(b, 1, k)
             /\ SubSeq(b, k + 1, Len(b)) \in Seq(Sendable)
             /\ SubSeq(c, k + 1, Len(c)) = Append(SubSeq(b, k + 1, Len(b)), p)
<1> DEFINE c == Append(b, p)
           z == Len(b)
           x == SubSeq(b, k + 1, z)
           y == SubSeq(c, k + 1, z + 1)
           u == SubSeq(b, 1, k)
           w == SubSeq(c, 1, k)
           r == Append(x, p)
<1>1. /\ c \in Seq(Sendable) /\ Len(c) = z + 1 /\ c[z + 1] = p
      /\ \A i \in 1 .. z : c[i] = b[i]
  OBVIOUS
<1>2. z \in Nat /\ k \in Nat /\ k <= z
  OBVIOUS
<1> HIDE DEF c
<1>3. /\ x \in Seq(Sendable) /\ Len(x) = z - k
      /\ \A i \in 1 .. z - k : x[i] = b[k + i]
  BY <1>2
<1>4. /\ u \in Seq(Sendable) /\ Len(u) = k
      /\ \A i \in 1 .. k : u[i] = b[i]
  BY <1>2
<1>5. /\ y \in Seq(Sendable) /\ Len(y) = (z - k) + 1
      /\ \A i \in 1 .. (z - k) + 1 : y[i] = c[k + i]
  BY <1>1, <1>2
<1>6. /\ w \in Seq(Sendable) /\ Len(w) = k
      /\ \A i \in 1 .. k : w[i] = c[i]
  BY <1>1, <1>2
<1> HIDE DEF x, y, u, w, z
<1>7. /\ r \in Seq(Sendable) /\ Len(r) = (z - k) + 1 /\ r[(z - k) + 1] = p
      /\ \A i \in 1 .. z - k : r[i] = x[i]
  BY <1>3
<1> HIDE DEF r
<1>8. \A i \in 1 .. k : w[i] = u[i]
  BY <1>1, <1>2, <1>4, <1>6
<1>9. w = u
  BY <1>2, <1>4, <1>6, <1>8, SeqEqual
<1>10. ASSUME NEW i \in 1 .. (z - k) + 1
       PROVE  y[i] = r[i]
  <2>1. CASE i = (z - k) + 1
    <3>1. k + i = z + 1
      BY <1>2, <2>1
    <3> QED
      BY <1>1, <1>5, <1>7, <2>1, <3>1
  <2>2. CASE i # (z - k) + 1
    <3>1. i \in 1 .. z - k /\ k + i \in 1 .. z
      BY <1>2, <2>2
    <3> QED
      BY <1>1, <1>3, <1>5, <1>7, <3>1
  <2> QED
    BY <2>1, <2>2
<1>11. y = r
  BY <1>2, <1>5, <1>7, <1>10, SeqEqual
<1> QED
  BY <1>1, <1>3, <1>9, <1>11 DEF c, x, y, u, w, z, r

(* What is written goes behind the rest of the buffer.                     *)
LEMMA AppendedHolds ==
  ASSUME NEW s, Typed(s), s.readyState # "closed", NEW v, NEW n, NEW z, Holds(s, v, n, z),
         NEW p \in Outgoing, NEW y,
         \/ p.type # "message" /\ y = z
         \/ p = Message(z + 1) /\ y = z + 1
  PROVE  Holds([s EXCEPT !.writeBuffer = Append(@, p)], v, n, y)
<1> DEFINE b == s.writeBuffer
           k == s.prevBufferLen
           c == Append(b, p)
           t == [s EXCEPT !.writeBuffer = c]
<1>1. /\ n \in Nat /\ z \in Nat /\ n <= z /\ b \in Seq(Outgoing) /\ k \in 0 .. Len(b)
      /\ b \in Seq(Sendable) /\ p \in Sendable
  BY ClientPackets DEF Holds
<1>2. y \in Nat /\ z <= y
  BY <1>1
<1>3. c \in Seq(Outgoing)
  BY <1>1
<1>4. /\ c \in Seq(Sendable) /\ Len(c) = Len(b) + 1
      /\ SubSeq(c, 1, k) = SubSeq(b, 1, k)
      /\ SubSeq(b, k + 1, Len(b)) \in Seq(Sendable)
      /\ SubSeq(c, k + 1, Len(c)) = Append(SubSeq(b, k + 1, Len(b)), p)
  BY <1>1, AppendedRest
<1>5. /\ t.readyState = s.readyState /\ t.transport = s.transport /\ t.posts = s.posts
      /\ t.up = s.up /\ t.writeBuffer = c /\ t.prevBufferLen = k
  BY DEF Typed, Fields
<1>6. Rest(s) \in Seq(Sendable) /\ Rest(t) = Append(Rest(s), p)
  BY <1>4, <1>5 DEF Rest
<1> HIDE DEF t, c
<1>7. s.transport = "polling" => OverPolling(t, v, n, y)
  <2> SUFFICES ASSUME s.transport = "polling" PROVE OverPolling(t, v, n, y)
    OBVIOUS
  <2>1. v # "upgraded" /\ s.up \in Seq(ProbeFrames) /\ ByPost(s, n, z)
    BY DEF Holds, OverPolling
  <2>2. \A i \in Ungot(t.posts) :
           /\ t.prevBufferLen > 0
           /\ t.posts[i].body = EncodePayload(SubSeq(t.writeBuffer, 1, t.prevBufferLen))
    BY <1>4, <1>5, <2>1 DEF ByPost
  <2>3. Numbers(IF Ungot(t.posts) = {} THEN Rest(t) ELSE t.writeBuffer, n, y)
    <3>1. CASE Ungot(s.posts) = {}
      <4>1. Numbers(Rest(s), n, z)
        BY <2>1, <3>1 DEF ByPost
      <4>2. Numbers(Append(Rest(s), p), n, y)
        BY <1>1, <1>6, <4>1, NumbersAppend
      <4> QED
        BY <1>5, <1>6, <3>1, <4>2
    <3>2. CASE Ungot(s.posts) # {}
      <4>1. Numbers(b, n, z)
        BY <2>1, <3>2 DEF ByPost
      <4>2. Numbers(Append(b, p), n, y)
        BY <1>1, <4>1, NumbersAppend
      <4> QED
        BY <1>5, <3>2, <4>2 DEF c
    <3> QED
      BY <3>1, <3>2
  <2>4. Len(t.posts) <= 1
    BY <1>5, <2>1 DEF ByPost
  <2> QED
    BY <1>5, <2>1, <2>2, <2>3, <2>4 DEF OverPolling, ByPost
<1>8. s.transport = "websocket" => OverWebsocket(t, v, n, y)
  <2> SUFFICES ASSUME s.transport = "websocket" PROVE OverWebsocket(t, v, n, y)
    OBVIOUS
  <2>1. PICK held, m :
          /\ Told(s.up, v, held, n, m) /\ m <= z
          /\ s.readyState # "closed" /\ Hears(v, held) => Numbers(Rest(s), m, z)
    BY DEF Holds, OverWebsocket
  <2>2. Hears(v, held) => Numbers(Rest(t), m, y)
    BY <1>1, <1>6, <2>1, NumbersAppend
  <2>3. m \in Nat /\ m <= y
    <3>1. m \in Nat /\ m <= z
      BY <2>1 DEF Told
    <3> QED
      BY <1>1, <1>2, <3>1
  <2>4. Told(t.up, v, held, n, m) /\ t.posts = <<>>
    BY <1>5, <2>1 DEF Holds, OverWebsocket
  <2> QED
    BY <2>2, <2>3, <2>4 DEF OverWebsocket
<1>9. k \in 0 .. Len(c) /\ n <= y
  <2>1. Len(b) \in Nat /\ Len(c) = Len(b) + 1
    BY <1>1, <1>4
  <2>2. k \in 0 .. Len(c)
    BY <1>1, <2>1
  <2>3. n <= y
    BY <1>1, <1>2
  <2> QED
    BY <2>2, <2>3
<1> QED
  BY <1>1, <1>2, <1>3, <1>5, <1>7, <1>8, <1>9 DEF Holds, t, c

(* Socket.sendPacket.                                                      *)
LEMMA SendPacketHolds ==
  ASSUME NEW s, Later(s), NEW v, NEW n, NEW z, Holds(s, v, n, z),
         NEW p \in Outgoing, NEW y,
         \/ y = z /\ (p.type # "message" \/ s.readyState \in {"closing", "closed"})
         \/ y = z + 1 /\ p = Message(z + 1) /\ s.readyState \notin {"closing", "closed"}
  PROVE  Holds(SendPacket(s, p), v, n, y) /\ SendPacket(s, p).sent = s.sent
<1>1. CASE s.readyState \in {"closing", "closed"}
  BY <1>1 DEF SendPacket
<1>2. CASE s.readyState \notin {"closing", "closed"}
  <2> DEFINE a == [s EXCEPT !.writeBuffer = Append(@, p)]
  <2>1. SendPacket(s, p) = Flush(a)
    BY <1>2 DEF SendPacket
  <2>2. Typed(s)
    BY DEF Later
  <2>3. Holds(a, v, n, y)
    BY <1>2, <2>2, AppendedHolds
  <2>4. Append(s.writeBuffer, p) \in Seq(Sendable)
    BY <2>2, ClientPackets DEF Typed
  <2>5. Typed(a) /\ a.sent = s.sent
    BY <2>2, <2>4 DEF Typed, Fields
  <2>6. Ready(a)
    <3>1. Ready(s)
      BY LaterReady
    <3>2. /\ a.readyState = s.readyState /\ a.upgrading = s.upgrading
          /\ a.transport = s.transport /\ a.pollWritable = s.pollWritable
          /\ a.wsWritable = s.wsWritable /\ a.prevBufferLen = s.prevBufferLen
          /\ a.pollState = s.pollState /\ a.wsState = s.wsState /\ a.posts = s.posts
      BY <2>2 DEF Typed, Fields
    <3> HIDE DEF a
    <3> QED
      BY <3>1, <3>2 DEF Ready, Writable, TransportState
  <2> HIDE DEF a
  <2>7. Holds(Flush(a), v, n, y) /\ Flush(a).sent = a.sent
    BY <2>3, <2>5, <2>6, FlushHolds
  <2> QED
    BY <2>1, <2>5, <2>7
<1> QED
  BY <1>1, <1>2

(* Socket.onDrain: what was written leaves the buffer.                     *)
LEMMA OnDrainHolds ==
  ASSUME NEW s, Typed(s), s.readyState # "closed", NEW v, NEW n, NEW z, Holds(s, v, n, z),
         s.transport = "polling" => s.posts = <<>>,
         ~s.upgrading => TransportState(s) = "open"
  PROVE  Holds(OnDrain(s), v, n, z) /\ OnDrain(s).sent = s.sent
<1> DEFINE b == SubSeq(s.writeBuffer, s.prevBufferLen + 1, Len(s.writeBuffer))
           d == [s EXCEPT !.writeBuffer = b, !.prevBufferLen = 0]
<1>1. /\ n \in Nat /\ z \in Nat /\ n <= z /\ s.writeBuffer \in Seq(Outgoing)
      /\ s.prevBufferLen \in 0 .. Len(s.writeBuffer)
  BY DEF Holds
<1>2. /\ OnDrain(s) = IF b = <<>> THEN EmitDrain(d) ELSE Flush(d)
      /\ b \in Seq(Sendable) /\ Typed(d) /\ Same(s, d)
  BY <1>1, DrainedBuffer
<1>3. Rest(s) = b
  BY DEF Rest
<1>4. b \in Seq(Outgoing)
  BY <1>1
<1> HIDE DEF b
<1>5. /\ d.readyState = s.readyState /\ d.transport = s.transport /\ d.posts = s.posts
      /\ d.up = s.up /\ d.writeBuffer = b /\ d.prevBufferLen = 0 /\ d.sent = s.sent
      /\ d.upgrading = s.upgrading /\ TransportState(d) = TransportState(s)
  BY DEF Typed, Fields, TransportState
<1> HIDE DEF d
<1>6. Rest(d) = b
  BY <1>4, <1>5, RestWhole
<1>7. s.transport = "polling" => OverPolling(d, v, n, z)
  <2> SUFFICES ASSUME s.transport = "polling" PROVE OverPolling(d, v, n, z)
    OBVIOUS
  <2>1. v # "upgraded" /\ s.up \in Seq(ProbeFrames) /\ ByPost(s, n, z) /\ Ungot(s.posts) = {}
    BY DEF Holds, OverPolling, Ungot
  <2>2. Numbers(b, n, z) /\ Len(s.posts) <= 1
    BY <1>3, <2>1 DEF ByPost
  <2>3. ByPost(d, n, z)
    BY <1>5, <1>6, <2>1, <2>2 DEF ByPost
  <2> QED
    BY <1>5, <2>1, <2>3 DEF OverPolling
<1>8. s.transport = "websocket" => OverWebsocket(d, v, n, z)
  <2> SUFFICES ASSUME s.transport = "websocket" PROVE OverWebsocket(d, v, n, z)
    OBVIOUS
  <2>1. PICK held, m :
          /\ Told(s.up, v, held, n, m) /\ m <= z
          /\ s.readyState # "closed" /\ Hears(v, held) => Numbers(Rest(s), m, z)
    BY DEF Holds, OverWebsocket
  <2>2. /\ Told(d.up, v, held, n, m) /\ d.posts = <<>>
        /\ d.readyState # "closed" /\ Hears(v, held) => Numbers(Rest(d), m, z)
    BY <1>3, <1>5, <1>6, <2>1 DEF Holds, OverWebsocket
  <2> QED
    BY <2>1, <2>2 DEF OverWebsocket
<1>9. Holds(d, v, n, z)
  <2>1. 0 \in 0 .. Len(b)
    BY <1>4
  <2> QED
    BY <1>1, <1>4, <1>5, <1>7, <1>8, <2>1 DEF Holds
<1>10. CASE b = <<>>
  <2>1. OnDrain(s) = EmitDrain(d)
    BY <1>2, <1>10
  <2>2. EmitDrain(d) \in {d, OnClose(d), [d EXCEPT !.closeWait = "upgrade"]}
    BY DEF EmitDrain
  <2>3. Holds(OnClose(d), v, n, z) /\ OnClose(d).sent = s.sent
    BY <1>2, <1>5, <1>9, OnCloseHolds
  <2> DEFINE e == [d EXCEPT !.closeWait = "upgrade"]
  <2>4. /\ e.readyState = d.readyState /\ e.transport = d.transport /\ e.posts = d.posts
        /\ e.up = d.up /\ e.writeBuffer = d.writeBuffer /\ e.prevBufferLen = d.prevBufferLen
        /\ e.sent = d.sent
    BY <1>2 DEF Typed, Fields
  <2> HIDE DEF e
  <2>5. Holds(e, v, n, z)
    BY <1>9, <2>4, HoldsAlike
  <2> QED
    BY <1>5, <1>9, <2>1, <2>2, <2>3, <2>4, <2>5 DEF e
<1>11. CASE b # <<>>
  <2>1. Ready(d)
    BY <1>5 DEF Ready
  <2>2. Holds(Flush(d), v, n, z) /\ Flush(d).sent = d.sent
    BY <1>2, <1>9, <2>1, FlushHolds
  <2> QED
    BY <1>2, <1>5, <1>11, <2>2
<1> QED
  BY <1>10, <1>11

(* Giving the probe up may end its connection, which brings no messages.   *)
LEMMA FreezeHolds ==
  ASSUME NEW s, Typed(s), s.transport = "polling", NEW v, NEW n, NEW z, Holds(s, v, n, z)
  PROVE  Holds(FreezeTransport(s), v, n, z) /\ FreezeTransport(s).sent = s.sent
<1> DEFINE f == FreezeTransport(s)
<1>1. /\ f.readyState = s.readyState /\ f.transport = "polling" /\ f.posts = s.posts
      /\ f.writeBuffer = s.writeBuffer /\ f.prevBufferLen = s.prevBufferLen
      /\ f.sent = s.sent /\ (f.up = s.up \/ f.up = Append(s.up, CloseFrame))
  BY DEF Typed, Fields, FreezeTransport, WebsocketClose
<1> HIDE DEF f
<1>2. v # "upgraded" /\ s.up \in Seq(ProbeFrames)
  BY DEF Holds, OverPolling
<1>3. f.up \in Seq(ProbeFrames)
  <2>1. CloseFrame \in ProbeFrames
    BY DEF ProbeFrames
  <2>2. Append(s.up, CloseFrame) \in Seq(ProbeFrames)
    BY <1>2, <2>1
  <2> QED
    BY <1>1, <1>2, <2>2
<1>4. Rest(f) = Rest(s)
  BY <1>1 DEF Rest
<1>5. OverPolling(f, v, n, z)
  BY <1>1, <1>2, <1>3, <1>4 DEF Holds, OverPolling, ByPost
<1> QED
  BY <1>1, <1>5 DEF Holds, f

(* A packet that is written alone is one frame.                            *)
LEMMA OneFrame ==
  ASSUME NEW p
  PROVE  FramesOf(<<p>>) = <<EncodePacket(p, TRUE)>>
<1> DEFINE q == <<p>>
           f == FramesOf(q)
           e == EncodePacket(p, TRUE)
<1>1. DOMAIN q = 1 .. 1 /\ q[1] = p
  OBVIOUS
<1> HIDE DEF q
<1>2. f = [i \in 1 .. 1 |-> EncodePacket(q[i], TRUE)]
  BY <1>1 DEF FramesOf
<1>3. f[1] = EncodePacket(q[1], TRUE)
  BY <1>2
<1>4. f[1] = e
  BY <1>1, <1>3
<1>5. f = [i \in 1 .. 1 |-> f[i]]
  BY <1>2
<1> HIDE DEF f, e
<1>6. f = <<e>>
  BY <1>4, <1>5
<1> QED
  BY <1>6 DEF f, e, q

(* The websocket becomes the transport: what the server will hear of it is *)
(* behind the upgrade.                                                     *)
LEMMA SwitchHolds ==
  ASSUME NEW s, Typed(s), Upgrading(s), Quiet(s), Len(s.posts) = 0,
         NEW v, NEW n, NEW z, Holds(s, v, n, z)
  PROVE  Holds(SwitchTransport(s), v, n, z) /\ SwitchTransport(s).sent = s.sent
<1>0. s.posts = <<>>
  BY DEF Typed
<1>1. CASE s.probe = "failed"
  BY <1>1 DEF SwitchTransport
<1>2. CASE s.probe # "failed"
  <2> DEFINE q == <<Packet("upgrade")>>
             a == [s EXCEPT !.probe = "done", !.transport = "websocket"]
             t == TransportSend(a, q)
             u == EmitUpgrade(t)
             w == [u EXCEPT !.upgrading = FALSE]
             p == Packet("upgrade")
             f == EncodePacket(p, TRUE)
             up == a.up \o FramesOf(q)
  <2>1. SwitchTransport(s) = Flush(w)
    BY <1>2 DEF SwitchTransport, Upgrading, Running
  <2>2. q \in Seq(Sendable) /\ DOMAIN q = 1 .. 1 /\ q[1] = p /\ p \in Sendable
    BY ClientPackets
  <2>3. /\ Typed(a) /\ a.transport = "websocket" /\ a.wsState = "open"
        /\ a.readyState = s.readyState /\ a.posts = <<>> /\ a.up = s.up
        /\ a.writeBuffer = s.writeBuffer /\ a.prevBufferLen = s.prevBufferLen
        /\ a.sent = s.sent
    BY <1>0, <1>2 DEF Typed, Fields, Upgrading
  <2>4. s.prevBufferLen = 0 /\ s.readyState # "closed" /\ s.transport = "polling"
    BY DEF Typed, Upgrading, Quiet, Running, OnePost
  <2> HIDE DEF q, a
  <2>5. t = [a EXCEPT !.wsWritable = FALSE, !.wsTimers = a.wsTimers + 1, !.up = up]
    BY <2>3 DEF TransportSend, TransportState, WebsocketWrite, FramesOf, Typed, Fields
  <2> HIDE DEF t, p
  <2>6. f = FrameOf(p) /\ f \in Frames
    <3>1. p # ClosePacket
      BY ClientPackets DEF p
    <3> QED
      BY <2>2, <3>1 DEF FrameOf, Frames
  <2>7. up = Append(s.up, f) /\ up \in Seq(Frames)
    <3>1. FramesOf(q) = <<f>>
      BY OneFrame DEF q, p
    <3>2. s.up \in Seq(Frames) /\ a.up = s.up
      BY <2>3 DEF Typed
    <3>3. up = s.up \o <<f>>
      BY <3>1, <3>2
    <3> HIDE DEF f, up
    <3> QED
      BY <2>6, <3>2, <3>3, AppendIsConcat
  <2> HIDE DEF f, up
  <2>8. /\ Typed(t) /\ t.transport = "websocket" /\ t.readyState = s.readyState
        /\ t.posts = <<>> /\ t.writeBuffer = s.writeBuffer /\ t.prevBufferLen = 0
        /\ t.sent = s.sent /\ t.up = up /\ ~t.wsWritable
    BY <2>3, <2>4, <2>5, <2>7 DEF Typed, Fields
  <2>9. /\ n \in Nat /\ z \in Nat /\ n <= z /\ s.writeBuffer \in Seq(Outgoing)
        /\ v # "upgraded" /\ s.up \in Seq(ProbeFrames) /\ s.up \in Seq(Frames)
        /\ ByPost(s, n, z)
    BY <2>4 DEF Holds, OverPolling, Typed
  <2>10. PICK held : /\ Told(s.up, v, held, n, n)
                     /\ \A i \in 1 .. Len(held) : held[i].type # "message"
    BY <2>9, ProbesWritten
  <2>11. Told(up, v, Append(held, p), n, n)
    <3> DEFINE h == Append(held, p)
               k == Len(held)
    <3>1. Written(s.up, held) /\ held \in Seq(Sendable)
      BY <2>10 DEF Told, Written
    <3>2. p.type # "message"
      BY ClientPackets DEF p
    <3>3. /\ h \in Seq(Sendable) /\ k \in Nat /\ Len(h) = k + 1 /\ h[k + 1] = p
          /\ \A i \in 1 .. k : h[i] = held[i]
      BY <2>2, <3>1
    <3>4. /\ Len(up) = k + 1 /\ up[k + 1] = f
          /\ \A i \in 1 .. k : up[i] = s.up[i]
      <4>1. Len(s.up) = k
        BY <3>1 DEF Written
      <4> QED
        BY <2>7, <2>9, <3>3, <4>1
    <3> HIDE DEF h, k
    <3>5. ASSUME NEW i \in 1 .. Len(h)
          PROVE  up[i] = FrameOf(h[i]) /\ h[i].type # "message"
      <4>1. CASE i = k + 1
        BY <2>6, <3>2, <3>3, <3>4, <4>1
      <4>2. CASE i # k + 1
        <5>1. i \in 1 .. k
          BY <3>3, <4>2
        <5>2. held[i].type # "message" /\ s.up[i] = FrameOf(held[i])
          BY <2>10, <3>1, <5>1 DEF Written, k
        <5> QED
          BY <3>3, <3>4, <5>1, <5>2
      <4> QED
        BY <4>1, <4>2
    <3>6. Written(up, h)
      BY <3>3, <3>4, <3>5 DEF Written
    <3>7. Numbers(h, n, n)
      BY <2>9, <3>3, <3>5, NumbersSilent
    <3> QED
      BY <2>9, <3>6, <3>7 DEF Told, h
  <2>12. Numbers(Rest(t), n, z)
    <3>1. Rest(t) = s.writeBuffer /\ Rest(s) = s.writeBuffer
      BY <2>4, <2>8, <2>9, RestWhole
    <3>2. Ungot(s.posts) = {}
      BY <1>0 DEF Ungot
    <3> QED
      BY <2>9, <3>1, <3>2 DEF ByPost
  <2>13. Holds(t, v, n, z)
    <3>1. OverWebsocket(t, v, n, z)
      BY <2>8, <2>9, <2>11, <2>12 DEF OverWebsocket
    <3>2. 0 \in 0 .. Len(s.writeBuffer)
      BY <2>9
    <3> QED
      BY <2>8, <2>9, <3>1, <3>2 DEF Holds
  <2>14. /\ Holds(u, v, n, z) /\ u.sent = s.sent /\ Typed(u)
         /\ u.readyState = "closed" \/ u = t
    <3>1. CASE t.closeWait = "upgrade"
      <4>1. u = OnClose(t)
        BY <3>1 DEF EmitUpgrade
      <4>2. Holds(OnClose(t), v, n, z) /\ OnClose(t).sent = t.sent
        BY <2>8, <2>13, OnCloseHolds
      <4>3. t.pollState = "paused"
        BY <2>3, <2>5 DEF Quiet, Typed, Fields, a
      <4>4. Typed(OnClose(t)) /\ Ended(OnClose(t))
        BY <2>4, <2>8, <4>3, OnCloseEnds
      <4> QED
        BY <2>8, <4>1, <4>2, <4>4 DEF Ended
    <3>2. CASE t.closeWait # "upgrade"
      BY <2>8, <2>13, <3>2 DEF EmitUpgrade
    <3> QED
      BY <3>1, <3>2
  <2>15. /\ w.readyState = u.readyState /\ w.transport = u.transport /\ w.posts = u.posts
         /\ w.up = u.up /\ w.writeBuffer = u.writeBuffer
         /\ w.prevBufferLen = u.prevBufferLen /\ w.sent = u.sent
         /\ w.wsWritable = u.wsWritable /\ Typed(w)
    <3> HIDE DEF u
    <3> QED
      BY <2>14 DEF Typed, Fields
  <2> HIDE DEF u, w
  <2>16. Holds(w, v, n, z)
    BY <2>14, <2>15, HoldsAlike
  <2>17. Flush(w) = w
    BY <2>8, <2>14, <2>15 DEF Flush, Writable
  <2> QED
    BY <2>1, <2>14, <2>15, <2>16, <2>17
<1> QED
  BY <1>1, <1>2

(* Polling.pause, when one of what it waits for has come.                  *)
LEMMA PausedByHolds ==
  ASSUME NEW s, Typed(s), NEW v, NEW n, NEW z, Holds(s, v, n, z), NEW event,
         s.readyState # "closed" /\ event \in s.pauseFor /\ s.pauseFor \ {event} = {}
            => Upgrading(s) /\ ~s.polling /\ s.pollWritable
  PROVE  /\ Holds(PausedBy(s, event), v, n, z) /\ PausedBy(s, event).sent = s.sent
         /\ Typed(PausedBy(s, event))
<1> DEFINE w == [s EXCEPT !.pauseFor = s.pauseFor \ {event}]
           y == [w EXCEPT !.pollState = "paused"]
<1>1. PausedBy(s, event) = IF event \in s.pauseFor /\ s.pauseFor \ {event} = {}
                           THEN SwitchTransport(y) ELSE w
  BY DEF PausedBy, Typed, Fields
<1>2. /\ w.readyState = s.readyState /\ w.transport = s.transport /\ w.posts = s.posts
      /\ w.up = s.up /\ w.writeBuffer = s.writeBuffer
      /\ w.prevBufferLen = s.prevBufferLen /\ w.sent = s.sent
      /\ y.readyState = s.readyState /\ y.transport = s.transport /\ y.posts = s.posts
      /\ y.up = s.up /\ y.writeBuffer = s.writeBuffer
      /\ y.prevBufferLen = s.prevBufferLen /\ y.sent = s.sent
      /\ Typed(w) /\ Typed(y)
  BY DEF Typed, Fields
<1>3. Holds(w, v, n, z) /\ Holds(y, v, n, z)
  <2> HIDE DEF w, y
  <2> QED
    BY <1>2, HoldsAlike
<1>4. CASE ~(event \in s.pauseFor /\ s.pauseFor \ {event} = {})
  BY <1>1, <1>2, <1>3, <1>4
<1>5. CASE event \in s.pauseFor /\ s.pauseFor \ {event} = {} /\ s.readyState = "closed"
  <2>1. SwitchTransport(y) = y
    BY <1>2, <1>5 DEF SwitchTransport
  <2> QED
    BY <1>1, <1>2, <1>3, <1>5, <2>1
<1>6. CASE event \in s.pauseFor /\ s.pauseFor \ {event} = {} /\ s.readyState # "closed"
  <2>1. Upgrading(s) /\ ~s.polling /\ s.pollWritable
    BY <1>6
  <2>2. Upgrading(y) /\ Quiet(y) /\ Len(y.posts) = 0
    BY <1>6, <2>1 DEF Typed, Fields, Upgrading, Running, OnePost, Waits, Quiet
  <2> HIDE DEF y
  <2>3. Holds(SwitchTransport(y), v, n, z) /\ SwitchTransport(y).sent = y.sent
    BY <1>2, <1>3, <2>2, SwitchHolds
  <2>4. Typed(SwitchTransport(y))
    BY <1>2, <2>2, SwitchGoes
  <2> QED
    BY <1>1, <1>2, <1>6, <2>3, <2>4
<1> QED
  BY <1>4, <1>5, <1>6

(* The pong of the probe.                                                  *)
LEMMA ProbePongHolds ==
  ASSUME NEW s, Typed(s), Polls(s), NEW v, NEW n, NEW z, Holds(s, v, n, z)
  PROVE  Holds(ProbePong(s), v, n, z) /\ ProbePong(s).sent = s.sent
<1> DEFINE p == [s EXCEPT !.probe = "pausing", !.upgrading = TRUE]
           wait == Awaited(p)
           r == [p EXCEPT !.pollState = "pausing", !.pauseFor = wait]
<1>1. p.polling
  BY DEF Typed, Fields, Polls
<1>2. wait # {}
  BY <1>1 DEF Awaited
<1>3. ProbePong(s) = r
  BY <1>2 DEF ProbePong, Pause, Awaited
<1> HIDE DEF wait
<1>4. /\ r.readyState = s.readyState /\ r.transport = s.transport /\ r.posts = s.posts
      /\ r.up = s.up /\ r.writeBuffer = s.writeBuffer
      /\ r.prevBufferLen = s.prevBufferLen /\ r.sent = s.sent
  BY DEF Typed, Fields
<1> HIDE DEF r
<1>5. Holds(r, v, n, z)
  BY <1>4, HoldsAlike
<1> QED
  BY <1>3, <1>4, <1>5
-----------------------------------------------------------------------------
(* What the client holds, as many messages as it has sent.                 *)
Owes(s, v, n) == Holds(s, v, n, s.sent)

(* t is s but for what is not the business of its messages.                *)
Alike(s, t) ==
  /\ t.readyState = "closed" <=> s.readyState = "closed"
  /\ t.transport = s.transport /\ t.writeBuffer = s.writeBuffer
  /\ t.prevBufferLen = s.prevBufferLen /\ t.posts = s.posts /\ t.up = s.up
  /\ t.sent = s.sent

(* Then t holds what s does.                                               *)
LEMMA OwesAlike ==
  ASSUME NEW s, NEW t, NEW v, NEW n, Owes(s, v, n), Alike(s, t)
  PROVE  Owes(t, v, n) /\ t.sent = s.sent
BY HoldsAlike DEF Owes, Alike

(* Socket.write.                                                           *)
LEMMA WriteOwes ==
  ASSUME NEW s, Later(s), NEW v, NEW n, Owes(s, v, n)
  PROVE  Owes(Write(s), v, n) /\ Write(s).sent \in {s.sent, s.sent + 1}
<1>1. CASE s.sent = MaxUp \/ s.readyState # "open"
  BY <1>1 DEF Write
<1>2. CASE ~(s.sent = MaxUp \/ s.readyState # "open")
  <2> DEFINE z == s.sent
             p == Message(z + 1)
             a == SendPacket(s, p)
             t == [a EXCEPT !.sent = a.sent + 1]
  <2>1. Write(s) = t
    BY <1>2 DEF Write
  <2>2. z \in Nat /\ z + 1 \in Nat /\ Holds(s, v, n, z)
    BY DEF Later, Typed, Owes
  <2>3. p \in Outgoing /\ p \in Sendable
    BY <2>2, ClientPackets
  <2>4. Typed(a)
    BY <2>3, SendPacketKeeps DEF Later
  <2> HIDE DEF z
  <2>5. Holds(a, v, n, z + 1) /\ a.sent = s.sent
    <3>1. s.readyState \notin {"closing", "closed"}
      BY <1>2
    <3> DEFINE y == z + 1
    <3>2. y = z + 1 /\ p = Message(z + 1)
      OBVIOUS
    <3> HIDE DEF y, p
    <3>3. Holds(SendPacket(s, p), v, n, y) /\ SendPacket(s, p).sent = s.sent
      BY <2>2, <2>3, <3>1, <3>2, SendPacketHolds
    <3> QED
      BY <3>3 DEF y, p
  <2> HIDE DEF a
  <2>6. /\ t.readyState = a.readyState /\ t.transport = a.transport /\ t.posts = a.posts
        /\ t.up = a.up /\ t.writeBuffer = a.writeBuffer /\ t.prevBufferLen = a.prevBufferLen
        /\ t.sent = z + 1
    BY <2>4, <2>5 DEF Typed, Fields, z
  <2> HIDE DEF t
  <2>7. Holds(t, v, n, z + 1)
    BY <2>5, <2>6, HoldsAlike
  <2> QED
    BY <2>1, <2>6, <2>7 DEF Owes, z
<1> QED
  BY <1>1, <1>2

(* Socket.onPacket after the handshake.                                    *)
LEMMA OnPacketOwes ==
  ASSUME NEW s, Later(s), NEW p \in Incoming, NEW v, NEW n, Owes(s, v, n)
  PROVE  Owes(OnPacket(s, p), v, n) /\ OnPacket(s, p).sent = s.sent
<1>1. Typed(s)
  BY DEF Later
<1>2. CASE s.readyState = "closed"
  BY <1>2 DEF OnPacket
<1>3. CASE s.readyState # "closed" /\ p.type = "ping"
  <2> DEFINE a == [s EXCEPT !.pingTimer = TRUE]
             r == Packet("pong")
             t == SendPacket(a, r)
             z == s.sent
  <2>1. OnPacket(s, p) = t
    BY <1>3 DEF OnPacket
  <2>2. Typed(a) /\ Alike(s, a)
    BY <1>1 DEF Typed, Fields, Alike
  <2>3. /\ Polls(s) => Polls(a)
        /\ Pauses(s) => Pauses(a)
        /\ Upgraded(s) => Upgraded(a)
    BY <1>1 DEF Typed, Fields, Polls, OnPolling, Probing, Waits, OnePost, Running,
                Pauses, Upgrading, Quiet, Awaited, Upgraded, OnWebsocket
  <2> HIDE DEF a
  <2>4. Later(a)
    BY <1>3, <2>2, <2>3 DEF Later, Ended
  <2>5. Holds(a, v, n, z) /\ a.sent = z
    BY <2>2, OwesAlike DEF Owes
  <2>6. r \in Outgoing /\ r.type # "message"
    BY ClientPackets, PacketFacts, TypeFacts
  <2> HIDE DEF z, r
  <2>7. Holds(SendPacket(a, r), v, n, z) /\ SendPacket(a, r).sent = a.sent
    BY <2>4, <2>5, <2>6, SendPacketHolds
  <2> QED
    BY <2>1, <2>5, <2>7 DEF Owes, z
<1>4. CASE s.readyState # "closed" /\ p.type = "message"
  <2> DEFINE a == [s EXCEPT !.heard = Append(s.heard, Number(p))]
  <2>1. OnPacket(s, p) = a
    BY <1>1, <1>4 DEF OnPacket, Typed, Fields
  <2>2. Alike(s, a)
    BY <1>1 DEF Typed, Fields, Alike
  <2> HIDE DEF a
  <2> QED
    BY <2>1, <2>2, OwesAlike
<1>5. CASE s.readyState # "closed" /\ p.type \in {"noop", "pong"}
  BY <1>5 DEF OnPacket
<1> QED
  BY <1>2, <1>3, <1>4, <1>5, IncomingFacts

(* The handshake, in which the first message may be written.               *)
LEMMA HandshakeOwes ==
  ASSUME NEW s, Typed(s), s.readyState = "opening", s.transport = "polling",
         s.polling, s.pollState = "open", s.pollWritable, s.pauseFor = {}, ~s.upgrading,
         s.writeBuffer = <<>>, s.prevBufferLen = 0, s.closeWait = "no",
         s.probe = "none", s.wsState = "none", s.posts = <<>>, s.up \in Seq(ProbeFrames),
         NEW v, NEW n, Owes(s, v, n)
  PROVE  LET t == OnHandshake(s) IN Owes(t, v, n) /\ t.sent \in {s.sent, s.sent + 1}
<1> DEFINE a == [s EXCEPT !.readyState = "open"]
           w == Write(a)
           o == Flush(w)
           t == [(IF s.upgrades THEN Probe(o) ELSE o) EXCEPT !.pingTimer = TRUE]
<1>1. OnHandshake(s) = t
  BY DEF OnHandshake
<1>2. Typed(a) /\ Polls(a) /\ Alike(s, a)
  BY DEF Typed, Fields, Polls, OnPolling, Probing, Waits, OnePost, Running, Alike
<1> HIDE DEF a
<1>3. Owes(a, v, n) /\ a.sent = s.sent
  BY <1>2, OwesAlike
<1>4. Typed(w) /\ Polls(w)
  BY <1>2, WriteKeeps DEF Later
<1>5. Owes(w, v, n) /\ w.sent \in {s.sent, s.sent + 1}
  BY <1>2, <1>3, WriteOwes DEF Later
<1> HIDE DEF w
<1>6. Holds(o, v, n, w.sent) /\ o.sent = w.sent
  <2>1. Ready(w)
    BY <1>4, LaterReady DEF Later
  <2> QED
    BY <1>4, <1>5, <2>1, FlushHolds DEF Owes
<1>7. Typed(o)
  BY <1>4, FlushPolling DEF Polls
<1> HIDE DEF o
<1>8. Alike(o, t)
  BY <1>7 DEF Typed, Fields, Probe, Alike
<1>9. Owes(o, v, n)
  BY <1>6 DEF Owes
<1> HIDE DEF t
<1>10. Owes(t, v, n) /\ t.sent = o.sent
  BY <1>8, <1>9, OwesAlike
<1> QED
  BY <1>1, <1>5, <1>6, <1>10

(* One packet of a payload, after the handshake.                           *)
LEMMA PayloadPacketOwes ==
  ASSUME NEW s, Later(s), NEW p \in Incoming, NEW v, NEW n, Owes(s, v, n)
  PROVE  LET t == OnPayloadPacket(s, p) IN Owes(t, v, n) /\ t.sent = s.sent
<1>1. CASE s.threw
  BY <1>1 DEF OnPayloadPacket
<1>2. CASE ~s.threw
  <2> DEFINE a == OnPacket(s, p)
             throws == /\ s.readyState # "closed" /\ p.type = "message"
                       /\ Number(p) \in Throwing
             t == [a EXCEPT !.threw = throws]
  <2>1. s.pollState # "opening" /\ p.type # "close"
    BY IncomingFacts DEF Later, Polls, OnPolling, Pauses, Quiet, Upgraded, OnWebsocket, Ended
  <2>2. OnPayloadPacket(s, p) = t
    BY <1>2, <2>1 DEF OnPayloadPacket
  <2>3. Owes(a, v, n) /\ a.sent = s.sent
    BY OnPacketOwes
  <2>4. Typed(a)
    BY OnPacketKeeps DEF Later
  <2> HIDE DEF a, throws
  <2>5. Alike(a, t)
    BY <2>4 DEF Typed, Fields, Alike
  <2> HIDE DEF t
  <2>6. Owes(t, v, n) /\ t.sent = a.sent
    BY <2>3, <2>5, OwesAlike
  <2> QED
    BY <2>2, <2>3, <2>6
<1> QED
  BY <1>1, <1>2

(* The first packet of all.                                                *)
LEMMA PayloadOpenOwes ==
  ASSUME NEW s, Typed(s), Opening(s), NEW v, NEW n, Owes(s, v, n)
  PROVE  LET t == OnPayloadPacket(s, Packet("open"))
         IN  Owes(t, v, n) /\ t.sent \in {s.sent, s.sent + 1}
<1> DEFINE o == [s EXCEPT !.pollState = "open", !.pollWritable = TRUE]
           h == OnHandshake(o)
           t == [h EXCEPT !.threw = FALSE]
<1>1. Packet("open").type = "open"
  BY PacketFacts, TypeFacts
<1>2. Typed(o) /\ Alike(s, o)
  BY DEF Typed, Fields, Alike
<1>3. /\ o.readyState = "opening" /\ o.transport = "polling"
      /\ o.polling /\ o.pollState = "open" /\ o.pollWritable /\ o.pauseFor = {} /\ ~o.upgrading
      /\ o.writeBuffer = <<>> /\ o.prevBufferLen = 0 /\ o.closeWait = "no"
      /\ o.probe = "none" /\ o.wsState = "none" /\ o.posts = <<>> /\ ~o.threw
  BY DEF Typed, Fields, Opening
<1>4. o.up \in Seq(ProbeFrames)
  <2>1. o.up = <<>>
    BY DEF Typed, Fields, Opening
  <2>2. <<>> \in Seq(ProbeFrames)
    OBVIOUS
  <2> QED
    BY <2>1, <2>2, Zenon
<1>5. OnPayloadPacket(s, Packet("open")) = t
  BY <1>1, <1>3 DEF OnPayloadPacket, OnPacket, Opening
<1> HIDE DEF o
<1>6. Owes(o, v, n) /\ o.sent = s.sent
  BY <1>2, OwesAlike
<1>7. Owes(h, v, n) /\ h.sent \in {o.sent, o.sent + 1}
  BY <1>2, <1>3, <1>4, <1>6, HandshakeOwes
<1>8. Typed(h)
  BY <1>2, <1>3, <1>4, HandshakeGoes
<1> HIDE DEF h
<1>9. Alike(h, t)
  BY <1>8 DEF Typed, Fields, Alike
<1> HIDE DEF t
<1>10. Owes(t, v, n) /\ t.sent = h.sent
  BY <1>7, <1>9, OwesAlike
<1> QED
  BY <1>5, <1>6, <1>7, <1>10

(* A close packet.                                                         *)
LEMMA PayloadCloseOwes ==
  ASSUME NEW s, Typed(s), NEW v, NEW n, Owes(s, v, n)
  PROVE  LET t == OnPayloadPacket(s, ClosePacket) IN Owes(t, v, n) /\ t.sent = s.sent
<1> DEFINE a == [s EXCEPT !.pollState = "closed"]
<1>1. ClosePacket.type = "close"
  BY PacketFacts, TypeFacts DEF ClosePacket
<1>2. OnPayloadPacket(s, ClosePacket) = IF s.threw THEN s ELSE OnClose(a)
  BY <1>1 DEF OnPayloadPacket
<1>3. Typed(a) /\ Alike(s, a)
  BY DEF Typed, Fields, Alike
<1> HIDE DEF a
<1>4. Owes(a, v, n) /\ a.sent = s.sent
  BY <1>3, OwesAlike
<1>5. Owes(OnClose(a), v, n) /\ OnClose(a).sent = s.sent
  BY <1>3, <1>4, OnCloseHolds DEF Owes
<1> QED
  BY <1>2, <1>5

(* A closed socket takes no notice of a payload.                           *)
LEMMA PayloadEndedOwes ==
  ASSUME NEW s, Typed(s), Ended(s), NEW p, NEW v, NEW n, Owes(s, v, n)
  PROVE  LET t == OnPayloadPacket(s, p) IN Owes(t, v, n) /\ t.sent = s.sent
<1>1. CASE s.threw
  BY <1>1 DEF OnPayloadPacket
<1>2. CASE ~s.threw /\ p.type = "close"
  <2> DEFINE a == [s EXCEPT !.pollState = "closed"]
  <2>1. OnPayloadPacket(s, p) = OnClose(a)
    BY <1>2 DEF OnPayloadPacket, Ended
  <2>2. Typed(a) /\ Ended(a) /\ Alike(s, a)
    BY DEF Typed, Fields, Ended, Alike
  <2> HIDE DEF a
  <2>3. OnClose(a) = a
    BY <2>2, EndedStays
  <2> QED
    BY <2>1, <2>2, <2>3, OwesAlike
<1>3. CASE ~s.threw /\ p.type # "close"
  <2> DEFINE a == [s EXCEPT !.threw = FALSE]
  <2>1. OnPayloadPacket(s, p) = a
    BY <1>3, EndedStays DEF OnPayloadPacket, Ended
  <2>2. Alike(s, a)
    BY DEF Typed, Fields, Alike
  <2> HIDE DEF a
  <2> QED
    BY <2>1, <2>2, OwesAlike
<1> QED
  BY <1>1, <1>2, <1>3

(* A payload after the handshake.                                          *)
LEMMA PayloadOwes ==
  ASSUME NEW c, Later(c), NEW q \in Seq(Sendable), NEW a \in 0 .. Len(q), NEW r,
         r[a] = c, \A k \in a + 1 .. Len(q) : r[k] = OnPayloadPacket(r[k - 1], q[k]),
         Ended(c) \/ \A k \in a + 1 .. Len(q) : q[k] \in Incoming,
         NEW v, NEW n, Owes(c, v, n)
  PROVE  LET t == r[Len(q)] IN Owes(t, v, n) /\ t.sent = c.sent
<1> DEFINE l == Len(q)
           I(t) == /\ Later(t) /\ (Ended(c) => Ended(t))
                   /\ Owes(t, v, n) /\ t.sent = c.sent
           T == {k \in 0 .. l : k < a \/ I(r[k])}
<1>0. l \in Nat
  OBVIOUS
<1> HIDE DEF l
<1>1. ASSUME NEW k \in 0 .. l - 1, k + 1 > a, I(r[k])
      PROVE  I(r[k + 1])
  <2>1. k + 1 \in a + 1 .. l /\ (k + 1) - 1 = k
    BY <1>0, <1>1
  <2>2. r[k + 1] = OnPayloadPacket(r[k], q[k + 1])
    BY <2>1 DEF l
  <2> DEFINE u == r[k]
             p == q[k + 1]
             t == OnPayloadPacket(u, p)
  <2>3. CASE Ended(c)
    <3>1. Typed(u) /\ Ended(u) /\ Owes(u, v, n) /\ u.sent = c.sent
      BY <1>1, <2>3 DEF Later
    <3> HIDE DEF u, p
    <3>2. Typed(t) /\ Ended(t)
      BY <3>1, PayloadEnded
    <3>3. Owes(t, v, n) /\ t.sent = u.sent
      BY <3>1, PayloadEndedOwes
    <3> HIDE DEF t
    <3>4. I(t)
      BY <3>1, <3>2, <3>3 DEF Later
    <3> QED
      BY <2>2, <3>4 DEF t, u, p
  <2>4. CASE ~Ended(c)
    <3>1. p \in Incoming /\ Later(u) /\ Owes(u, v, n) /\ u.sent = c.sent
      BY <1>1, <2>1, <2>4 DEF l
    <3> HIDE DEF u, p
    <3>2. Later(t)
      BY <3>1, PayloadPacketKeeps
    <3>3. Owes(t, v, n) /\ t.sent = u.sent
      BY <3>1, PayloadPacketOwes
    <3> HIDE DEF t
    <3>4. I(t)
      BY <2>4, <3>1, <3>2, <3>3
    <3> QED
      BY <2>2, <3>4 DEF t, u, p
  <2> QED
    BY <2>3, <2>4
<1>2. I(r[a])
  OBVIOUS
<1>3. a \in 0 .. l
  BY DEF l
<1> HIDE DEF I
<1>4. 0 \in T
  BY <1>0, <1>2, <1>3
<1>5. \A k \in 0 .. l - 1 : k \in T => k + 1 \in T
  <2> SUFFICES ASSUME NEW k \in 0 .. l - 1, k \in T PROVE k + 1 \in T
    OBVIOUS
  <2>1. CASE k + 1 < a
    BY <1>0, <2>1
  <2>2. CASE k + 1 = a
    BY <1>0, <1>2, <2>2
  <2>3. CASE k + 1 > a
    BY <1>0, <1>1, <1>3, <2>3
  <2> QED
    BY <1>0, <1>3, <2>1, <2>2, <2>3
<1> HIDE DEF T
<1>6. 0 .. l \subseteq T
  BY <1>0, <1>4, <1>5, Induction
<1>7. I(r[l])
  BY <1>0, <1>3, <1>6 DEF T
<1> QED
  BY <1>7 DEF I, l

(* After the packets of a payload.                                         *)
LEMMA AfterOwes ==
  ASSUME NEW d, Later(d), NEW v, NEW n, Owes(d, v, n)
  PROVE  Owes(AfterPackets(d), v, n) /\ AfterPackets(d).sent = d.sent
<1> DEFINE x == [d EXCEPT !.polling = FALSE]
           c == PausedBy(x, "pollComplete")
           t == AfterPackets(d)
<1>0. t = IF d.pollState = "closed" \/ d.threw THEN d
          ELSE IF c.pollState = "open" THEN Poll(c) ELSE c
  BY DEF AfterPackets
<1> HIDE DEF t
<1>1. Typed(d)
  BY DEF Later
<1>2. Typed(x) /\ Alike(d, x)
  BY <1>1 DEF Typed, Fields, Alike
<1>3. Owes(x, v, n) /\ x.sent = d.sent
  <2> HIDE DEF x
  <2> QED
    BY <1>2, OwesAlike
<1>4. x.readyState # "closed" /\ "pollComplete" \in x.pauseFor
         /\ x.pauseFor \ {"pollComplete"} = {}
         => Upgrading(x) /\ ~x.polling /\ x.pollWritable
  <2>1. x.readyState = d.readyState /\ x.pauseFor = d.pauseFor /\ ~x.polling
        /\ x.pollWritable = d.pollWritable
    BY <1>1 DEF Typed, Fields
  <2>2. Pauses(d) => Upgrading(x)
    BY <1>1 DEF Typed, Fields, Pauses, Upgrading, Waits, OnePost, Running
  <2> HIDE DEF x
  <2> SUFFICES ASSUME d.readyState # "closed", "pollComplete" \in d.pauseFor,
                      d.pauseFor \ {"pollComplete"} = {}
               PROVE  Pauses(d) /\ d.pollWritable
    BY <2>1, <2>2
  <2>3. Pauses(d)
    BY DEF Later, Polls, OnPolling, Upgraded, OnWebsocket, Ended
  <2>4. d.pauseFor = Awaited(d)
    BY <2>3 DEF Pauses, Quiet
  <2> QED
    BY <2>3, <2>4 DEF Awaited
<1>5. Owes(c, v, n) /\ c.sent = d.sent /\ Typed(c)
  <2> HIDE DEF x
  <2>1. Holds(c, v, n, x.sent) /\ c.sent = x.sent /\ Typed(c)
    BY <1>2, <1>3, <1>4, PausedByHolds DEF Owes
  <2> QED
    BY <1>3, <2>1 DEF Owes
<1>6. CASE d.pollState = "closed" \/ d.threw
  BY <1>0, <1>6 DEF t
<1>7. CASE ~(d.pollState = "closed" \/ d.threw) /\ c.pollState # "open"
  BY <1>0, <1>5, <1>7 DEF t
<1>8. CASE ~(d.pollState = "closed" \/ d.threw) /\ c.pollState = "open"
  <2> DEFINE u == [[c EXCEPT !.polling = TRUE] EXCEPT !.gets = @ + 1]
  <2>1. t = u
    BY <1>0, <1>8 DEF Poll, DoPoll
  <2> HIDE DEF c
  <2>3. Alike(c, u)
    BY <1>5 DEF Typed, Fields, Alike
  <2> HIDE DEF u
  <2>4. Owes(u, v, n) /\ u.sent = c.sent
    BY <1>5, <2>3, OwesAlike
  <2> QED
    BY <1>5, <2>1, <2>4 DEF t
<1> QED
  BY <1>6, <1>7, <1>8

(* The answer to a GET.                                                    *)
LEMMA OnDataOwes ==
  ASSUME NEW s, Client(s), s.gets > 0, NEW q \in Seq(Sendable), q # <<>>,
         \/ Ended(s)
         \/ q = <<ClosePacket>>
         \/ Opening(s) /\ q[1] = Packet("open") /\ \A k \in 2 .. Len(q) : q[k] \in Incoming
         \/ ~Opening(s) /\ \A k \in 1 .. Len(q) : q[k] \in Incoming,
         NEW v, NEW n, Owes(s, v, n)
  PROVE  LET t == OnData(s, EncodePayload(q)) IN Owes(t, v, n) /\ t.sent \in {s.sent, s.sent + 1}
<1>1. PICK r : Chain(s, q, r)
  BY OnDataChain
<1> DEFINE c == r[0]
           d == r[Len(q)]
<1>2. OnData(s, EncodePayload(q)) = AfterPackets(d)
  BY <1>1 DEF Chain
<1>3. Typed(c) /\ Alike(s, c)
  <2>1. c = [s EXCEPT !.gets = @ - 1] /\ Typed(c)
    BY <1>1 DEF Chain, Answered
  <2>2. Typed(s)
    BY DEF Client
  <2> HIDE DEF c
  <2> QED
    BY <2>1, <2>2 DEF Typed, Fields, Alike
<1>4. /\ Opening(s) <=> Opening(c)
      /\ Polls(s) => Polls(c)
      /\ Pauses(s) => Pauses(c)
      /\ Ended(s) <=> Ended(c)
  BY <1>1 DEF Chain, Answered
<1>5. ~Ended(s) => ~s.threw /\ (Opening(s) \/ Polls(s) \/ Pauses(s))
  BY OnDataChain
<1>6. c.threw = s.threw
  BY <1>1 DEF Chain, Answered
<1>8. /\ r[0] = c /\ d = r[Len(q)] /\ Len(q) \in Nat /\ Len(q) > 0
      /\ \A k \in 1 .. Len(q) : r[k] = OnPayloadPacket(r[k - 1], q[k])
  BY <1>1 DEF Chain
<1> HIDE DEF c, d
<1>9. Owes(c, v, n) /\ c.sent = s.sent /\ s.sent \in Nat
  BY <1>3, OwesAlike DEF Client, Typed
<1>10. Later(d) /\ Owes(d, v, n) /\ d.sent \in {s.sent, s.sent + 1}
  <2>0. 0 \in 0 .. Len(q) /\ 1 \in 0 .. Len(q) /\ 1 \in 1 .. Len(q) /\ 0 + 1 = 1 /\ 1 + 1 = 2
        /\ 1 - 1 = 0
    BY <1>8
  <2>1. CASE Ended(s)
    <3>1. Later(c) /\ Ended(c)
      BY <1>3, <1>4, <2>1 DEF Later
    <3>2. Later(d)
      BY <1>8, <2>0, <3>1, PayloadKeeps
    <3>3. Owes(d, v, n) /\ d.sent = c.sent
      BY <1>8, <1>9, <2>0, <3>1, PayloadOwes
    <3> QED
      BY <1>9, <3>2, <3>3
  <2>2. CASE ~Ended(s) /\ q = <<ClosePacket>>
    <3>1. Len(q) = 1 /\ q[1] = ClosePacket
      BY <2>2
    <3>2. d = OnPayloadPacket(c, ClosePacket)
      BY <1>8, <2>0, <3>1
    <3>3. Opening(c) \/ Polls(c) \/ Pauses(c)
      BY <1>4, <1>5, <2>2
    <3>4. Typed(d) /\ Ended(d)
      BY <1>3, <1>5, <1>6, <2>2, <3>2, <3>3, PayloadCloseEnds
    <3>5. Owes(d, v, n) /\ d.sent = c.sent
      BY <1>3, <1>9, <3>2, PayloadCloseOwes
    <3> QED
      BY <1>9, <3>4, <3>5 DEF Later
  <2>3. CASE /\ ~Ended(s) /\ Opening(s) /\ q[1] = Packet("open")
             /\ \A k \in 2 .. Len(q) : q[k] \in Incoming
    <3> DEFINE b == r[1]
    <3>1. b = OnPayloadPacket(c, Packet("open"))
      BY <1>8, <2>0, <2>3
    <3>2. r[1] = b
      OBVIOUS
    <3> HIDE DEF b
    <3>3. Typed(b) /\ Polls(b)
      BY <1>3, <1>4, <2>3, <3>1, PayloadOpenGoes
    <3>4. Later(b)
      BY <3>3 DEF Later
    <3>5. Owes(b, v, n) /\ b.sent \in {c.sent, c.sent + 1}
      BY <1>3, <1>4, <1>9, <2>3, <3>1, PayloadOpenOwes
    <3>6. /\ \A k \in 1 + 1 .. Len(q) : r[k] = OnPayloadPacket(r[k - 1], q[k])
          /\ \A k \in 1 + 1 .. Len(q) : q[k] \in Incoming
      BY <1>8, <2>0, <2>3
    <3>7. LET e == r[Len(q)] IN Later(e)
      BY <2>0, <3>2, <3>4, <3>6, PayloadKeeps
    <3>8. LET e == r[Len(q)] IN Owes(e, v, n) /\ e.sent = b.sent
      BY <2>0, <3>2, <3>4, <3>5, <3>6, PayloadOwes
    <3>9. Later(d) /\ Owes(d, v, n) /\ d.sent = b.sent
      BY <1>8, <3>7, <3>8, Zenon
    <3> QED
      BY <1>9, <3>5, <3>9
  <2>4. CASE ~Ended(s) /\ ~Opening(s) /\ \A k \in 1 .. Len(q) : q[k] \in Incoming
    <3>1. Later(c)
      BY <1>3, <1>4, <1>5, <2>4 DEF Later
    <3>2. Later(d)
      BY <1>8, <2>0, <2>4, <3>1, PayloadKeeps
    <3>3. Owes(d, v, n) /\ d.sent = c.sent
      BY <1>8, <1>9, <2>0, <2>4, <3>1, PayloadOwes
    <3> QED
      BY <1>9, <3>2, <3>3
  <2> QED
    BY <2>1, <2>2, <2>3, <2>4
<1>11. Owes(AfterPackets(d), v, n) /\ AfterPackets(d).sent = d.sent
  BY <1>10, AfterOwes
<1> QED
  BY <1>2, <1>10, <1>11

(* Socket.close.                                                           *)
LEMMA CloseOwes ==
  ASSUME NEW s, Typed(s), s.readyState # "closed", NEW v, NEW n, Owes(s, v, n)
  PROVE  Owes(Close(s), v, n) /\ Close(s).sent = s.sent
<1> DEFINE c == [s EXCEPT !.readyState = "closing"]
           a == [c EXCEPT !.closeWait = "drain"]
           b == [c EXCEPT !.closeWait = "upgrade"]
<1>1. Close(s) = IF s.writeBuffer # <<>> THEN a ELSE IF s.upgrading THEN b ELSE OnClose(c)
  BY DEF Close
<1>2. Alike(s, a) /\ Alike(s, b) /\ Alike(s, c) /\ Typed(c)
  BY DEF Typed, Fields, Alike
<1> HIDE DEF a, b, c
<1>3. Owes(a, v, n) /\ a.sent = s.sent
  BY <1>2, OwesAlike
<1>4. Owes(b, v, n) /\ b.sent = s.sent
  BY <1>2, OwesAlike
<1>5. Owes(c, v, n) /\ c.sent = s.sent
  BY <1>2, OwesAlike
<1>6. Owes(OnClose(c), v, n) /\ OnClose(c).sent = s.sent
  BY <1>2, <1>5, OnCloseHolds DEF Owes
<1> QED
  BY <1>1, <1>3, <1>4, <1>6
-----------------------------------------------------------------------------
(* The steps of the client.                                                *)

(* Calls from above, the ping timer, and a GET that fails.                 *)
LEMMA CallsOwe ==
  ASSUME Client(client), AppWrite \/ AppClose \/ PingTimeout \/ PollFailed,
         NEW v, NEW n, Owes(client, v, n)
  PROVE  Owes(client', v, n) /\ client'.sent \in {client.sent, client.sent + 1}
<1>0. Typed(client)
  BY DEF Client
<1>1. CASE AppWrite
  <2>1. Later(client) /\ client' = Write(client)
    BY <1>1 DEF AppWrite, Client, Later, Opening
  <2> QED
    BY <2>1, WriteOwes
<1>2. CASE AppClose
  <2>1. client.readyState # "closed" /\ client' = Close(client)
    BY <1>2 DEF AppClose
  <2> QED
    BY <1>0, <2>1, CloseOwes
<1>3. CASE PingTimeout
  <2>1. client' = OnClose(client)
    BY <1>3 DEF PingTimeout
  <2> QED
    BY <1>0, <2>1, OnCloseHolds DEF Owes
<1>4. CASE PollFailed
  <2> DEFINE a == [client EXCEPT !.gets = @ - 1]
  <2>1. client' = OnClose(a) /\ client.gets > 0
    BY <1>4 DEF PollFailed
  <2>2. Typed(a) /\ Alike(client, a)
    BY <1>0, <2>1 DEF Typed, Fields, Alike
  <2> HIDE DEF a
  <2>3. Owes(a, v, n) /\ a.sent = client.sent
    BY <2>2, OwesAlike
  <2> QED
    BY <2>1, <2>2, <2>3, OnCloseHolds DEF Owes
<1> QED
  BY <1>1, <1>2, <1>3, <1>4

(* The timer of WS.write.                                                  *)
LEMMA WebsocketDrainOwes ==
  ASSUME Client(client), WebsocketDrain, NEW v, NEW n, Owes(client, v, n)
  PROVE  Owes(client', v, n) /\ client'.sent = client.sent
<1> DEFINE s == [client EXCEPT !.wsTimers = @ - 1, !.wsWritable = TRUE]
<1>1. /\ Typed(client) /\ client.wsTimers > 0
      /\ client' = IF s.transport = "websocket" /\ Live THEN OnDrain(s) ELSE s
  BY DEF Client, WebsocketDrain
<1>2. Typed(s) /\ Alike(client, s) /\ s.readyState = client.readyState /\ s.wsState = client.wsState
  BY <1>1 DEF Typed, Fields, Alike
<1> HIDE DEF s
<1>3. Owes(s, v, n) /\ s.sent = client.sent
  BY <1>2, OwesAlike
<1>4. CASE s.transport = "websocket" /\ Live
  <2>1. Upgraded(client)
    BY <1>2, <1>4 DEF Client, Live, Opening, Polls, OnPolling, Pauses, Upgrading, Ended, Alike
  <2>2. s.readyState # "closed" /\ TransportState(s) = "open" /\ s.transport # "polling"
    BY <1>2, <1>4, <2>1 DEF Upgraded, OnWebsocket, Running, TransportState
  <2>3. Holds(OnDrain(s), v, n, s.sent) /\ OnDrain(s).sent = s.sent
    BY <1>2, <1>3, <2>2, OnDrainHolds DEF Owes
  <2> QED
    BY <1>1, <1>3, <1>4, <2>3 DEF Owes
<1>5. CASE ~(s.transport = "websocket" /\ Live)
  BY <1>1, <1>3, <1>5
<1> QED
  BY <1>4, <1>5

(* A list without one of its things has the others.                        *)
LEMMA RemovedItems ==
  ASSUME NEW posts \in Seq(Posts), NEW i \in 1 .. Len(posts)
  PROVE  /\ Len(RemoveAt(posts, i)) = Len(posts) - 1 /\ Len(posts) \in Nat
         /\ \A k \in 1 .. Len(posts) - 1 :
               RemoveAt(posts, i)[k] = posts[IF k < i THEN k ELSE k + 1]
<1> DEFINE a == SubSeq(posts, 1, i - 1)
           b == SubSeq(posts, i + 1, Len(posts))
<1>1. /\ a \in Seq(Posts) /\ Len(a) = i - 1
      /\ b \in Seq(Posts) /\ Len(b) = Len(posts) - i
      /\ \A k \in 1 .. i - 1 : a[k] = posts[k]
      /\ \A k \in 1 .. Len(posts) - i : b[k] = posts[i + k]
  OBVIOUS
<1>2. RemoveAt(posts, i) = a \o b
  BY DEF RemoveAt
<1> HIDE DEF a, b
<1>3. /\ Len(a \o b) = Len(a) + Len(b)
      /\ \A k \in 1 .. Len(a) + Len(b) : (a \o b)[k] = IF k <= Len(a) THEN a[k] ELSE b[k - Len(a)]
  BY <1>1, ConcatProperties
<1>4. (i - 1) + (Len(posts) - i) = Len(posts) - 1 /\ Len(posts) \in Nat
  OBVIOUS
<1>5. ASSUME NEW k \in 1 .. Len(posts) - 1
      PROVE  (a \o b)[k] = posts[IF k < i THEN k ELSE k + 1]
  <2>1. CASE k < i
    <3>1. k \in 1 .. i - 1 /\ k <= Len(a) /\ k \in 1 .. Len(a) + Len(b)
      BY <1>1, <1>4, <2>1
    <3> QED
      BY <1>1, <1>3, <2>1, <3>1
  <2>2. CASE ~(k < i)
    <3>1. /\ k - Len(a) \in 1 .. Len(posts) - i /\ ~(k <= Len(a)) /\ k \in 1 .. Len(a) + Len(b)
          /\ i + (k - Len(a)) = k + 1
      BY <1>1, <1>4, <2>2
    <3> QED
      BY <1>1, <1>3, <2>2, <3>1
  <2> QED
    BY <2>1, <2>2
<1> QED
  BY <1>1, <1>2, <1>3, <1>4, <1>5

(* One POST less.                                                          *)
LEMMA LeftPostsRemoved ==
  ASSUME NEW posts \in Seq(Posts), NEW i \in 1 .. Len(posts), NEW n, NEW z,
         LeftPosts(posts, n, z)
  PROVE  LeftPosts(RemoveAt(posts, i), n, z)
<1> DEFINE rest == RemoveAt(posts, i)
           f(k) == IF k < i THEN k ELSE k + 1
<1>1. /\ Len(rest) = Len(posts) - 1 /\ Len(posts) \in Nat
      /\ \A k \in 1 .. Len(posts) - 1 : rest[k] = posts[f(k)]
  BY RemovedItems
<1> HIDE DEF rest
<1>2. ASSUME NEW k \in Ungot(rest)
      PROVE  f(k) \in Ungot(posts) /\ rest[k] = posts[f(k)] /\ k \in Int
  <2>1. k \in 1 .. Len(posts) - 1 /\ ~rest[k].got
    BY <1>1 DEF Ungot
  <2>2. f(k) \in 1 .. Len(posts)
    BY <1>1, <2>1
  <2> QED
    BY <1>1, <2>1, <2>2 DEF Ungot
<1>3. \A j, k \in Int : j # k => f(j) # f(k)
  OBVIOUS
<1> HIDE DEF f
<1>4. ASSUME NEW k \in Ungot(rest), rest[k].body # CloseBody
      PROVE  /\ LastPost(rest[k].body, n, z)
             /\ \A j \in Ungot(rest) : j # k => rest[j].body = CloseBody
  <2>1. f(k) \in Ungot(posts) /\ posts[f(k)].body # CloseBody
    BY <1>2, <1>4
  <2>2. /\ LastPost(posts[f(k)].body, n, z)
        /\ \A j \in Ungot(posts) : j # f(k) => posts[j].body = CloseBody
    BY <2>1 DEF LeftPosts
  <2>3. ASSUME NEW j \in Ungot(rest), j # k PROVE rest[j].body = CloseBody
    BY <1>2, <1>3, <2>2, <2>3
  <2> QED
    BY <1>2, <2>2, <2>3
<1> QED
  BY <1>4 DEF LeftPosts, rest

(* The answer to a POST.                                                   *)
LEMMA PostAnsweredOwes ==
  ASSUME Client(client), PostAnswered, NEW v, NEW n, Owes(client, v, n)
  PROVE  Owes(client', v, n) /\ client'.sent = client.sent
<1>0. Typed(client)
  BY DEF Client
<1>1. PICK i \in 1 .. Len(client.posts) :
        /\ client.posts[i].got
        /\ LET s == [client EXCEPT !.posts = RemoveAt(@, i), !.pollWritable = TRUE]
           IN  client' = IF Live THEN PausedBy(OnDrain(s), "drain") ELSE s
  BY DEF PostAnswered
<1> DEFINE z == client.sent
           rest == RemoveAt(client.posts, i)
           s == [client EXCEPT !.posts = rest, !.pollWritable = TRUE]
           t == OnDrain(s)
           u == PausedBy(t, "drain")
<1>2. client' = IF Live THEN u ELSE s
  BY <1>1
<1>3. client.posts \in Seq(Posts) /\ Len(client.posts) \in Nat
  BY <1>0 DEF Typed
<1>4. rest \in Seq(Posts) /\ Len(rest) = Len(client.posts) - 1
  BY <1>3, Removed
<1>5. Holds(client, v, n, z)
  BY DEF Owes
<1>6. client.transport = "polling" /\ OverPolling(client, v, n, z)
  <2>1. client.posts # <<>>
    BY <1>3
  <2> QED
    BY <1>0, <1>5, <2>1 DEF Holds, OverWebsocket, Typed
<1> HIDE DEF rest
<1>7. /\ Typed(s) /\ s.readyState = client.readyState /\ s.transport = client.transport
      /\ s.writeBuffer = client.writeBuffer /\ s.prevBufferLen = client.prevBufferLen
      /\ s.posts = rest /\ s.up = client.up /\ s.sent = client.sent
      /\ s.pollState = client.pollState /\ s.upgrading = client.upgrading
  BY <1>0, <1>4 DEF Typed, Fields
<1>8. CASE ~Live
  <2>1. LeftPosts(client.posts, n, z)
    BY <1>6, <1>8 DEF OverPolling, Live
  <2>2. LeftPosts(rest, n, z)
    BY <1>3, <2>1, LeftPostsRemoved DEF rest
  <2> HIDE DEF s, z
  <2>3. OverPolling(s, v, n, z)
    BY <1>6, <1>7, <1>8, <2>2 DEF OverPolling, Live
  <2>4. Holds(s, v, n, z)
    BY <1>5, <1>6, <1>7, <2>3 DEF Holds
  <2> QED
    BY <1>2, <1>7, <1>8, <2>4 DEF Owes, z
<1>9. CASE Live
  <2>1. ByPost(client, n, z)
    BY <1>6, <1>9 DEF OverPolling, Live
  <2>2. Len(client.posts) = 1 /\ Ungot(client.posts) = {}
    <3>1. Len(client.posts) <= 1
      BY <2>1, Zenon DEF ByPost
    <3> DEFINE x == Len(client.posts)
    <3>2. x \in Nat /\ x <= 1 /\ i \in 1 .. x
      BY <1>3, <3>1
    <3> HIDE DEF x
    <3>3. i = 1 /\ x = 1
      BY <3>2
    <3> USE DEF x
    <3> QED
      BY <1>1, <3>3 DEF Ungot
  <2>3. Numbers(Rest(client), n, z)
    BY <2>1, <2>2 DEF ByPost
  <2>4. rest = <<>> /\ Ungot(rest) = {}
    <3>1. Len(rest) = 0
      BY <1>4, <2>2
    <3>2. rest = <<>>
      BY <1>4, <3>1
    <3>3. 1 .. Len(rest) = {}
      BY <3>1
    <3> QED
      BY <3>2, <3>3, Zenon DEF Ungot
  <2>5. Polls(client) \/ Pauses(client)
    BY <1>1, <1>3, <1>9 DEF Client, Live, Opening, Upgraded, OnWebsocket, Ended
  <2>6. ~client.pollWritable
        /\ client.prevBufferLen \in 1 .. Len(client.writeBuffer) /\ Len(client.writeBuffer) \in Nat
    BY <1>0, <2>2, <2>5 DEF Polls, OnPolling, Pauses, Upgrading, OnePost, Typed
  <2>7. Polls(client) =>
          /\ Running(s) /\ s.transport = "polling" /\ s.pollState = "open"
          /\ ~s.upgrading /\ s.pauseFor = {} /\ Probing(s) /\ s.pollWritable /\ Len(s.posts) = 0
          /\ s.prevBufferLen \in 0 .. Len(s.writeBuffer) /\ Waits(s) /\ s.polling
          /\ s.up \in Seq(ProbeFrames)
    BY <1>0, <1>4, <2>2, <2>6
       DEF Typed, Fields, Polls, OnPolling, Probing, OnePost, Running, Waits
  <2>8. Pauses(client) =>
          /\ Running(s) /\ s.transport = "polling" /\ s.upgrading /\ s.pingTimer
          /\ s.pollWritable /\ Len(s.posts) = 0
          /\ \/ s.probe = "pausing" /\ s.wsState = "open"
             \/ s.probe = "failed" /\ s.wsState = "closed"
          /\ s.prevBufferLen \in 0 .. Len(s.writeBuffer) /\ Waits(s) /\ s.up \in Seq(ProbeFrames)
          /\ s.pauseFor \ {"drain"} = (IF s.polling THEN {"pollComplete"} ELSE {})
    BY <1>0, <1>4, <2>2, <2>6
       DEF Typed, Fields, Pauses, Upgrading, OnePost, Running, Waits, Quiet, Awaited
  <2> HIDE DEF s, z
  <2>9. Holds(s, v, n, z)
    <3>1. Rest(s) = Rest(client)
      BY <1>7 DEF Rest
    <3>2. ByPost(s, n, z)
      BY <1>7, <2>2, <2>3, <2>4, <3>1, <1>4 DEF ByPost
    <3>3. OverPolling(s, v, n, z)
      BY <1>6, <1>7, <1>9, <3>2 DEF OverPolling, Live
    <3> QED
      BY <1>5, <1>6, <1>7, <3>3 DEF Holds
  <2>10. ~s.upgrading => TransportState(s) = "open"
    BY <1>6, <1>7, <2>5, <2>7, <2>8 DEF TransportState
  <2>11. Holds(t, v, n, z) /\ t.sent = s.sent
    <3>1. s.readyState # "closed" /\ s.posts = <<>>
      BY <1>7, <1>9, <2>4 DEF Live
    <3> QED
      BY <1>7, <2>9, <2>10, <3>1, OnDrainHolds
  <2>12. /\ Typed(t)
         /\ t.readyState # "closed" /\ "drain" \in t.pauseFor /\ t.pauseFor \ {"drain"} = {}
              => Upgrading(t) /\ ~t.polling /\ t.pollWritable
    <3>1. CASE Polls(client)
      <4>1. (Polls(t) \/ Ended(t)) /\ Typed(t)
        BY <1>7, <2>7, <3>1, DrainPolling
      <4> HIDE DEF t
      <4> QED
        BY <4>1 DEF Polls, OnPolling, Ended
    <3>2. CASE Pauses(client)
      <4>1. /\ Typed(t) /\ Upgrading(t) /\ t.pollWritable /\ Same(s, t)
            /\ t.pauseFor = s.pauseFor
        BY <1>7, <2>8, <3>2, DrainPausing
      <4> HIDE DEF t
      <4>2. t.pauseFor \ {"drain"} = (IF t.polling THEN {"pollComplete"} ELSE {})
        BY <2>8, <3>2, <4>1 DEF Same, Steady
      <4> QED
        BY <4>1, <4>2
    <3> QED
      BY <2>5, <3>1, <3>2
  <2> HIDE DEF t
  <2>13. Holds(u, v, n, z) /\ u.sent = t.sent
    BY <2>11, <2>12, PausedByHolds
  <2> QED
    BY <1>2, <1>7, <1>9, <2>11, <2>13 DEF Owes, z
<1> QED
  BY <1>8, <1>9

(* A POST fails.                                                           *)
LEMMA PostFailedOwes ==
  ASSUME Client(client), PostFailed, NEW v, NEW n, Owes(client, v, n)
  PROVE  Owes(client', v, n) /\ client'.sent = client.sent
<1>0. Typed(client)
  BY DEF Client
<1>1. PICK i \in 1 .. Len(client.posts) :
        client' = OnClose([client EXCEPT !.posts = RemoveAt(@, i)])
  BY DEF PostFailed
<1> DEFINE z == client.sent
           rest == RemoveAt(client.posts, i)
           s == [client EXCEPT !.posts = rest]
<1>2. client' = OnClose(s)
  BY <1>1
<1>3. client.posts \in Seq(Posts) /\ Len(client.posts) \in Nat
  BY <1>0 DEF Typed
<1>4. rest \in Seq(Posts)
  BY <1>3, Removed
<1>5. Holds(client, v, n, z)
  BY DEF Owes
<1>6. client.transport = "polling" /\ OverPolling(client, v, n, z)
  <2>1. client.posts # <<>>
    BY <1>3
  <2> QED
    BY <1>0, <1>5, <2>1 DEF Holds, OverWebsocket, Typed
<1>7. LeftPosts(rest, n, z)
  <2>1. LeftPosts(client.posts, n, z)
    BY <1>5, <1>6, HoldsClosed DEF OverPolling
  <2> QED
    BY <1>3, <2>1, LeftPostsRemoved
<1> HIDE DEF rest
<1>8. /\ Typed(s) /\ s.readyState = client.readyState /\ s.transport = client.transport
      /\ s.writeBuffer = client.writeBuffer /\ s.prevBufferLen = client.prevBufferLen
      /\ s.posts = rest /\ s.up = client.up /\ s.sent = client.sent
  BY <1>0, <1>4 DEF Typed, Fields
<1> HIDE DEF s, z
<1>9. CASE client.readyState = "closed"
  <2>1. OverPolling(s, v, n, z)
    BY <1>6, <1>7, <1>8, <1>9 DEF OverPolling
  <2>2. Holds(s, v, n, z)
    BY <1>5, <1>6, <1>8, <2>1 DEF Holds
  <2>3. OnClose(s) = s
    BY <1>8, <1>9 DEF OnClose
  <2> QED
    BY <1>2, <1>8, <2>2, <2>3 DEF Owes, z
<1>10. CASE client.readyState # "closed"
  <2>1. Closable(s, v, n, z)
    BY <1>5, <1>6, <1>7, <1>8 DEF Closable, Holds, OverPolling
  <2>2. Holds(OnClose(s), v, n, z) /\ OnClose(s).sent = s.sent
    BY <1>8, <1>10, <2>1, OnCloseLeft
  <2> QED
    BY <1>2, <1>8, <2>2 DEF Owes, z
<1> QED
  BY <1>9, <1>10

(* The websocket of the probe opens.                                       *)
LEMMA WebsocketOpenOwes ==
  ASSUME Client(client), WebsocketOpen, NEW v, NEW n, Owes(client, v, n)
  PROVE  Owes(client', v, n) /\ client'.sent = client.sent
<1> DEFINE p == ProbePacket("ping")
           a == [client EXCEPT !.wsState = "open", !.probe = "ping"]
           up == Append(client.up, FrameOf(p))
           t == [a EXCEPT !.wsWritable = FALSE, !.wsTimers = a.wsTimers + 1, !.up = up]
           z == client.sent
<1>1. Typed(client) /\ client' = WebsocketWrite(a, <<p>>)
  BY DEF Client, WebsocketOpen
<1>2. Typed(a) /\ Alike(client, a)
  BY <1>1 DEF Typed, Fields, Alike
<1>3. p \in Sendable /\ p.type # "message" /\ p # Packet("upgrade") /\ p # ClosePacket
  BY ClientPackets
<1>4. client.up \in Seq(Frames) /\ FrameOf(p) \in Frames /\ FrameOf(p) \in ProbeFrames
      /\ FrameOf(p) = EncodePacket(p, TRUE)
  BY <1>1, <1>3 DEF Typed, FrameOf, Frames, ProbeFrames
<1> HIDE DEF p, a
<1>5. client' = t
  <2>1. <<p>> \in Seq(Sendable)
    BY <1>3
  <2>2. PICK w \in Seq(Frames) :
          /\ WebsocketWrite(a, <<p>>) =
               [a EXCEPT !.wsWritable = FALSE, !.wsTimers = a.wsTimers + 1, !.up = w]
          /\ w = a.up \o FramesOf(<<p>>)
    BY <1>2, <2>1, WebsocketWrites DEF FramesOf
  <2>3. w = up
    <3> DEFINE x == client.up
               e == FrameOf(p)
    <3>1. x \in Seq(Frames) /\ e \in Frames
      BY <1>4
    <3>2. w = x \o <<e>>
      BY <1>2, <1>4, <2>2, OneFrame DEF Alike
    <3> HIDE DEF x, e
    <3>3. x \o <<e>> = Append(x, e)
      BY <3>1
    <3> QED
      BY <3>2, <3>3 DEF x, e
  <2> QED
    BY <1>1, <2>2, <2>3
<1>6. up \in Seq(Frames) /\ (client.up \in Seq(ProbeFrames) => up \in Seq(ProbeFrames))
  <2> DEFINE e == FrameOf(p)
             x == client.up
  <2>1. x \in Seq(Frames) /\ e \in Frames /\ e \in ProbeFrames
    BY <1>4
  <2> HIDE DEF e, x
  <2>2. Append(x, e) \in Seq(Frames) /\ (x \in Seq(ProbeFrames) => Append(x, e) \in Seq(ProbeFrames))
    BY <2>1
  <2> QED
    BY <2>2 DEF e, x
<1>7. Holds(client, v, n, z)
  BY DEF Owes
<1> HIDE DEF up
<1>8. /\ t.readyState = a.readyState /\ t.transport = a.transport
      /\ t.writeBuffer = a.writeBuffer /\ t.prevBufferLen = a.prevBufferLen
      /\ t.posts = a.posts /\ t.up = up /\ t.sent = a.sent
  BY <1>2 DEF Typed, Fields
<1> HIDE DEF t, z
<1>9. /\ t.readyState = "closed" <=> client.readyState = "closed"
      /\ t.transport = client.transport
      /\ t.writeBuffer = client.writeBuffer /\ t.prevBufferLen = client.prevBufferLen
      /\ t.posts = client.posts /\ t.sent = client.sent
  BY <1>2, <1>8 DEF Alike
<1>10. Rest(t) = Rest(client)
  BY <1>9 DEF Rest
<1>11. client.transport = "polling" => OverPolling(t, v, n, z)
  BY <1>6, <1>7, <1>8, <1>9, <1>10 DEF Holds, OverPolling, ByPost
<1>12. client.transport = "websocket" => OverWebsocket(t, v, n, z)
  <2> SUFFICES ASSUME client.transport = "websocket" PROVE OverWebsocket(t, v, n, z)
    OBVIOUS
  <2>1. PICK held, m :
          /\ Told(client.up, v, held, n, m) /\ m <= z
          /\ client.readyState # "closed" /\ Hears(v, held) => Numbers(Rest(client), m, z)
    BY <1>7 DEF Holds, OverWebsocket
  <2>2. /\ Told(up, v, Append(held, p), n, m)
        /\ Hears(v, Append(held, p)) => Hears(v, held)
    BY <1>3, <1>4, <2>1, FrameAppended DEF up
  <2> QED
    BY <1>7, <1>8, <1>9, <1>10, <2>1, <2>2 DEF Holds, OverWebsocket
<1>13. Holds(t, v, n, z)
  BY <1>7, <1>9, <1>11, <1>12 DEF Holds
<1> QED
  BY <1>5, <1>9, <1>13 DEF Owes, z

(* A frame of the websocket.                                               *)
LEMMA WebsocketMessageOwes ==
  ASSUME Client(client), WebsocketMessage, Ended(client) \/ Carried(Head(down)),
         NEW v, NEW n, Owes(client, v, n)
  PROVE  Owes(client', v, n) /\ client'.sent = client.sent
<1>0. /\ Typed(client) /\ client.wsState = "open"
      /\ client' = IF client.probe = "ping" THEN ProbePong(client)
                   ELSE OnPacket(client, DecodePacket(Head(down)))
  BY DEF Client, WebsocketMessage
<1>1. ~Opening(client)
  BY <1>0 DEF Opening
<1>2. CASE client.probe = "ping" /\ ~Ended(client)
  <2>1. Polls(client)
    BY <1>1, <1>2 DEF Client, Pauses, Upgrading, Upgraded, OnWebsocket
  <2>2. client' = ProbePong(client)
    BY <1>0, <1>2
  <2> DEFINE z == client.sent
  <2>3. Holds(client, v, n, z)
    BY DEF Owes
  <2> HIDE DEF z
  <2>4. Holds(ProbePong(client), v, n, z) /\ ProbePong(client).sent = client.sent
    BY <1>0, <2>1, <2>3, ProbePongHolds
  <2> QED
    BY <2>2, <2>4 DEF Owes, z
<1>3. CASE client.probe = "ping" /\ Ended(client)
  <2> DEFINE s == [client EXCEPT !.probe = "pausing", !.upgrading = TRUE]
             wait == (IF s.polling THEN {"pollComplete"} ELSE {})
                         \cup (IF s.pollWritable THEN {} ELSE {"drain"})
             a == [s EXCEPT !.pollState = "pausing", !.pauseFor = wait]
             b == [a EXCEPT !.pollState = "paused"]
  <2>1. client' = IF wait = {} THEN SwitchTransport(b) ELSE a
    BY <1>0, <1>3 DEF ProbePong, Pause
  <2>2. Typed(s) /\ Ended(s) /\ Alike(client, s)
    BY <1>0, <1>3 DEF Typed, Fields, Ended, Alike
  <2>3. wait \in SUBSET {"pollComplete", "drain"}
    OBVIOUS
  <2> HIDE DEF s, wait
  <2>4. Typed(a) /\ Ended(a) /\ Alike(s, a)
    BY <2>2, <2>3 DEF Typed, Fields, Ended, Alike
  <2> HIDE DEF a
  <2>5. Typed(b) /\ Ended(b) /\ Alike(a, b)
    BY <2>4 DEF Typed, Fields, Ended, Alike
  <2> HIDE DEF b
  <2>6. SwitchTransport(b) = b
    BY <2>5, EndedStays
  <2>7. Alike(client, client')
    BY <2>1, <2>2, <2>4, <2>5, <2>6 DEF Alike
  <2> QED
    BY <2>7, OwesAlike
<1>4. CASE client.probe # "ping" /\ Ended(client)
  <2>1. client' = client
    BY <1>0, <1>4, EndedStays
  <2> QED
    BY <2>1
<1>5. CASE client.probe # "ping" /\ ~Ended(client)
  <2>1. PICK p \in Incoming : Head(down) = EncodePacket(p, TRUE)
    BY <1>5 DEF Carried
  <2>2. p \in Sendable
    BY IncomingFacts
  <2>3. DecodePacket(EncodePacket(p, TRUE)) = p
    BY <2>2, FrameDecoded
  <2>4. DecodePacket(Head(down)) = p
    BY <2>1, <2>3, Zenon
  <2>5. client' = OnPacket(client, p)
    BY <1>0, <1>5, <2>4
  <2>6. Later(client)
    BY <1>1 DEF Client, Later
  <2> QED
    BY <2>5, <2>6, OnPacketOwes
<1> QED
  BY <1>2, <1>3, <1>4, <1>5

(* The websocket closes or fails: what was on its way is cut.              *)
LEMMA WebsocketLostOwes ==
  ASSUME Client(client), WebsocketLost, NEW v, NEW n, Owes(client, v, n)
  PROVE  Owes(client', v, n) /\ client'.sent = client.sent
<1>0. Typed(client) /\ client.up \in Seq(Frames)
  BY DEF Client, Typed
<1>1. PICK k \in 0 .. Len(client.up) :
        LET s == [client EXCEPT !.wsState = "closed",
                                !.up = Append(SubSeq(@, 1, k), CloseFrame)]
        IN  client' = IF s.transport = "websocket" THEN OnClose(s)
                      ELSE EmitUpgrade(FreezeTransport(s))
  BY DEF WebsocketLost
<1> DEFINE cut == SubSeq(client.up, 1, k)
           up == Append(cut, CloseFrame)
           s == [client EXCEPT !.wsState = "closed", !.up = up]
           z == client.sent
<1>2. client' = IF s.transport = "websocket" THEN OnClose(s) ELSE EmitUpgrade(FreezeTransport(s))
  BY <1>1
<1>3. cut \in Seq(Frames)
  BY <1>0
<1>4. up \in Seq(Frames)
  <2>1. CloseFrame \in Frames
    BY DEF Frames
  <2> QED
    BY <1>3, <2>1
<1>5. client.up \in Seq(ProbeFrames) => up \in Seq(ProbeFrames)
  <2> SUFFICES ASSUME client.up \in Seq(ProbeFrames) PROVE up \in Seq(ProbeFrames)
    OBVIOUS
  <2>1. cut \in Seq(ProbeFrames)
    OBVIOUS
  <2>2. CloseFrame \in ProbeFrames
    BY DEF ProbeFrames
  <2> QED
    BY <2>1, <2>2
<1>6. Holds(client, v, n, z)
  BY DEF Owes
<1> HIDE DEF up
<1>7. /\ Typed(s) /\ s.readyState = client.readyState /\ s.transport = client.transport
      /\ s.writeBuffer = client.writeBuffer /\ s.prevBufferLen = client.prevBufferLen
      /\ s.posts = client.posts /\ s.up = up /\ s.sent = client.sent
  BY <1>0, <1>4 DEF Typed, Fields
<1> HIDE DEF s, z
<1>8. Rest(s) = Rest(client)
  BY <1>7 DEF Rest
<1>9. CASE client.transport = "polling"
  <2> DEFINE f == FreezeTransport(s)
  <2>1. OverPolling(s, v, n, z)
    BY <1>5, <1>6, <1>7, <1>8, <1>9 DEF Holds, OverPolling, ByPost
  <2>2. Holds(s, v, n, z)
    BY <1>6, <1>7, <1>9, <2>1 DEF Holds
  <2>3. Holds(f, v, n, z) /\ f.sent = s.sent
    BY <1>7, <1>9, <2>2, FreezeHolds
  <2>4. Typed(f)
    <3>1. s.wsState = "closed"
      BY <1>0 DEF s, Typed, Fields
    <3>2. f = s \/ f = [s EXCEPT !.probe = "failed"]
      BY <3>1 DEF FreezeTransport, WebsocketClose
    <3>3. Typed([s EXCEPT !.probe = "failed"])
      BY <1>7 DEF Typed, Fields
    <3> QED
      BY <1>7, <3>2, <3>3
  <2>5. client' = EmitUpgrade(f)
    BY <1>2, <1>7, <1>9
  <2> HIDE DEF f
  <2>6. Holds(OnClose(f), v, n, z) /\ OnClose(f).sent = f.sent
    BY <2>3, <2>4, OnCloseHolds
  <2>7. Holds(client', v, n, z) /\ client'.sent = f.sent
    BY <2>3, <2>5, <2>6 DEF EmitUpgrade
  <2> QED
    BY <1>7, <2>3, <2>7 DEF Owes, z
<1>10. CASE client.transport = "websocket"
  <2>1. PICK held, m : Told(client.up, v, held, n, m) /\ m <= z
    BY <1>6, <1>10 DEF Holds, OverWebsocket
  <2>2. PICK l \in 0 .. m : Told(cut, v, SubSeq(held, 1, k), n, l)
    BY <1>0, <2>1, FramesCut
  <2>3. m \in Nat /\ z \in Nat
    BY <1>6, <2>1 DEF Told, Holds
  <2>4. /\ ClosePacket \in Sendable /\ ClosePacket.type # "message"
        /\ ClosePacket # Packet("upgrade") /\ FrameOf(ClosePacket) = CloseFrame
    BY ClientPackets DEF FrameOf
  <2> DEFINE h == SubSeq(held, 1, k)
             g == Append(h, ClosePacket)
  <2>5. Told(Append(cut, FrameOf(ClosePacket)), v, g, n, l)
    <3> HIDE DEF cut, h
    <3>1. Told(cut, v, h, n, l)
      BY <2>2 DEF cut, h
    <3> QED
      BY <1>3, <2>4, <3>1, FrameAppended
  <2>6. Told(s.up, v, g, n, l) /\ l <= z
    BY <1>7, <2>1, <2>3, <2>4, <2>5 DEF up
  <2> HIDE DEF g
  <2>7. s.posts = <<>> /\ s.transport = "websocket" /\ client' = OnClose(s)
    BY <1>2, <1>6, <1>7, <1>10 DEF Holds, OverWebsocket
  <2>8. CASE client.readyState = "closed"
    <3>1. OverWebsocket(s, v, n, z)
      BY <1>7, <2>6, <2>7, <2>8 DEF OverWebsocket
    <3>2. Holds(s, v, n, z)
      BY <1>6, <1>7, <2>7, <3>1 DEF Holds
    <3>3. OnClose(s) = s
      BY <1>7, <2>8 DEF OnClose
    <3> QED
      BY <1>7, <2>7, <3>2, <3>3 DEF Owes, z
  <2>9. CASE client.readyState # "closed"
    <3>1. Closable(s, v, n, z)
      BY <1>6, <2>6, <2>7 DEF Closable, Holds
    <3>2. Holds(OnClose(s), v, n, z) /\ OnClose(s).sent = s.sent
      BY <1>7, <2>9, <3>1, OnCloseLeft
    <3> QED
      BY <1>7, <2>7, <3>2 DEF Owes, z
  <2> QED
    BY <2>8, <2>9
<1> QED
  BY <1>0, <1>9, <1>10 DEF Typed

(* An answer to a GET.                                                     *)
LEMMA PollAnsweredOwes ==
  ASSUME IInv, PollAnswered, NEW v, NEW n, Owes(client, v, n)
  PROVE  Owes(client', v, n) /\ client'.sent \in {client.sent, client.sent + 1}
<1>0. /\ Client(client) /\ client.gets > 0 /\ srv # "closed"
      /\ srvQueue \in Seq(Sendable)
  BY DEF IInv, Session, PollAnswered
<1>1. CASE /\ srv \in {"upgrading", "upgraded"}
           /\ client' = OnData(client, EncodePayload(<<Packet("noop")>>))
  <2> DEFINE q == <<Packet("noop")>>
  <2>1. Packet("noop") \in Incoming /\ Packet("noop") \in Sendable
    BY IncomingFacts DEF Incoming
  <2>2. q \in Seq(Sendable) /\ q # <<>> /\ \A k \in 1 .. Len(q) : q[k] \in Incoming
    BY <2>1
  <2>3. ~Opening(client)
    BY <1>1 DEF IInv, Session, ToOpening
  <2>4. client' = OnData(client, EncodePayload(q))
    BY <1>1
  <2> HIDE DEF q
  <2> QED
    BY <1>0, <2>2, <2>3, <2>4, OnDataOwes
<1>2. CASE \E k \in 1 .. Len(srvQueue) :
             client' = OnData(client, EncodePayload(SubSeq(srvQueue, 1, k)))
  <2>1. PICK k \in 1 .. Len(srvQueue) :
             client' = OnData(client, EncodePayload(SubSeq(srvQueue, 1, k)))
    BY <1>2
  <2> DEFINE q == SubSeq(srvQueue, 1, k)
  <2>2. /\ q \in Seq(Sendable) /\ Len(q) = k /\ q # <<>>
        /\ \A i \in 1 .. k : q[i] = srvQueue[i]
    BY <1>0
  <2>4. client' = OnData(client, EncodePayload(q))
    BY <2>1
  <2> HIDE DEF q
  <2>5. Opening(client) => Handshake(srvQueue)
    BY <2>2 DEF IInv, Session, ToOpening
  <2>6. ~Opening(client) /\ ~Ended(client) => ToRunning
    BY DEF IInv, Session
  <2>7. \/ Ended(client)
        \/ Opening(client) /\ q[1] = Packet("open") /\ \A i \in 2 .. Len(q) : q[i] \in Incoming
        \/ ~Opening(client) /\ \A i \in 1 .. Len(q) : q[i] \in Incoming
    BY <2>2, <2>5, <2>6 DEF Handshake, ToRunning
  <2> QED
    BY <1>0, <2>2, <2>4, <2>7, OnDataOwes
<1> QED
  BY <1>1, <1>2 DEF PollAnswered
-----------------------------------------------------------------------------
(* The steps of the server.                                                *)

(* What is decoded from a body is what was written, and continues what the *)
(* server has received.                                                    *)
LEMMA BodyHeard ==
  ASSUME NEW q \in Seq(Sendable), q # <<>>, NEW n, NEW m, Numbers(q, n, m)
  PROVE  UpTo(n) \o MessagesIn(DecodePayload(EncodePayload(q))) = UpTo(m)
BY PayloadRoundTrip, MessagesHeard

(* A POST reaches the server.                                              *)
LEMMA ServerPostUp ==
  ASSUME Client(client), ServerPost, NEW n, received = UpTo(n), Owes(client, srv, n)
  PROVE  /\ client'.sent = client.sent
         /\ \E l \in n .. client.sent : received' = UpTo(l) /\ Owes(client', srv', l)
<1>0. /\ Typed(client) /\ client.posts \in Seq(Posts) /\ srv \in {"open", "upgrading"}
      /\ client.writeBuffer \in Seq(Sendable)
  BY DEF Client, Typed, ServerPost
<1>1. PICK i \in 1 .. Len(client.posts) :
        /\ ~client.posts[i].got
        /\ client' = [client EXCEPT !.posts[i].got = TRUE]
        /\ received' = received \o MessagesIn(DecodePayload(client.posts[i].body))
        /\ srv' \in {srv, "closed"}
  BY DEF ServerPost
<1> DEFINE z == client.sent
           v == srv
           w == srv'
           posts == [client.posts EXCEPT ![i] = [@ EXCEPT !.got = TRUE]]
           t == [client EXCEPT !.posts = posts]
           body == client.posts[i].body
<1>2. client' = t
  BY <1>1
<1>3. /\ Len(posts) = Len(client.posts) /\ Len(client.posts) \in Nat
      /\ \A j \in 1 .. Len(posts) : j # i => posts[j] = client.posts[j]
      /\ posts[i].got
  <2>1. client.posts[i] \in Posts
    BY <1>0
  <2>2. [client.posts[i] EXCEPT !.got = TRUE].got
    BY <2>1 DEF Posts
  <2>3. [client.posts[i] EXCEPT !.got = TRUE] \in Posts
    BY <2>1 DEF Posts
  <2>4. posts \in Seq(Posts) /\ Len(posts) = Len(client.posts) /\ Len(client.posts) \in Nat
    BY <1>0, <2>3
  <2>5. posts[i] = [client.posts[i] EXCEPT !.got = TRUE]
        /\ \A j \in 1 .. Len(posts) : j # i => posts[j] = client.posts[j]
    BY <1>0, <2>4
  <2> QED
    BY <2>2, <2>4, <2>5
<1> HIDE DEF posts
<1>4. Ungot(posts) = Ungot(client.posts) \ {i} /\ i \in Ungot(client.posts)
      /\ \A j \in Ungot(posts) : posts[j] = client.posts[j]
  BY <1>1, <1>3 DEF Ungot
<1>5. /\ t.readyState = client.readyState /\ t.transport = client.transport
      /\ t.writeBuffer = client.writeBuffer /\ t.prevBufferLen = client.prevBufferLen
      /\ t.posts = posts /\ t.up = client.up /\ t.sent = client.sent
  BY <1>0 DEF Typed, Fields
<1>6. Holds(client, v, n, z) /\ n \in Nat /\ z \in Nat /\ n <= z /\ v # "upgraded" /\ w # "upgraded"
  BY <1>0, <1>1 DEF Owes, Holds
<1>7. client.transport = "polling" /\ OverPolling(client, v, n, z)
  <2>1. client.posts # <<>>
    BY <1>0
  <2> QED
    BY <1>0, <1>6, <2>1 DEF Holds, OverWebsocket, Typed
<1> HIDE DEF t, z, v, w
<1>8. Rest(t) = Rest(client)
  BY <1>5 DEF Rest
<1>9. ASSUME NEW l \in n .. z, client.readyState # "closed" => ByPost(t, l, z),
             client.readyState = "closed" => LeftPosts(posts, l, z)
      PROVE  Holds(t, w, l, z)
  <2>1. OverPolling(t, w, l, z)
    BY <1>5, <1>6, <1>7, <1>9 DEF OverPolling
  <2>2. l \in Nat /\ l <= z
    BY <1>6, <1>9
  <2> QED
    BY <1>5, <1>6, <1>7, <2>1, <2>2 DEF Holds
<1>10. \E l \in n .. z : UpTo(n) \o MessagesIn(DecodePayload(body)) = UpTo(l) /\ Holds(t, w, l, z)
  <2>1. CASE client.readyState # "closed"
    <3> DEFINE b == client.writeBuffer
               k == client.prevBufferLen
               q == SubSeq(b, 1, k)
    <3>1. ByPost(client, n, z)
      BY <1>7, <2>1 DEF OverPolling
    <3>2. Len(client.posts) <= 1
      BY <3>1, Zenon DEF ByPost
    <3>3. k > 0 /\ body = EncodePayload(q) /\ Numbers(b, n, z)
      BY <1>4, <3>1 DEF ByPost
    <3>4. b \in Seq(Sendable) /\ k \in 0 .. Len(b)
      BY <1>0, <1>6 DEF Holds
    <3>5. Rest(client) = SubSeq(b, k + 1, Len(b))
      BY DEF Rest
    <3> HIDE DEF b, k
    <3>6. PICK l : Numbers(q, n, l) /\ Numbers(SubSeq(b, k + 1, Len(b)), l, z)
      BY <3>3, <3>4, NumbersSplit
    <3>7. q \in Seq(Sendable) /\ q # <<>> /\ SubSeq(b, k + 1, Len(b)) \in Seq(Sendable)
      BY <3>3, <3>4
    <3> HIDE DEF q
    <3>8. l \in n .. z
      <4>1. l \in Nat /\ n <= l
        BY <3>6, <3>7, NumbersRise
      <4>2. l <= z
        BY <3>6, <3>7, NumbersRise
      <4> QED
        BY <1>6, <4>1, <4>2
    <3>9. UpTo(n) \o MessagesIn(DecodePayload(body)) = UpTo(l)
      BY <3>3, <3>6, <3>7, BodyHeard
    <3>10. Ungot(posts) = {}
      <4> DEFINE x == Len(client.posts)
      <4>1. x \in Nat /\ x <= 1 /\ i \in 1 .. x
        BY <1>3, <3>2
      <4> HIDE DEF x
      <4>2. \A j \in 1 .. x : j = i
        BY <4>1
      <4> QED
        BY <1>3, <4>2 DEF Ungot, x
    <3>11. ByPost(t, l, z)
      BY <1>3, <1>5, <1>8, <3>2, <3>5, <3>6, <3>10, Zenon DEF ByPost
    <3> QED
      BY <1>9, <2>1, <3>8, <3>9, <3>11
  <2>2. CASE client.readyState = "closed" /\ body = CloseBody
    <3> DEFINE q == <<ClosePacket>>
    <3>1. LeftPosts(client.posts, n, z)
      BY <1>7, <2>2 DEF OverPolling
    <3>2. LeftPosts(posts, n, z)
      BY <1>4, <3>1 DEF LeftPosts
    <3>3. q \in Seq(Sendable) /\ q # <<>> /\ \A j \in 1 .. Len(q) : q[j].type # "message"
      BY ClientPackets
    <3>4. body = EncodePayload(q)
      BY <2>2 DEF CloseBody
    <3> HIDE DEF q
    <3>5. Numbers(q, n, n)
      BY <1>6, <3>3, NumbersSilent
    <3>6. UpTo(n) \o MessagesIn(DecodePayload(body)) = UpTo(n)
      BY <3>3, <3>4, <3>5, BodyHeard
    <3>7. n \in n .. z
      BY <1>6
    <3> QED
      BY <1>9, <2>2, <3>2, <3>6, <3>7
  <2>3. CASE client.readyState = "closed" /\ body # CloseBody
    <3>1. LeftPosts(client.posts, n, z)
      BY <1>7, <2>3 DEF OverPolling
    <3>2. /\ LastPost(body, n, z)
          /\ \A j \in Ungot(client.posts) : j # i => client.posts[j].body = CloseBody
      BY <1>4, <2>3, <3>1 DEF LeftPosts
    <3>3. PICK q \in Seq(Sendable), m \in Nat :
            q # <<>> /\ body = EncodePayload(q) /\ Numbers(q, n, m) /\ m <= z
      BY <3>2 DEF LastPost
    <3>4. UpTo(n) \o MessagesIn(DecodePayload(body)) = UpTo(m)
      BY <3>3, BodyHeard
    <3>5. m \in n .. z
      <4>1. n <= m
        BY <3>3, NumbersRise
      <4> QED
        BY <1>6, <3>3, <4>1
    <3>6. LeftPosts(posts, m, z)
      BY <1>4, <3>2 DEF LeftPosts
    <3> QED
      BY <1>9, <2>3, <3>4, <3>5, <3>6
  <2> QED
    BY <2>1, <2>2, <2>3
<1> HIDE DEF body
<1>11. PICK l \in n .. z : UpTo(n) \o MessagesIn(DecodePayload(body)) = UpTo(l) /\ Holds(t, w, l, z)
  BY <1>10
<1>12. received' = UpTo(l)
  BY <1>1, <1>11 DEF body
<1>13. Owes(t, w, l)
  BY <1>5, <1>11 DEF Owes, z
<1>14. l \in n .. client.sent
  BY <1>11 DEF z
<1> QED
  BY <1>2, <1>5, <1>12, <1>13, <1>14 DEF w

(* The first frame, and those after it.                                    *)
LEMMA FramesTail ==
  ASSUME NEW frames \in Seq(Frames), frames # <<>>, NEW held, Written(frames, held)
  PROVE  /\ held \in Seq(Sendable) /\ held # <<>> /\ held[1] \in Sendable
         /\ Head(frames) = FrameOf(held[1]) /\ Written(Tail(frames), Tail(held))
         /\ \A v : Hears(v, Tail(held)) => Hears(v, held)
         /\ \A v : v # "upgraded" /\ Hears(v, Tail(held)) => held[1].type # "message"
<1> DEFINE h == Tail(held)
           f == Tail(frames)
           x == Len(held)
<1>1. /\ held \in Seq(Sendable) /\ Len(frames) = x /\ x \in Nat
      /\ \A i \in 1 .. x : frames[i] = FrameOf(held[i])
      /\ \A i, j \in 1 .. x : held[i] = Packet("upgrade") /\ j < i => held[j].type # "message"
  BY DEF Written
<1>2. x > 0 /\ held # <<>> /\ 1 \in 1 .. x
  <2>1. Len(frames) > 0
    OBVIOUS
  <2> QED
    BY <1>1, <2>1
<1>3. held[1] \in Sendable /\ Head(frames) = frames[1]
  BY <1>1, <1>2
<1>4. /\ h \in Seq(Sendable) /\ Len(h) = x - 1 /\ Len(f) = x - 1
      /\ \A i \in 1 .. x - 1 : h[i] = held[i + 1] /\ f[i] = frames[i + 1]
  BY <1>1, <1>2
<1> HIDE DEF h, f, x
<1>5. \A i \in 1 .. x - 1 : i + 1 \in 1 .. x /\ 1 < i + 1
  BY <1>1
<1>6. Written(f, h)
  <2>1. \A i \in 1 .. x - 1 : f[i] = FrameOf(h[i])
    BY <1>1, <1>4, <1>5
  <2>2. \A i, j \in 1 .. x - 1 : h[i] = Packet("upgrade") /\ j < i => h[j].type # "message"
    <3> SUFFICES ASSUME NEW i \in 1 .. x - 1, NEW j \in 1 .. x - 1,
                        h[i] = Packet("upgrade"), j < i
                 PROVE  h[j].type # "message"
      OBVIOUS
    <3>1. i + 1 \in 1 .. x /\ j + 1 \in 1 .. x /\ j + 1 < i + 1
      BY <1>1
    <3>2. held[i + 1] = Packet("upgrade") /\ h[j] = held[j + 1]
      BY <1>4
    <3> QED
      BY <1>1, <3>1, <3>2
  <2> QED
    BY <1>4, <2>1, <2>2 DEF Written
<1>7. ASSUME NEW v, Hears(v, h)
      PROVE  Hears(v, held) /\ (v # "upgraded" => held[1].type # "message")
  <2>1. CASE v = "upgraded"
    BY <2>1 DEF Hears
  <2>2. CASE v # "upgraded"
    <3>1. PICK i \in 1 .. x - 1 : h[i] = Packet("upgrade")
      BY <1>4, <1>7, <2>2 DEF Hears
    <3>2. i + 1 \in 1 .. x /\ 1 < i + 1 /\ held[i + 1] = Packet("upgrade")
      BY <1>4, <1>5, <3>1
    <3> QED
      BY <1>1, <1>2, <3>2 DEF Hears, x
  <2> QED
    BY <2>1, <2>2
<1> QED
  BY <1>1, <1>2, <1>3, <1>6, <1>7 DEF h, f, x

(* One frame less, which was no message to the server.                     *)
LEMMA FrameSilent ==
  ASSUME NEW frames \in Seq(Frames), frames # <<>>, NEW v, NEW w, NEW held, NEW n, NEW m,
         Told(frames, v, held, n, m),
         Hears(w, Tail(held)) => Hears(v, held) /\ held[1].type # "message"
  PROVE  Told(Tail(frames), w, Tail(held), n, m)
<1>1. held \in Seq(Sendable) /\ held # <<>> /\ Written(Tail(frames), Tail(held))
  BY FramesTail DEF Told
<1>2. ASSUME Hears(w, Tail(held)) PROVE Numbers(Tail(held), n, m)
  <2>1. Numbers(held, n, m) /\ held[1].type # "message"
    BY <1>2 DEF Told
  <2>2. held[1] # Message(n + 1)
    <3>1. n \in Nat /\ n + 1 \in Nat
      BY <1>1, <2>1, NumbersRise
    <3> QED
      BY <2>1, <3>1, PacketFacts
  <2> QED
    BY <1>1, <2>1, <2>2, NumbersHead
<1> QED
  BY <1>1, <1>2 DEF Told

(* The next message, if the frame carries one.                             *)
LEMMA FrameHeard ==
  ASSUME NEW p \in Sendable, NEW n \in Nat, NEW l,
         \/ p.type # "message" /\ l = n
         \/ p = Message(n + 1) /\ l = n + 1
  PROVE  UpTo(n) \o MessagesIn(<<p>>) = UpTo(l)
<1> DEFINE e == <<>>
           q == Append(e, p)
<1>1. e \in Seq(Sendable) /\ q \in Seq(Sendable) /\ q = <<p>>
      /\ \A i \in 1 .. Len(e) : e[i].type # "message"
  OBVIOUS
<1> HIDE DEF e
<1>2. Numbers(e, n, n)
  BY <1>1, NumbersSilent
<1>3. Numbers(q, n, l)
  BY <1>1, <1>2, NumbersAppend
<1> HIDE DEF q
<1>4. UpTo(n) \o MessagesIn(q) = UpTo(l)
  BY <1>1, <1>3, MessagesHeard
<1> QED
  BY <1>1, <1>4

(* A frame of the websocket reaches the server.                            *)
LEMMA ServerFrameUp ==
  ASSUME Client(client), ServerFrame, NEW n, received = UpTo(n), Owes(client, srv, n)
  PROVE  /\ client'.sent = client.sent
         /\ \E l \in n .. client.sent : received' = UpTo(l) /\ Owes(client', srv', l)
<1> DEFINE z == client.sent
           v == srv
           w == srv'
           frames == client.up
           rest == Tail(frames)
           frame == Head(frames)
           t == [client EXCEPT !.up = rest]
           probe == EncodePacket(ProbePacket("ping"), TRUE)
           upgrade == EncodePacket(Packet("upgrade"), TRUE)
<1>0. /\ Typed(client) /\ frames \in Seq(Frames) /\ frames # <<>> /\ client' = t
  BY DEF Client, Typed, ServerFrame
<1>1. \/ /\ frame = probe /\ v = "open" /\ w = "upgrading" /\ received' = received
      \/ /\ frame = upgrade /\ v = "upgrading" /\ w = "upgraded" /\ received' = received
      \/ frame = CloseFrame /\ w # "upgraded" /\ received' = received
      \/ /\ frame # CloseFrame /\ v = "upgraded" /\ w = v
         /\ received' = received \o MessagesIn(<<DecodePacket(frame)>>)
      \/ /\ frame # CloseFrame /\ v # "upgraded" /\ w = v /\ received' = received
  BY DEF ServerFrame
<1>2. Holds(client, v, n, z) /\ n \in Nat /\ z \in Nat /\ n <= z /\ n \in n .. z
  BY DEF Owes, Holds
<1>3. rest \in Seq(Frames) /\ (frames \in Seq(ProbeFrames) => rest \in Seq(ProbeFrames))
      /\ (frames \in Seq(ProbeFrames) => frame \in ProbeFrames)
  BY <1>0
<1> HIDE DEF rest, frames
<1>4. /\ t.readyState = client.readyState /\ t.transport = client.transport
      /\ t.writeBuffer = client.writeBuffer /\ t.prevBufferLen = client.prevBufferLen
      /\ t.posts = client.posts /\ t.up = rest /\ t.sent = client.sent
  BY <1>0 DEF Typed, Fields
<1> HIDE DEF t, z, v, w, frame, probe, upgrade
<1>5. Rest(t) = Rest(client)
  BY <1>4 DEF Rest
<1>6. \E l \in n .. z : received' = UpTo(l) /\ Holds(t, w, l, z)
  <2>1. CASE client.transport = "polling"
    <3>1. OverPolling(client, v, n, z) /\ v # "upgraded" /\ frames \in Seq(ProbeFrames)
      BY <1>2, <2>1 DEF Holds, OverPolling, frames
    <3>2. upgrade \notin ProbeFrames
      BY UpgradeFrame DEF upgrade
    <3>3. w # "upgraded" /\ received' = received
      BY <1>1, <1>3, <3>1, <3>2
    <3>4. OverPolling(t, w, n, z)
      BY <1>3, <1>4, <1>5, <3>1, <3>3 DEF OverPolling, ByPost
    <3>5. Holds(t, w, n, z)
      BY <1>2, <1>4, <2>1, <3>4 DEF Holds
    <3> QED
      BY <1>2, <3>3, <3>5
  <2>2. CASE client.transport = "websocket"
    <3>1. client.posts = <<>>
      BY <1>2, <2>2 DEF Holds, OverWebsocket
    <3>2. PICK held, m :
            /\ Told(frames, v, held, n, m) /\ m <= z
            /\ client.readyState # "closed" /\ Hears(v, held) => Numbers(Rest(client), m, z)
      BY <1>2, <2>2 DEF Holds, OverWebsocket, frames
    <3> DEFINE h == Tail(held)
               p == held[1]
    <3>3. /\ held \in Seq(Sendable) /\ held # <<>> /\ p \in Sendable /\ frame = FrameOf(p)
          /\ Written(rest, h) /\ \A u : Hears(u, h) => Hears(u, held)
          /\ \A u : u # "upgraded" /\ Hears(u, h) => p.type # "message"
      BY <1>0, <3>2, FramesTail DEF Told, rest, frame
    <3> HIDE DEF h
    <3>4. ASSUME NEW l \in n .. z, Told(rest, w, h, l, m), Hears(w, h) => Hears(v, held)
          PROVE  Holds(t, w, l, z)
      <4>1. OverWebsocket(t, w, l, z)
        BY <1>4, <1>5, <3>1, <3>2, <3>4 DEF OverWebsocket
      <4>2. l \in Nat /\ l <= z
        BY <1>2, <3>4
      <4> QED
        BY <1>2, <1>4, <2>2, <4>1, <4>2 DEF Holds
    <3>5. ASSUME received' = received, Hears(w, h) => Hears(v, held) /\ p.type # "message"
          PROVE  \E l \in n .. z : received' = UpTo(l) /\ Holds(t, w, l, z)
      <4>1. Told(rest, w, h, n, m)
        BY <1>0, <3>2, <3>5, FrameSilent DEF rest, h
      <4> QED
        BY <1>2, <3>4, <3>5, <4>1
    <3>6. CASE frame = probe /\ v = "open" /\ w = "upgrading" /\ received' = received
      <4>1. p = ProbePacket("ping")
        BY <3>3, <3>6, ClientPackets, FrameFacts DEF probe
      <4>2. p.type # "message"
        BY <4>1, ClientPackets
      <4>3. Hears(w, h) => Hears(v, held)
        BY <3>3, <3>6 DEF Hears
      <4> QED
        BY <3>5, <3>6, <4>2, <4>3
    <3>7. CASE frame = upgrade /\ v = "upgrading" /\ w = "upgraded" /\ received' = received
      <4>1. p = Packet("upgrade")
        BY <3>3, <3>7, ClientPackets, FrameFacts DEF upgrade
      <4>2. p.type # "message"
        BY <4>1, ClientPackets
      <4>3. Hears(v, held)
        BY <3>3, <4>1 DEF Hears
      <4> QED
        BY <3>5, <3>7, <4>2, <4>3
    <3>8. CASE frame = CloseFrame /\ w # "upgraded" /\ received' = received
      <4>1. p = ClosePacket
        BY <3>3, <3>8, FrameFacts
      <4>2. p.type # "message"
        BY <4>1, ClientPackets
      <4>3. Hears(w, h) => Hears(v, held)
        BY <3>3, <3>8 DEF Hears
      <4> QED
        BY <3>5, <3>8, <4>2, <4>3
    <3>9. CASE /\ frame # CloseFrame /\ v = "upgraded" /\ w = v
               /\ received' = received \o MessagesIn(<<DecodePacket(frame)>>)
      <4>1. p # ClosePacket /\ DecodePacket(frame) = p
        BY <3>3, <3>9, FrameFacts DEF FrameOf
      <4>2. Hears(v, held) /\ Numbers(held, n, m) /\ m \in Nat
        BY <3>2, <3>9 DEF Hears, Told
      <4>3. PICK l \in Nat : /\ Numbers(h, l, m)
                             /\ \/ p.type # "message" /\ l = n
                                \/ p = Message(n + 1) /\ l = n + 1
        BY <3>3, <4>2, NumbersHead DEF h
      <4> HIDE DEF p
      <4>4. UpTo(n) \o MessagesIn(<<p>>) = UpTo(l)
        BY <1>2, <3>3, <4>3, FrameHeard
      <4>5. l \in n .. z
        <5>1. h \in Seq(Sendable)
          BY <3>3 DEF Written
        <5>2. l <= m
          BY <4>3, <5>1, NumbersRise
        <5>3. n <= l
          BY <1>2, <4>3
        <5> QED
          BY <1>2, <3>2, <4>2, <5>2, <5>3
      <4>6. received' = UpTo(l)
        BY <3>9, <4>1, <4>4
      <4>7. Told(rest, w, h, l, m)
        BY <3>3, <4>2, <4>3 DEF Told
      <4>8. Holds(t, w, l, z)
        BY <3>4, <4>2, <4>5, <4>7
      <4> QED
        BY <4>5, <4>6, <4>8
    <3>10. CASE frame # CloseFrame /\ v # "upgraded" /\ w = v /\ received' = received
      BY <3>3, <3>5, <3>10
    <3> QED
      BY <1>1, <3>6, <3>7, <3>8, <3>9, <3>10
  <2> QED
    BY <1>0, <2>1, <2>2 DEF Typed
<1>7. PICK l \in n .. z : received' = UpTo(l) /\ Holds(t, w, l, z)
  BY <1>6
<1>8. Owes(t, w, l) /\ l \in n .. client.sent
  BY <1>4, <1>7 DEF Owes, z
<1> QED
  BY <1>0, <1>4, <1>7, <1>8 DEF w

(* The server ends the session.                                            *)
LEMMA ServerCloseOwes ==
  ASSUME Client(client), ServerClose, NEW n, Owes(client, srv, n)
  PROVE  Owes(client', srv', n) /\ client'.sent \in {client.sent, client.sent + 1}
<1> DEFINE q == <<ClosePacket>>
<1>1. q \in Seq(Sendable) /\ q # <<>>
  BY ClientPackets
<1>2. srv' = "closed"
  BY DEF ServerClose
<1>3. Owes(client, "closed", n)
  <2> DEFINE z == client.sent
             w == "closed"
  <2>1. Holds(client, srv, n, z) /\ w # "upgraded"
    BY DEF Owes
  <2> HIDE DEF z, w
  <2>2. Holds(client, w, n, z)
    BY <2>1, HoldsQuieter
  <2> QED
    BY <2>2 DEF Owes, z, w
<1>4. CASE link = "up" /\ client.gets > 0
  <2>1. client' = OnData(client, EncodePayload(q))
    BY <1>4 DEF ServerClose
  <2>2. q = <<ClosePacket>>
    OBVIOUS
  <2> HIDE DEF q
  <2> QED
    BY <1>1, <1>2, <1>3, <1>4, <2>1, <2>2, OnDataOwes
<1>5. CASE ~(link = "up" /\ client.gets > 0)
  BY <1>2, <1>3, <1>5 DEF ServerClose
<1> QED
  BY <1>4, <1>5

(* The server begins a session, adds to it or writes, or the link breaks.  *)
LEMMA ServerAddsOwe ==
  ASSUME NEW n, Owes(client, srv, n),
         \/ ServerHandshake \/ ServerSend \/ ServerPing \/ ServerWrite \/ LinkDown
         \/ UNCHANGED vars
  PROVE  Owes(client', srv', n) /\ client' = client
<1> DEFINE z == client.sent
           w == srv'
<1>1. client' = client /\ (w = srv \/ w # "upgraded")
  BY DEF ServerHandshake, ServerSend, ServerPing, ServerWrite, LinkDown, server, vars
<1>2. Holds(client, srv, n, z)
  BY DEF Owes
<1> HIDE DEF z, w
<1>3. Holds(client, w, n, z)
  BY <1>1, <1>2, HoldsQuieter
<1> QED
  BY <1>1, <1>3 DEF Owes, z, w
-----------------------------------------------------------------------------
(* The server has received the first messages, and what the client holds   *)
(* are the next, up to the last it has sent.                               *)
Received(n) == received = UpTo(n) /\ Owes(client, srv, n)

OrderUp == \E n \in Nat : Received(n)

(* At the beginning nothing was sent.                                      *)
LEMMA ReceivedInit ==
  ASSUME Init
  PROVE  Received(0) /\ Up!Init
<1>1. PICK upgrades \in BOOLEAN : client = Connecting(upgrades)
  BY DEF Init
<1>2. /\ client.readyState = "opening" /\ client.transport = "polling"
      /\ client.writeBuffer = <<>> /\ client.prevBufferLen = 0 /\ client.sent = 0
      /\ client.posts = <<>> /\ client.up = <<>>
      /\ srv = "none" /\ received = <<>>
  BY <1>1 DEF Connecting, Init
<1>3. UpTo(0) = <<>>
  BY UpToNext
<1> DEFINE e == <<>>
           z == 0
<1>4. /\ e \in Seq(Sendable) /\ e \in Seq(Outgoing) /\ e \in Seq(ProbeFrames) /\ Len(e) = 0
      /\ \A i \in 1 .. Len(e) : e[i].type # "message"
      /\ client.writeBuffer = e /\ client.posts = e /\ client.up = e
      /\ z \in Nat /\ z <= z /\ client.sent = z /\ client.prevBufferLen = z
      /\ 1 .. Len(e) = {} /\ z <= 1 /\ z = Len(e) /\ z \in z .. z
  BY <1>2
<1>5. client.prevBufferLen = 0
  BY <1>2
<1> HIDE DEF e, z
<1>6. Numbers(e, z, z)
  BY <1>4, NumbersSilent
<1>7. Rest(client) = e
  BY <1>4, <1>5, RestWhole
<1>8. Ungot(client.posts) = {}
  BY <1>4 DEF Ungot
<1>9. ByPost(client, z, z)
  BY <1>4, <1>6, <1>7, <1>8 DEF ByPost
<1>10. OverPolling(client, srv, z, z)
  BY <1>2, <1>4, <1>9 DEF OverPolling
<1>11. Holds(client, srv, z, z)
  BY <1>2, <1>4, <1>10 DEF Holds
<1>12. Received(0)
  BY <1>2, <1>3, <1>4, <1>11 DEF Received, Owes, z
<1> QED
  BY <1>2, <1>12 DEF Up!Init

(* Every step sends a message, or gives the server the next ones, or none. *)
LEMMA ReceivedStep ==
  ASSUME IInv, [Next]_vars, NEW n \in Nat, Received(n)
  PROVE  \E l \in Nat : /\ Received(l)'
                        /\ \/ l = n /\ client'.sent \in {client.sent, client.sent + 1}
                           \/ l \in n .. client.sent /\ client'.sent = client.sent
<1>0. Client(client) /\ received = UpTo(n) /\ Owes(client, srv, n) /\ client.sent \in Nat
  BY DEF IInv, Received, Client, Typed
<1>1. ASSUME received' = received, Owes(client', srv', n),
             client'.sent \in {client.sent, client.sent + 1}
      PROVE  /\ Received(n)'
             /\ n = n /\ client'.sent \in {client.sent, client.sent + 1}
  BY <1>0, <1>1 DEF Received
<1>2. ASSUME srv' = srv, received' = received, Owes(client', srv, n),
             client'.sent \in {client.sent, client.sent + 1}
      PROVE  /\ Received(n)'
             /\ n = n /\ client'.sent \in {client.sent, client.sent + 1}
  BY <1>1, <1>2
<1>3. ASSUME client'.sent = client.sent, NEW l \in n .. client.sent,
             received' = UpTo(l), Owes(client', srv', l)
      PROVE  l \in Nat /\ Received(l)'
  BY <1>3 DEF Received
<1>4. CASE AppWrite \/ AppClose \/ PingTimeout \/ PollFailed
  <2>1. srv' = srv /\ received' = received
    BY <1>4 DEF AppWrite, AppClose, PingTimeout, PollFailed, server
  <2> QED
    BY <1>0, <1>2, <1>4, <2>1, CallsOwe
<1>5. CASE WebsocketDrain \/ PostAnswered \/ PostFailed \/ WebsocketOpen \/ WebsocketLost
  <2>1. srv' = srv /\ received' = received
    BY <1>5 DEF WebsocketDrain, PostAnswered, PostFailed, WebsocketOpen, WebsocketLost, server
  <2>2. Owes(client', srv, n) /\ client'.sent = client.sent
    BY <1>0, <1>5, WebsocketDrainOwes, PostAnsweredOwes, PostFailedOwes, WebsocketOpenOwes,
       WebsocketLostOwes
  <2> QED
    BY <1>2, <2>1, <2>2
<1>6. CASE WebsocketMessage
  <2>1. srv' = srv /\ received' = received /\ down # <<>>
    BY <1>6 DEF WebsocketMessage, server
  <2>2. Ended(client) \/ Carried(Head(down))
    <3>1. ~Opening(client)
      BY <1>6 DEF WebsocketMessage, Opening
    <3>2. down \in Seq(Frames)
      BY DEF IInv, Session
    <3>3. Head(down) = down[1] /\ 1 \in 1 .. Len(down)
      BY <2>1, <3>2
    <3> QED
      BY <3>1, <3>3 DEF IInv, Session, ToRunning
  <2>3. Owes(client', srv, n) /\ client'.sent = client.sent
    BY <1>0, <1>6, <2>2, WebsocketMessageOwes
  <2> QED
    BY <1>2, <2>1, <2>3
<1>7. CASE PollAnswered
  <2>1. srv' = srv /\ received' = received
    BY <1>7 DEF PollAnswered
  <2> QED
    BY <1>0, <1>2, <1>7, <2>1, PollAnsweredOwes
<1>8. CASE ServerPost \/ ServerFrame
  <2>1. /\ client'.sent = client.sent
        /\ \E l \in n .. client.sent : received' = UpTo(l) /\ Owes(client', srv', l)
    BY <1>0, <1>8, ServerPostUp, ServerFrameUp
  <2>2. PICK l \in n .. client.sent : received' = UpTo(l) /\ Owes(client', srv', l)
    BY <2>1
  <2> QED
    BY <1>3, <2>1, <2>2
<1>9. CASE ServerClose
  <2>1. received' = received
    BY <1>9 DEF ServerClose
  <2> QED
    BY <1>0, <1>1, <1>9, <2>1, ServerCloseOwes
<1>10. CASE \/ ServerHandshake \/ ServerSend \/ ServerPing \/ ServerWrite \/ LinkDown
            \/ UNCHANGED vars
  <2>1. received' = received
    BY <1>10 DEF ServerHandshake, ServerSend, ServerPing, ServerWrite, LinkDown, server, vars
  <2>2. Owes(client', srv', n) /\ client' = client
    BY <1>0, <1>10, ServerAddsOwe
  <2> QED
    BY <1>1, <2>1, <2>2
<1> QED
  BY <1>4, <1>5, <1>6, <1>7, <1>8, <1>9, <1>10 DEF Next

(* The server receives the messages of the client in order, each once,     *)
(* over polling, through the upgrade and over the websocket, whatever is   *)
(* lost of them and whichever POST comes first: every step is one of the   *)
(* channel that sends a message or delivers the next ones, or changes      *)
(* nothing of it.                                                          *)
THEOREM DeliversUpInOrder == Spec => DeliversUp
<1>1. ASSUME IInv, OrderUp, [Next]_vars
      PROVE  OrderUp' /\ [Up!Next]_<<client.sent, received>>
  <2>1. PICK n \in Nat : Received(n)
    BY <1>1 DEF OrderUp
  <2>2. PICK l \in Nat : /\ Received(l)'
                         /\ \/ l = n /\ client'.sent \in {client.sent, client.sent + 1}
                            \/ l \in n .. client.sent /\ client'.sent = client.sent
    BY <1>1, <2>1, ReceivedStep
  <2>3. received = UpTo(n) /\ received' = UpTo(l) /\ Len(received) = n
    BY <2>1, <2>2, UpToNext DEF Received
  <2>4. [Up!Next]_<<client.sent, received>>
    <3>1. CASE l = n /\ client'.sent = client.sent
      BY <2>3, <3>1
    <3>2. CASE l = n /\ client'.sent = client.sent + 1
      <4>1. Up!Send
        BY <2>3, <3>2 DEF Up!Send
      <4> QED
        BY <4>1 DEF Up!Next
    <3>3. CASE l # n /\ l \in n .. client.sent /\ client'.sent = client.sent
      <4>1. client.sent \in Nat
        BY <1>1 DEF IInv, Client, Typed
      <4>2. l \in n + 1 .. client.sent
        BY <3>3, <4>1
      <4>3. Up!Deliver
        BY <2>3, <3>3, <4>2 DEF Up!Deliver, UpTo
      <4> QED
        BY <4>3 DEF Up!Next
    <3> QED
      BY <2>2, <3>1, <3>2, <3>3
  <2>5. OrderUp'
    BY <2>2 DEF OrderUp
  <2> QED
    BY <2>4, <2>5
<1>2. Init => OrderUp /\ Up!Init
  BY ReceivedInit DEF OrderUp
<1>3. Init => IInv
  BY InitIInv
<1> QED
  BY <1>1, <1>2, <1>3, Invariance, PTL DEF Spec, DeliversUp, Up!Spec
=============================================================================
