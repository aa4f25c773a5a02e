------------------------- MODULE SessionPair_proofs --------------------------
(***************************************************************************)
(* The safety of two sessions joined by a channel that keeps order, for    *)
(* every window, every set of credits and every number of frames in        *)
(* flight.                                                                 *)
(*                                                                         *)
(* The invariant is about what is in flight.  A frame on its way changes   *)
(* the session that will hear it as it changed the one that said it; so    *)
(* three threads run along the stream to the server, from what it knows to *)
(* what the client knows: of the next transfer's id (Numbered), of the     *)
(* delivery-count (Counted), and of the deliveries themselves (Tracked).   *)
(* Attaches and detaches take turns, so at most one is under way (Turns,   *)
(* Told), and at most one grant that gives anything is (Owed).             *)
(*                                                                         *)
(* A session that ended with an error discards what it hears.  The         *)
(* invariant is of a session that hears it: each end is mirrored by what   *)
(* it would be, had it ended without one (Mirrors).                        *)
(***************************************************************************)
EXTENDS SessionFrames_proofs, FiniteSetTheorems, WellFoundedInduction

-----------------------------------------------------------------------------
(* Streams and how they grow. *)

\* What is in flight to one end.
IsStream(w) == \E F : w \in Seq(F)

\* An empty stream, and what the length of a stream says of it.
LEMMA StreamLen ==
    ASSUME NEW w, IsStream(w)
    PROVE  /\ Len(w) \in Nat
           /\ w = <<>> <=> Len(w) = 0
           /\ DOMAIN w = 1 .. Len(w)
  <1>1. PICK F : w \in Seq(F)
    BY DEF IsStream
  <1> QED
    BY <1>1, EmptySeq, LenProperties

\* Nothing in flight is a stream too.
LEMMA StreamEmpty == IsStream(<<>>) /\ Len(<<>>) = 0
  <1>1. <<>> \in Seq({}) /\ Len(<<>>) = 0
    BY EmptySeq
  <1> QED
    BY <1>1 DEF IsStream

\* A frame sent goes to the end of its stream.
LEMMA StreamAppend ==
    ASSUME NEW w, IsStream(w), NEW e
    PROVE  /\ IsStream(Append(w, e))
           /\ Append(w, e) # <<>>
           /\ Len(Append(w, e)) = Len(w) + 1
           /\ \A i \in 1 .. Len(w) : Append(w, e)[i] = w[i]
           /\ Append(w, e)[Len(w) + 1] = e
  <1>1. PICK F : w \in Seq(F)
    BY DEF IsStream
  <1> DEFINE G == F \cup {e}
  <1>2. w \in Seq(G) /\ e \in G
    BY <1>1, SeqMonotonic
  <1> HIDE DEF G
  <1>3. /\ Append(w, e) \in Seq(G)
        /\ Append(w, e) # <<>>
        /\ Len(Append(w, e)) = Len(w) + 1
        /\ \A i \in 1 .. Len(w) : Append(w, e)[i] = w[i]
        /\ Append(w, e)[Len(w) + 1] = e
    BY <1>2, AppendProperties
  <1> QED
    BY <1>3 DEF IsStream

\* A frame heard is the first, and the others move up.
LEMMA StreamTail ==
    ASSUME NEW w, IsStream(w), w # <<>>
    PROVE  /\ IsStream(Tail(w))
           /\ Len(w) \in Nat \ {0}
           /\ Head(w) = w[1]
           /\ Len(Tail(w)) = Len(w) - 1
           /\ \A i \in 1 .. Len(w) - 1 : Tail(w)[i] = w[i + 1]
  <1>1. PICK F : w \in Seq(F)
    BY DEF IsStream
  <1>2. /\ Tail(w) \in Seq(F)
        /\ Len(Tail(w)) = Len(w) - 1
        /\ \A i \in 1 .. Len(Tail(w)) : Tail(w)[i] = w[i + 1]
    BY <1>1, HeadTailProperties
  <1>3. Len(w) \in Nat \ {0}
    BY <1>1, EmptySeq
  <1>4. Head(w) = w[1]
    BY <1>1
  <1> QED
    BY <1>2, <1>3, <1>4 DEF IsStream

\* Every set of numbers that has a member has a least one.
LEMMA LeastMember ==
    ASSUME NEW T \in SUBSET Nat, T # {}
    PROVE  \E x \in T : \A y \in T : x <= y
  <1> DEFINE R == OpToRel(<, Nat)
  <1>1. IsWellFoundedOn(R, Nat)
    BY NatLessThanWellFounded
  <1>2. \A x, y \in Nat : x < y => <<x, y>> \in R
    BY DEF OpToRel
  <1> HIDE DEF R
  <1>3. PICK x \in T : \A y \in T : <<y, x>> \notin R
    BY <1>1, WFMin
  <1>4. ASSUME NEW y \in T
        PROVE  x <= y
    <2>1. x \in Nat /\ y \in Nat /\ <<y, x>> \notin R
      BY <1>3
    <2>2. ~(y < x)
      BY <1>2, <2>1, Zenon
    <2> QED
      BY <2>1, <2>2
  <1> QED
    BY <1>3, <1>4

-----------------------------------------------------------------------------
(* The frames on their way from q, whose session is x, to p, whose session is  *)
(* y.                                                                          *)

\* An attach or a detach; a grant, or a client's count; a frame that is about the
\* link as it is attached.
Token(f) == f.body \in {"attach", "detach"}
Grant(f) == f.body = "flow" /\ f.handle # Unset
Named(f) == f.body = "transfer" \/ Grant(f)

\* The places of a stream, and streams without tokens and without names.
Places(w) == 1 .. Len(w)

NoToken(w) == \A i \in Places(w) : ~Token(w[i])
NoName(w)  == \A i \in Places(w) : ~Named(w[i])

\* Begin first, end last.
Ordered(w, said, heard) ==
    /\ said = 0 \/ heard = 2 => w = <<>>
    /\ heard < 2 /\ heard < said => w # <<>>
    /\ \A i \in Places(w) : /\ w[i].body = "begin" <=> (i = 1 /\ heard = 0)
                            /\ w[i].body = "end" <=> (i = Len(w) /\ said = 2)

\* One attach or detach at most is on its way, and tells what changed.
Told(w, x, q, y, p) ==
    /\ \A i, j \in Places(w) : Token(w[i]) /\ Token(w[j]) => i = j
    /\ NoToken(w) => (Up(x, q) <=> Seen(y, p))
    /\ \A i \in Places(w) : Token(w[i]) => /\ w[i].body = "attach" <=> Up(x, q)
                                           /\ Up(x, q) <=> ~Seen(y, p)

\* What names the link is heard while its hearer has the link attached.
Attended(w, y, p) ==
    /\ \A i \in Places(w) : Named(w[i]) /\ (\A j \in Places(w) : j < i => ~Token(w[j]))
           => Seen(y, p)
    /\ \A i, j \in Places(w) : Named(w[i]) /\ Token(w[j]) /\ j < i => ~Seen(y, p)

\* Every frame is one of q's exchange.
Framed(w, q) ==
    /\ IsStream(w)
    /\ \A i \in Places(w) : /\ IsFrameOf(w[i], q)
                            /\ w[i].body = "attach" => w[i].handle <= DefaultHandleMax

\* All that is so of a way, whatever its frames carry.
Way(w, x, q, a, y, p, b) ==
    /\ Framed(w, q)
    /\ Ordered(w, SaidIn(x, a), HeardIn(y, b)) /\ HeardIn(y, b) <= SaidIn(x, a)
    /\ Told(w, x, q, y, p)
    /\ Attended(w, y, p)

\* A frame of the exchange joins others.
LEMMA FramedMore ==
    ASSUME NEW q, NEW w, Framed(w, q), NEW f, IsFrameOf(f, q),
           f.body = "attach" => f.handle <= DefaultHandleMax
    PROVE  Framed(Append(w, f), q)
  <1>1. Len(w) \in Nat
    BY StreamLen DEF Framed
  <1> QED
    BY <1>1, StreamAppend DEF Framed, Places

\* The first of the frames is one, and so are the rest.
LEMMA FramedLess ==
    ASSUME NEW q, NEW w, Framed(w, q), w # <<>>
    PROVE  /\ Framed(Tail(w), q) /\ IsFrameOf(Head(w), q)
           /\ Head(w).body = "attach" => Head(w).handle <= DefaultHandleMax
  BY StreamTail DEF Framed, Places

\* The begin stays first and the end last, when a frame is said.
LEMMA OrderedMore ==
    ASSUME NEW w, IsStream(w), NEW said \in 0 .. 2, NEW heard \in 0 .. 2, Ordered(w, said, heard),
           heard <= said, NEW f, NEW next,
           f.body = "begin" => said = 0 /\ next = 1,
           f.body # "begin" => said = 1,
           f.body = "end" => next = 2,
           f.body \notin {"begin", "end"} => next = 1
    PROVE  Ordered(Append(w, f), next, heard)
  <1> DEFINE v == Append(w, f)
  <1>1. /\ v # <<>> /\ Len(v) = Len(w) + 1 /\ Len(w) \in Nat
        /\ \A i \in 1 .. Len(w) : v[i] = w[i]
        /\ v[Len(w) + 1] = f
        /\ w = <<>> <=> Len(w) = 0
    BY StreamAppend, StreamLen
  <1> HIDE DEF v
  <1>2. heard # 2 /\ (said = 0 => Len(w) = 0) /\ (heard = 0 /\ said = 1 => Len(w) # 0)
    BY <1>1 DEF Ordered
  <1>3. \A i \in 1 .. Len(w) : w[i].body # "end"
    BY <1>1, <1>2 DEF Ordered, Places
  <1>4. \A i \in 1 .. Len(w) : w[i].body = "begin" <=> (i = 1 /\ heard = 0)
    BY DEF Ordered, Places
  <1>5. f.body = "begin" <=> (Len(w) + 1 = 1 /\ heard = 0)
    BY <1>1, <1>2
  <1>6. f.body = "end" <=> next = 2
    OBVIOUS
  <1>7. \A i \in 1 .. Len(v) : /\ v[i].body = "begin" <=> (i = 1 /\ heard = 0)
                               /\ v[i].body = "end" <=> (i = Len(v) /\ next = 2)
    <2> TAKE i \in 1 .. Len(v)
    <2>1. CASE i = Len(w) + 1
      BY <1>1, <1>5, <1>6, <2>1
    <2>2. CASE i # Len(w) + 1
      <3>1. i \in 1 .. Len(w) /\ i # Len(v)
        BY <1>1, <2>2
      <3> QED
        BY <1>1, <1>3, <1>4, <3>1
    <2> QED
      BY <2>1, <2>2
  <1> QED
    BY <1>1, <1>2, <1>7 DEF Ordered, Places, v

\* The begin stays first and the end last, when a frame is heard.
LEMMA OrderedLess ==
    ASSUME NEW w, IsStream(w), w # <<>>, NEW said \in 0 .. 2, NEW heard \in 0 .. 2,
           Ordered(w, said, heard), heard <= said, NEW next,
           Head(w).body = "begin" => next = 1,
           Head(w).body = "end" => next = 2,
           Head(w).body \notin {"begin", "end"} => next = heard
    PROVE  Ordered(Tail(w), said, next) /\ next <= said
  <1> DEFINE v == Tail(w)
  <1>1. /\ Len(w) \in Nat \ {0} /\ Head(w) = w[1] /\ Len(v) = Len(w) - 1
        /\ \A i \in 1 .. Len(w) - 1 : v[i] = w[i + 1]
        /\ v = <<>> <=> Len(v) = 0
    BY StreamTail, StreamLen
  <1> HIDE DEF v
  <1>2. said # 0 /\ heard # 2
    BY DEF Ordered
  <1>3. \A i \in 1 .. Len(w) : /\ w[i].body = "begin" <=> (i = 1 /\ heard = 0)
                               /\ w[i].body = "end" <=> (i = Len(w) /\ said = 2)
    BY DEF Ordered, Places
  <1>4. /\ Head(w).body = "begin" <=> heard = 0
        /\ Head(w).body = "end" <=> (Len(w) = 1 /\ said = 2)
    BY <1>1, <1>3
  <1>5. next \in 0 .. 2 /\ next <= said /\ next # 0
    BY <1>2, <1>4
  <1>6. next = 2 => Len(v) = 0
    BY <1>1, <1>2, <1>4
  <1>7. next < said => Len(v) # 0
    BY <1>1, <1>2, <1>4, <1>5
  <1>8. \A i \in 1 .. Len(v) : /\ v[i].body = "begin" <=> (i = 1 /\ next = 0)
                               /\ v[i].body = "end" <=> (i = Len(v) /\ said = 2)
    <2> TAKE i \in 1 .. Len(v)
    <2>1. v[i] = w[i + 1] /\ i + 1 \in 1 .. Len(w) /\ (i = Len(v) <=> i + 1 = Len(w)) /\ i + 1 # 1
      BY <1>1
    <2> QED
      BY <1>3, <1>5, <2>1
  <1> QED
    BY <1>1, <1>2, <1>5, <1>6, <1>7, <1>8 DEF Ordered, Places, v

\* Tokens and names, in a stream that grows and one that shrinks.
LEMMA TokensMore ==
    ASSUME NEW w, IsStream(w), NEW f
    PROVE  /\ NoToken(Append(w, f)) <=> NoToken(w) /\ ~Token(f)
           /\ NoName(Append(w, f)) <=> NoName(w) /\ ~Named(f)
  <1>1. Len(w) \in Nat
    BY StreamLen
  <1>2. \A i \in 1 .. Len(w) + 1 : i \in 1 .. Len(w) \/ i = Len(w) + 1
    BY <1>1
  <1>3. \A i \in 1 .. Len(w) : i \in 1 .. Len(w) + 1
    BY <1>1
  <1>4. Len(w) + 1 \in 1 .. Len(w) + 1
    BY <1>1
  <1>5. NoToken(Append(w, f)) <=> NoToken(w) /\ ~Token(f)
    BY <1>2, <1>3, <1>4, StreamAppend DEF NoToken, Places
  <1>6. NoName(Append(w, f)) <=> NoName(w) /\ ~Named(f)
    BY <1>2, <1>3, <1>4, StreamAppend DEF NoName, Places
  <1> QED
    BY <1>5, <1>6

\* Tokens and names, when a frame is heard.
LEMMA TokensLess ==
    ASSUME NEW w, IsStream(w), w # <<>>
    PROVE  /\ NoToken(w) <=> NoToken(Tail(w)) /\ ~Token(Head(w))
           /\ NoName(w) <=> NoName(Tail(w)) /\ ~Named(Head(w))
  <1>1. /\ Len(w) \in Nat \ {0} /\ Head(w) = w[1] /\ Len(Tail(w)) = Len(w) - 1
        /\ \A i \in 1 .. Len(w) - 1 : Tail(w)[i] = w[i + 1]
    BY StreamTail
  <1>2. \A i \in 1 .. Len(w) : i = 1 \/ (i - 1 \in 1 .. Len(w) - 1 /\ Tail(w)[i - 1] = w[i])
    BY <1>1
  <1>3. \A i \in 1 .. Len(w) - 1 : i + 1 \in 1 .. Len(w)
    BY <1>1
  <1>4. 1 \in 1 .. Len(w)
    BY <1>1
  <1>5. NoToken(w) <=> NoToken(Tail(w)) /\ ~Token(Head(w))
    BY <1>1, <1>2, <1>3, <1>4 DEF NoToken, Places
  <1>6. NoName(w) <=> NoName(Tail(w)) /\ ~Named(Head(w))
    BY <1>1, <1>2, <1>3, <1>4 DEF NoName, Places
  <1> QED
    BY <1>5, <1>6

\* What is known of the partner's end of the link, when a frame is said.
LEMMA ToldMore ==
    ASSUME NEW w, IsStream(w), NEW x, NEW q, NEW y, NEW p, Told(w, x, q, y, p),
           NEW f, NEW z,
           Token(f) => NoToken(w),
           f.body = "attach" => ~Up(x, q) /\ Up(z, q),
           f.body = "detach" => Up(x, q) /\ ~Up(z, q),
           ~Token(f) => (Up(z, q) <=> Up(x, q))
    PROVE  Told(Append(w, f), z, q, y, p)
  <1> DEFINE v == Append(w, f)
  <1>1. /\ Len(w) \in Nat /\ Len(v) = Len(w) + 1 /\ v[Len(w) + 1] = f
        /\ \A i \in 1 .. Len(w) : v[i] = w[i]
    BY StreamAppend, StreamLen
  <1>2. NoToken(v) <=> NoToken(w) /\ ~Token(f)
    BY TokensMore
  <1> HIDE DEF v
  <1>3. CASE Token(f)
    <2>1. \A i \in Places(v) : Token(v[i]) => i = Len(w) + 1
      BY <1>1, <1>3 DEF NoToken, Places
    <2>2. Up(x, q) <=> Seen(y, p)
      BY <1>3 DEF Told
    <2>3. f.body = "attach" \/ f.body = "detach"
      BY <1>3 DEF Token
    <2>4. (f.body = "attach" <=> Up(z, q)) /\ (Up(z, q) <=> ~Seen(y, p))
      BY <2>2, <2>3
    <2>5. ~NoToken(v)
      BY <1>2, <1>3
    <2> QED
      BY <1>1, <2>1, <2>4, <2>5 DEF Told, v
  <1>4. CASE ~Token(f)
    <2>1. \A i \in Places(v) : Token(v[i]) => i \in Places(w) /\ v[i] = w[i]
      BY <1>1, <1>4 DEF Places
    <2> QED
      BY <1>2, <1>4, <2>1 DEF Told, v
  <1> QED
    BY <1>3, <1>4

\* What is known of the partner's end of the link, when a frame is heard.
LEMMA ToldLess ==
    ASSUME NEW w, IsStream(w), w # <<>>, NEW x, NEW q, NEW y, NEW p, Told(w, x, q, y, p),
           NEW z,
           Head(w).body = "attach" => Seen(z, p),
           Head(w).body = "detach" => ~Seen(z, p),
           ~Token(Head(w)) => (Seen(z, p) <=> Seen(y, p))
    PROVE  Told(Tail(w), x, q, z, p)
  <1> DEFINE v == Tail(w)
  <1>1. /\ Len(w) \in Nat \ {0} /\ Head(w) = w[1] /\ Len(v) = Len(w) - 1
        /\ \A i \in 1 .. Len(w) - 1 : v[i] = w[i + 1]
    BY StreamTail
  <1>2. NoToken(w) <=> NoToken(v) /\ ~Token(Head(w))
    BY TokensLess
  <1> HIDE DEF v
  <1>3. \A i \in Places(v) : i + 1 \in Places(w) /\ v[i] = w[i + 1] /\ i + 1 # 1 /\ i \in Nat
    BY <1>1 DEF Places
  <1>4. 1 \in Places(w)
    BY <1>1 DEF Places
  <1>5. CASE Token(Head(w))
    <2>1. NoToken(v)
      BY <1>1, <1>3, <1>4, <1>5 DEF Told, NoToken
    <2>2. (Head(w).body = "attach" <=> Up(x, q)) /\ (Up(x, q) <=> ~Seen(y, p))
      BY <1>1, <1>4, <1>5 DEF Told
    <2>3. Head(w).body = "attach" \/ Head(w).body = "detach"
      BY <1>5 DEF Token
    <2>4. Up(x, q) <=> Seen(z, p)
      BY <2>2, <2>3
    <2> QED
      BY <2>1, <2>4 DEF Told, NoToken, v
  <1>6. CASE ~Token(Head(w))
    <2>1. \A i, j \in Places(v) : Token(v[i]) /\ Token(v[j]) => i = j
      <3> TAKE i, j \in Places(v)
      <3>1. Token(v[i]) /\ Token(v[j]) => i + 1 = j + 1
        BY <1>3 DEF Told
      <3> QED
        BY <1>3, <3>1
    <2>2. NoToken(v) => (Up(x, q) <=> Seen(z, p))
      BY <1>2, <1>6 DEF Told
    <2>3. \A i \in Places(v) : Token(v[i]) => /\ v[i].body = "attach" <=> Up(x, q)
                                              /\ Up(x, q) <=> ~Seen(z, p)
      BY <1>3, <1>6 DEF Told
    <2> QED
      BY <2>1, <2>2, <2>3 DEF Told, v
  <1> QED
    BY <1>5, <1>6

\* A frame that names a delivery is said of an attached link.
LEMMA AttendedMore ==
    ASSUME NEW w, IsStream(w), NEW x, NEW q, NEW y, NEW p, Told(w, x, q, y, p),
           Attended(w, y, p), NEW f, Named(f) => Up(x, q)
    PROVE  Attended(Append(w, f), y, p)
  <1> DEFINE v == Append(w, f)
  <1>1. /\ Len(w) \in Nat /\ Len(v) = Len(w) + 1 /\ v[Len(w) + 1] = f
        /\ \A i \in 1 .. Len(w) : v[i] = w[i]
    BY StreamAppend, StreamLen
  <1> HIDE DEF v
  <1>2. Named(f) => ~Token(f)
    BY DEF Named, Token, Grant
  <1>3. \A i \in Places(v) : i \in Places(w) \/ i = Len(w) + 1
    BY <1>1 DEF Places
  <1>4. \A i \in Places(w) : i \in Places(v) /\ v[i] = w[i] /\ i < Len(w) + 1 /\ ~(Len(w) + 1 < i)
    BY <1>1 DEF Places
  <1>5. ASSUME NEW i \in Places(v), Named(v[i]), \A j \in Places(v) : j < i => ~Token(v[j])
        PROVE  Seen(y, p)
    <2>1. CASE i \in Places(w)
      BY <1>4, <1>5, <2>1 DEF Attended
    <2>2. CASE i = Len(w) + 1
      <3>1. NoToken(w)
        BY <1>4, <1>5, <2>2 DEF NoToken
      <3> QED
        BY <1>1, <1>5, <2>2, <3>1 DEF Told
    <2> QED
      BY <1>3, <2>1, <2>2
  <1>6. ASSUME NEW i \in Places(v), NEW j \in Places(v), Named(v[i]), Token(v[j]), j < i
        PROVE  ~Seen(y, p)
    <2>1. j \in Places(w)
      <3>1. CASE j = Len(w) + 1 /\ i \in Places(w)
        BY <1>4, <1>6, <3>1
      <3>2. CASE j = Len(w) + 1 /\ i = Len(w) + 1
        BY <1>1, <1>6, <3>2
      <3> QED
        BY <1>3, <3>1, <3>2
    <2>2. CASE i \in Places(w)
      BY <1>4, <1>6, <2>1, <2>2 DEF Attended
    <2>3. CASE i = Len(w) + 1
      BY <1>1, <1>4, <1>6, <2>1, <2>3 DEF Told
    <2> QED
      BY <1>3, <2>2, <2>3
  <1> QED
    BY <1>5, <1>6 DEF Attended, v

\* A frame that names a delivery is heard of an attached link.
LEMMA AttendedLess ==
    ASSUME NEW w, IsStream(w), w # <<>>, NEW x, NEW q, NEW y, NEW p, Told(w, x, q, y, p),
           Attended(w, y, p), NEW z,
           Head(w).body = "attach" => Seen(z, p),
           Head(w).body = "detach" => ~Seen(z, p),
           ~Token(Head(w)) => (Seen(z, p) <=> Seen(y, p))
    PROVE  Attended(Tail(w), z, p)
  <1> DEFINE v == Tail(w)
  <1>1. /\ Len(w) \in Nat \ {0} /\ Head(w) = w[1] /\ Len(v) = Len(w) - 1
        /\ \A i \in 1 .. Len(w) - 1 : v[i] = w[i + 1]
    BY StreamTail
  <1> HIDE DEF v
  <1>2. \A i \in Places(v) : i + 1 \in Places(w) /\ v[i] = w[i + 1] /\ i + 1 # 1 /\ 1 < i + 1
    BY <1>1 DEF Places
  <1>3. \A i \in Places(w) : i = 1 \/ (i - 1 \in Places(v) /\ v[i - 1] = w[i])
    BY <1>1 DEF Places
  <1>4. 1 \in Places(w) /\ Places(v) \subseteq Nat /\ Places(w) \subseteq Nat
    BY <1>1 DEF Places
  <1>5. CASE Token(Head(w))
    <2>1. NoToken(v)
      BY <1>1, <1>2, <1>4, <1>5 DEF Told, NoToken
    <2>2. (Head(w).body = "attach" <=> Up(x, q)) /\ (Up(x, q) <=> ~Seen(y, p))
      BY <1>1, <1>4, <1>5 DEF Told
    <2>3. \A i \in Places(v) : Named(v[i]) => ~Seen(y, p)
      BY <1>1, <1>2, <1>4, <1>5 DEF Attended
    <2>4. \A i \in Places(v) : Named(v[i]) => Seen(z, p)
      <3>1. Head(w).body = "attach" \/ Head(w).body = "detach"
        BY <1>5 DEF Token
      <3> QED
        BY <2>2, <2>3, <3>1
    <2> QED
      BY <2>1, <2>4 DEF Attended, NoToken, v
  <1>6. CASE ~Token(Head(w))
    <2>1. ASSUME NEW i \in Places(v), Named(v[i]), \A j \in Places(v) : j < i => ~Token(v[j])
          PROVE  Seen(z, p)
      <3>1. \A j \in Places(w) : j < i + 1 => ~Token(w[j])
        <4> TAKE j \in Places(w)
        <4>1. CASE j = 1
          BY <1>1, <1>6, <4>1
        <4>2. CASE j # 1
          <5>1. j - 1 \in Places(v) /\ v[j - 1] = w[j]
            BY <1>3, <4>2
          <5>2. j < i + 1 => j - 1 < i
            BY <1>4
          <5> QED
            BY <2>1, <5>1, <5>2
        <4> QED
          BY <4>1, <4>2
      <3> QED
        BY <1>2, <1>6, <2>1, <3>1 DEF Attended
    <2>2. ASSUME NEW i \in Places(v), NEW j \in Places(v), Named(v[i]), Token(v[j]), j < i
          PROVE  ~Seen(z, p)
      <3>1. j + 1 < i + 1
        BY <1>4, <2>2
      <3> QED
        BY <1>2, <1>6, <2>2, <3>1 DEF Attended
    <2> QED
      BY <2>1, <2>2 DEF Attended, v
  <1> QED
    BY <1>5, <1>6

-----------------------------------------------------------------------------
(* A way, as its ends speak and hear. *)

\* A way, when its speaker says a frame.
LEMMA WayMore ==
    ASSUME NEW q \in Peers, NEW p, NEW x, NEW a, NEW y, NEW b, NEW w,
           StageShape(x, q, a), StageShape(y, p, b), Way(w, x, q, a, y, p, b),
           NEW f, IsFrameOf(f, q), f.body = "attach" => f.handle <= DefaultHandleMax,
           NEW z, NEW c, Saying(x, z, q, f, a, c),
           Token(f) => NoToken(w),
           f.body = "attach" => ~Up(x, q),
           Named(f) => Up(x, q)
    PROVE  Way(Append(w, f), z, q, c, y, p, b)
  <1>1. IsStream(w)
    BY DEF Way, Framed
  <1>2. Framed(Append(w, f), q)
    BY FramedMore DEF Way
  <1>3. SaidIn(x, a) \in 0 .. 2 /\ HeardIn(y, b) \in 0 .. 2 /\ HeardIn(y, b) <= SaidIn(x, a)
    BY Stages DEF Way
  <1>4. /\ f.body = "begin" => SaidIn(x, a) = 0 /\ SaidIn(z, c) = 1
        /\ f.body # "begin" => SaidIn(x, a) = 1
        /\ f.body = "end" => SaidIn(z, c) = 2
        /\ f.body \notin {"begin", "end"} => SaidIn(z, c) = 1
    BY DEF Saying
  <1>5. Ordered(Append(w, f), SaidIn(z, c), HeardIn(y, b))
    BY <1>1, <1>3, <1>4, OrderedMore DEF Way
  <1>6. HeardIn(y, b) <= SaidIn(z, c)
    <2>1. \/ SaidIn(x, a) = 0 /\ SaidIn(z, c) = 1
          \/ SaidIn(x, a) = 1 /\ SaidIn(z, c) = 1
          \/ SaidIn(x, a) = 1 /\ SaidIn(z, c) = 2
      BY <1>4
    <2> QED
      BY <1>3, <2>1
  <1>7. LinkSaid(LinkIn(z, q), LinkIn(x, q), f)
    BY DEF Saying
  <1>8. /\ f.body = "attach" => Up(z, q)
        /\ f.body = "detach" => Up(x, q) /\ ~Up(z, q)
        /\ ~Token(f) => (Up(z, q) <=> Up(x, q))
    BY <1>7 DEF LinkSaid, Up, Token
  <1>9. Told(Append(w, f), z, q, y, p)
    BY <1>1, <1>8, ToldMore DEF Way
  <1>10. Attended(Append(w, f), y, p)
    BY <1>1, AttendedMore DEF Way
  <1> QED
    BY <1>2, <1>5, <1>6, <1>9, <1>10 DEF Way

\* A way, when its hearer hears one.
LEMMA WayLess ==
    ASSUME NEW q, NEW p, NEW x, NEW a, NEW y, NEW b, NEW w, w # <<>>,
           StageShape(x, q, a), StageShape(y, p, b), Way(w, x, q, a, y, p, b),
           NEW z, Hearing(y, z, p, Head(w), b)
    PROVE  Way(Tail(w), x, q, a, z, p, b)
  <1> DEFINE f == Head(w)
  <1>1. IsStream(w)
    BY DEF Way, Framed
  <1>2. Framed(Tail(w), q)
    BY FramedLess DEF Way
  <1>3. SaidIn(x, a) \in 0 .. 2 /\ HeardIn(y, b) \in 0 .. 2 /\ HeardIn(y, b) <= SaidIn(x, a)
    BY Stages DEF Way
  <1>4. /\ f.body = "begin" => HeardIn(z, b) = 1
        /\ f.body = "end" => HeardIn(z, b) = 2
        /\ f.body \notin {"begin", "end"} => HeardIn(z, b) = HeardIn(y, b)
    BY DEF Hearing
  <1>5. Ordered(Tail(w), SaidIn(x, a), HeardIn(z, b)) /\ HeardIn(z, b) <= SaidIn(x, a)
    BY <1>1, <1>3, <1>4, OrderedLess DEF Way
  <1>6. LinkHeard(LinkIn(z, p), LinkIn(y, p), p, f)
    BY DEF Hearing
  <1>7. /\ f.body = "attach" => Seen(z, p)
        /\ f.body = "detach" => ~Seen(z, p)
        /\ ~Token(f) => (Seen(z, p) <=> Seen(y, p))
    BY <1>6 DEF LinkHeard, Seen, Token
  <1>8. Told(Tail(w), x, q, z, p)
    BY <1>1, <1>7, ToldLess DEF Way
  <1>9. Attended(Tail(w), z, p)
    BY <1>1, <1>7, AttendedLess DEF Way
  <1> QED
    BY <1>2, <1>5, <1>8, <1>9 DEF Way

\* What the other end of a way does leaves it alone.
LEMMA WayKept ==
    ASSUME NEW q, NEW p, NEW x, NEW a, NEW y, NEW b, NEW w, Way(w, x, q, a, y, p, b), NEW f, NEW z
    PROVE  /\ \A c : Saying(y, z, p, f, b, c) => Way(w, x, q, a, z, p, c)
           /\ Hearing(x, z, q, f, a) => Way(w, z, q, a, y, p, b)
  <1>1. ASSUME NEW c, Saying(y, z, p, f, b, c)
        PROVE  Way(w, x, q, a, z, p, c)
    <2>1. HeardIn(z, c) = HeardIn(y, b) /\ (Seen(z, p) <=> Seen(y, p))
      BY <1>1 DEF Saying, LinkSaid, Seen
    <2> QED
      BY <2>1 DEF Way, Told, Attended
  <1>2. ASSUME Hearing(x, z, q, f, a)
        PROVE  Way(w, z, q, a, y, p, b)
    <2>1. SaidIn(z, a) = SaidIn(x, a) /\ (Up(z, q) <=> Up(x, q))
      BY <1>2 DEF Hearing, LinkHeard, Up
    <2> QED
      BY <2>1 DEF Way, Told
  <1> QED
    BY <1>1, <1>2

-----------------------------------------------------------------------------
(* What a stream makes of its hearer, frame by frame. *)

\* A transfer that opens a delivery.
Opens(f) == f.body = "transfer" /\ f.deliveryId # Unset

NoOpening(w)  == \A i \in Places(w) : ~Opens(w[i])

\* The delivery-count, the transfer number and the table of the end that hears a
\* frame, before it and after.
CountStep(f, a, b) ==
    /\ a \in Nat /\ b \in Nat
    /\ Opens(f) => b = a + 1
    /\ ~Opens(f) => b = a
    /\ Grant(f) => f.count = a

\* The id of the next transfer, before and after f.
NumberStep(f, a, b) ==
    /\ a \in Nat /\ b \in Nat
    /\ f.body = "transfer" => b = a + 1
    /\ f.body # "transfer" => b = a
    /\ f.body = "flow" => f.nextOutgoing = a

\* The table, before and after f, which has to be one the table accepts.
TableStep(f, a, b) ==
    /\ b = Effect(a, f)
    /\ f.body = "transfer" => /\ Accepts(a, f)
                              /\ f.deliveryId # Unset <=> a.delivery = Unset

\* The same over a whole stream.
Counted(w, a, b) ==
    \E m : /\ m[0] = a /\ m[Len(w)] = b /\ a \in Nat
           /\ \A i \in Places(w) : CountStep(w[i], m[i - 1], m[i])

Numbered(w, a, b) ==
    \E m : /\ m[0] = a /\ m[Len(w)] = b /\ a \in Nat
           /\ \A i \in Places(w) : NumberStep(w[i], m[i - 1], m[i])

Tracked(w, a, b) ==
    \E m : /\ m[0] = a /\ m[Len(w)] = b
           /\ \A i \in Places(w) : TableStep(w[i], m[i - 1], m[i])

\* A thread of values, one longer and one shorter.
Longer(m, n, v) == [i \in 0 .. n + 1 |-> IF i = n + 1 THEN v ELSE m[i]]
Shorter(m, n)   == [i \in 0 .. n - 1 |-> m[i + 1]]

\* d is the thread m of w, with v after f; d is m without its first value.
IsLonger(d, m, w, f, v) ==
    /\ d[0] = m[0] /\ d[Len(Append(w, f))] = v
    /\ \A i \in Places(Append(w, f)) :
          \/ i \in Places(w) /\ Append(w, f)[i] = w[i] /\ d[i - 1] = m[i - 1] /\ d[i] = m[i]
          \/ Append(w, f)[i] = f /\ d[i - 1] = m[Len(w)] /\ d[i] = v

IsShorter(d, m, w) ==
    /\ d[0] = m[1] /\ d[Len(Tail(w))] = m[Len(w)]
    /\ 1 \in Places(w) /\ Head(w) = w[1]
    /\ \A i \in Places(Tail(w)) :
          /\ i + 1 \in Places(w) /\ Tail(w)[i] = w[i + 1]
          /\ d[i - 1] = m[(i + 1) - 1] /\ d[i] = m[i + 1]

\* A thread has one that is longer.
LEMMA ThreadLonger ==
    ASSUME NEW w, IsStream(w), NEW m, NEW f, NEW v
    PROVE  \E d : IsLonger(d, m, w, f, v)
  <1> DEFINE e == Longer(m, Len(w), v)
  <1>d. PICK d : d = e
    OBVIOUS
  <1>1. Len(w) \in Nat
    BY StreamLen
  <1>2. /\ Len(Append(w, f)) = Len(w) + 1 /\ Append(w, f)[Len(w) + 1] = f
        /\ \A i \in 1 .. Len(w) : Append(w, f)[i] = w[i]
    BY StreamAppend
  <1>3. /\ \A i \in 0 .. Len(w) : d[i] = m[i]
        /\ d[Len(w) + 1] = v
    BY <1>1, <1>d DEF Longer
  <1> HIDE DEF e
  <1>4. ASSUME NEW i \in Places(Append(w, f))
        PROVE  \/ i \in Places(w) /\ Append(w, f)[i] = w[i]
                  /\ d[i - 1] = m[i - 1] /\ d[i] = m[i]
               \/ Append(w, f)[i] = f /\ d[i - 1] = m[Len(w)] /\ d[i] = v
    <2>1. CASE i = Len(w) + 1
      <3>1. i - 1 = Len(w) /\ Len(w) \in 0 .. Len(w)
        BY <1>1, <2>1
      <3> QED
        BY <1>2, <1>3, <2>1, <3>1
    <2>2. CASE i # Len(w) + 1
      <3>1. i \in 1 .. Len(w) /\ i \in 0 .. Len(w) /\ i - 1 \in 0 .. Len(w)
        BY <1>1, <1>2, <2>2 DEF Places
      <3> QED
        BY <1>2, <1>3, <3>1 DEF Places
    <2> QED
      BY <2>1, <2>2
  <1>5. 0 \in 0 .. Len(w)
    BY <1>1
  <1>6. d[0] = m[0] /\ d[Len(Append(w, f))] = v
    BY <1>2, <1>3, <1>5
  <1>7. IsLonger(d, m, w, f, v)
    BY <1>4, <1>6 DEF IsLonger
  <1> QED
    BY <1>7

\* A thread has one that is shorter.
LEMMA ThreadShorter ==
    ASSUME NEW w, IsStream(w), w # <<>>, NEW m
    PROVE  \E d : IsShorter(d, m, w)
  <1> DEFINE e == Shorter(m, Len(w))
  <1>d. PICK d : d = e
    OBVIOUS
  <1>1. /\ Len(w) \in Nat \ {0} /\ Head(w) = w[1] /\ Len(Tail(w)) = Len(w) - 1
        /\ \A i \in 1 .. Len(w) - 1 : Tail(w)[i] = w[i + 1]
    BY StreamTail
  <1>2. \A i \in 0 .. Len(w) - 1 : d[i] = m[i + 1]
    BY <1>d DEF Shorter
  <1> HIDE DEF e
  <1>3. ASSUME NEW i \in Places(Tail(w))
        PROVE  /\ i + 1 \in Places(w) /\ Tail(w)[i] = w[i + 1]
               /\ d[i - 1] = m[(i + 1) - 1] /\ d[i] = m[i + 1]
    <2>1. /\ i \in 1 .. Len(w) - 1 /\ i - 1 \in 0 .. Len(w) - 1 /\ i \in 0 .. Len(w) - 1
          /\ (i + 1) - 1 = i /\ (i - 1) + 1 = i /\ i + 1 \in 1 .. Len(w)
      BY <1>1 DEF Places
    <2> QED
      BY <1>1, <1>2, <2>1 DEF Places
  <1>4. /\ 0 \in 0 .. Len(w) - 1 /\ Len(w) - 1 \in 0 .. Len(w) - 1 /\ 0 + 1 = 1
        /\ (Len(w) - 1) + 1 = Len(w) /\ 1 \in 1 .. Len(w)
    BY <1>1
  <1>5. d[0] = m[1] /\ d[Len(Tail(w))] = m[Len(w)]
    BY <1>1, <1>2, <1>4
  <1>6. 1 \in Places(w)
    BY <1>4 DEF Places
  <1>7. IsShorter(d, m, w)
    BY <1>1, <1>3, <1>5, <1>6 DEF IsShorter
  <1> QED
    BY <1>7

\* The count at the end of a stream moves with the frame said.
LEMMA CountedMore ==
    ASSUME NEW w, IsStream(w), NEW a, NEW b, Counted(w, a, b), NEW f, NEW c, CountStep(f, b, c)
    PROVE  Counted(Append(w, f), a, c)
  <1>1. PICK m : /\ m[0] = a /\ m[Len(w)] = b /\ a \in Nat
                 /\ \A i \in Places(w) : CountStep(w[i], m[i - 1], m[i])
    BY DEF Counted
  <1>d. PICK d : IsLonger(d, m, w, f, c)
    BY ThreadLonger
  <1>2. /\ d[0] = a /\ d[Len(Append(w, f))] = c
        /\ \A i \in Places(Append(w, f)) : CountStep(Append(w, f)[i], d[i - 1], d[i])
    <2>1. /\ d[0] = m[0] /\ d[Len(Append(w, f))] = c
          /\ \A i \in Places(Append(w, f)) :
                \/ i \in Places(w) /\ Append(w, f)[i] = w[i]
                   /\ d[i - 1] = m[i - 1] /\ d[i] = m[i]
                \/ Append(w, f)[i] = f /\ d[i - 1] = m[Len(w)] /\ d[i] = c
      BY <1>d DEF IsLonger
    <2> QED
      BY <1>1, <2>1
  <1> QED
    BY <1>1, <1>2 DEF Counted

\* The id at the end of a stream moves with the frame said.
LEMMA NumberedMore ==
    ASSUME NEW w, IsStream(w), NEW a, NEW b, Numbered(w, a, b), NEW f, NEW c, NumberStep(f, b, c)
    PROVE  Numbered(Append(w, f), a, c)
  <1>1. PICK m : /\ m[0] = a /\ m[Len(w)] = b /\ a \in Nat
                 /\ \A i \in Places(w) : NumberStep(w[i], m[i - 1], m[i])
    BY DEF Numbered
  <1>d. PICK d : IsLonger(d, m, w, f, c)
    BY ThreadLonger
  <1>2. /\ d[0] = a /\ d[Len(Append(w, f))] = c
        /\ \A i \in Places(Append(w, f)) : NumberStep(Append(w, f)[i], d[i - 1], d[i])
    <2>1. /\ d[0] = m[0] /\ d[Len(Append(w, f))] = c
          /\ \A i \in Places(Append(w, f)) :
                \/ i \in Places(w) /\ Append(w, f)[i] = w[i]
                   /\ d[i - 1] = m[i - 1] /\ d[i] = m[i]
                \/ Append(w, f)[i] = f /\ d[i - 1] = m[Len(w)] /\ d[i] = c
      BY <1>d DEF IsLonger
    <2> QED
      BY <1>1, <2>1
  <1> QED
    BY <1>1, <1>2 DEF Numbered

\* The table at the end of a stream moves with the frame said.
LEMMA TrackedMore ==
    ASSUME NEW w, IsStream(w), NEW a, NEW b, Tracked(w, a, b), NEW f, NEW c, TableStep(f, b, c)
    PROVE  Tracked(Append(w, f), a, c)
  <1>1. PICK m : /\ m[0] = a /\ m[Len(w)] = b
                 /\ \A i \in Places(w) : TableStep(w[i], m[i - 1], m[i])
    BY DEF Tracked
  <1>d. PICK d : IsLonger(d, m, w, f, c)
    BY ThreadLonger
  <1>2. /\ d[0] = a /\ d[Len(Append(w, f))] = c
        /\ \A i \in Places(Append(w, f)) : TableStep(Append(w, f)[i], d[i - 1], d[i])
    <2>1. /\ d[0] = m[0] /\ d[Len(Append(w, f))] = c
          /\ \A i \in Places(Append(w, f)) :
                \/ i \in Places(w) /\ Append(w, f)[i] = w[i]
                   /\ d[i - 1] = m[i - 1] /\ d[i] = m[i]
                \/ Append(w, f)[i] = f /\ d[i - 1] = m[Len(w)] /\ d[i] = c
      BY <1>d DEF IsLonger
    <2> QED
      BY <1>1, <2>1
  <1> QED
    BY <1>1, <1>2 DEF Tracked

\* The count at the front of a stream moves with the frame heard.
LEMMA CountedLess ==
    ASSUME NEW w, IsStream(w), w # <<>>, NEW a, NEW b, Counted(w, a, b)
    PROVE  \E c : CountStep(Head(w), a, c) /\ Counted(Tail(w), c, b)
  <1>1. PICK m : /\ m[0] = a /\ m[Len(w)] = b /\ a \in Nat
                 /\ \A i \in Places(w) : CountStep(w[i], m[i - 1], m[i])
    BY DEF Counted
  <1>d. PICK d : IsShorter(d, m, w)
    BY ThreadShorter
  <1>2. /\ d[0] = m[1] /\ d[Len(Tail(w))] = b
        /\ \A i \in Places(Tail(w)) : CountStep(Tail(w)[i], d[i - 1], d[i])
        /\ CountStep(Head(w), m[1 - 1], m[1])
    <2>1. /\ d[0] = m[1] /\ d[Len(Tail(w))] = m[Len(w)]
          /\ 1 \in Places(w) /\ Head(w) = w[1]
          /\ \A i \in Places(Tail(w)) :
                /\ i + 1 \in Places(w) /\ Tail(w)[i] = w[i + 1]
                /\ d[i - 1] = m[(i + 1) - 1] /\ d[i] = m[i + 1]
      BY <1>d DEF IsShorter
    <2> QED
      BY <1>1, <2>1
  <1>3. CountStep(Head(w), a, m[1])
    BY <1>1, <1>2
  <1>4. m[1] \in Nat
    BY <1>3 DEF CountStep
  <1>5. Counted(Tail(w), m[1], b)
    BY <1>2, <1>4 DEF Counted
  <1> QED
    BY <1>3, <1>5

\* The id at the front of a stream moves with the frame heard.
LEMMA NumberedLess ==
    ASSUME NEW w, IsStream(w), w # <<>>, NEW a, NEW b, Numbered(w, a, b)
    PROVE  \E c : NumberStep(Head(w), a, c) /\ Numbered(Tail(w), c, b)
  <1>1. PICK m : /\ m[0] = a /\ m[Len(w)] = b /\ a \in Nat
                 /\ \A i \in Places(w) : NumberStep(w[i], m[i - 1], m[i])
    BY DEF Numbered
  <1>d. PICK d : IsShorter(d, m, w)
    BY ThreadShorter
  <1>2. /\ d[0] = m[1] /\ d[Len(Tail(w))] = b
        /\ \A i \in Places(Tail(w)) : NumberStep(Tail(w)[i], d[i - 1], d[i])
        /\ NumberStep(Head(w), m[1 - 1], m[1])
    <2>1. /\ d[0] = m[1] /\ d[Len(Tail(w))] = m[Len(w)]
          /\ 1 \in Places(w) /\ Head(w) = w[1]
          /\ \A i \in Places(Tail(w)) :
                /\ i + 1 \in Places(w) /\ Tail(w)[i] = w[i + 1]
                /\ d[i - 1] = m[(i + 1) - 1] /\ d[i] = m[i + 1]
      BY <1>d DEF IsShorter
    <2> QED
      BY <1>1, <2>1
  <1>3. NumberStep(Head(w), a, m[1])
    BY <1>1, <1>2
  <1>4. m[1] \in Nat
    BY <1>3 DEF NumberStep
  <1>5. Numbered(Tail(w), m[1], b)
    BY <1>2, <1>4 DEF Numbered
  <1> QED
    BY <1>3, <1>5

\* The table at the front of a stream moves with the frame heard, and in one
\* way only.
LEMMA TrackedLess ==
    ASSUME NEW w, IsStream(w), w # <<>>, NEW a, NEW b, Tracked(w, a, b)
    PROVE  TableStep(Head(w), a, Effect(a, Head(w))) /\ Tracked(Tail(w), Effect(a, Head(w)), b)
  <1>1. PICK m : /\ m[0] = a /\ m[Len(w)] = b
                 /\ \A i \in Places(w) : TableStep(w[i], m[i - 1], m[i])
    BY DEF Tracked
  <1>d. PICK d : IsShorter(d, m, w)
    BY ThreadShorter
  <1>2. /\ d[0] = m[1] /\ d[Len(Tail(w))] = b
        /\ \A i \in Places(Tail(w)) : TableStep(Tail(w)[i], d[i - 1], d[i])
        /\ TableStep(Head(w), m[1 - 1], m[1])
    <2>1. /\ d[0] = m[1] /\ d[Len(Tail(w))] = m[Len(w)]
          /\ 1 \in Places(w) /\ Head(w) = w[1]
          /\ \A i \in Places(Tail(w)) :
                /\ i + 1 \in Places(w) /\ Tail(w)[i] = w[i + 1]
                /\ d[i - 1] = m[(i + 1) - 1] /\ d[i] = m[i + 1]
      BY <1>d DEF IsShorter
    <2> QED
      BY <1>1, <2>1
  <1>3. TableStep(Head(w), a, m[1])
    BY <1>1, <1>2
  <1>4. m[1] = Effect(a, Head(w))
    BY <1>3 DEF TableStep
  <1>5. Tracked(Tail(w), m[1], b)
    BY <1>2 DEF Tracked
  <1> QED
    BY <1>3, <1>4, <1>5

-----------------------------------------------------------------------------
(* What a thread says of its two ends. *)

\* What holds at the first place and passes from each to the next holds at
\* all: there is no least place at which it does not.
LEMMA Along ==
    ASSUME NEW n \in Nat, NEW T, 0 \in T, \A i \in 1 .. n : i - 1 \in T => i \in T
    PROVE  \A i \in 0 .. n : i \in T
  <1> DEFINE U == {i \in 0 .. n : i \notin T}
  <1>1. ASSUME U # {}
        PROVE  FALSE
    <2>1. U \in SUBSET Nat
      OBVIOUS
    <2>2. PICK k \in U : \A j \in U : k <= j
      BY <1>1, <2>1, LeastMember
    <2>3. k \in 1 .. n /\ k - 1 \in 0 .. n /\ ~(k <= k - 1)
      BY <2>2
    <2>4. k - 1 \in T
      BY <2>2, <2>3
    <2> QED
      BY <2>2, <2>3, <2>4
  <1> QED
    BY <1>1

\* A thread that never falls.
LEMMA Rising ==
    ASSUME NEW n \in Nat, NEW m, m[0] \in Nat,
           \A i \in 1 .. n : m[i - 1] \in Nat /\ m[i] \in Nat /\ m[i - 1] <= m[i]
    PROVE  \A i \in 0 .. n : m[i] \in Nat /\ m[0] <= m[i] /\ m[i] <= m[n]
  <1>1. \A i \in 0 .. n : m[i] \in Nat
    <2>1. \A i \in 0 .. n : i = 0 \/ i \in 1 .. n
      OBVIOUS
    <2> QED
      BY <2>1
  <1>2. ASSUME NEW i \in 0 .. n
        PROVE  \A k \in 0 .. n : i <= k => m[i] <= m[k]
    <2> DEFINE T == {k \in 0 .. n : i <= k => m[i] <= m[k]}
    <2>1. 0 \in T
      <3>1. 0 \in 0 .. n /\ (i <= 0 => i = 0)
        OBVIOUS
      <3> QED
        BY <1>1, <3>1
    <2>2. ASSUME NEW k \in 1 .. n, k - 1 \in T
          PROVE  k \in T
      <3>1. k \in 0 .. n /\ k - 1 \in 0 .. n /\ (i <= k => i = k \/ i <= k - 1)
        OBVIOUS
      <3>2. m[k - 1] <= m[k] /\ (i <= k - 1 => m[i] <= m[k - 1])
        BY <2>2
      <3>3. m[i] \in Nat /\ m[k] \in Nat /\ m[k - 1] \in Nat
        BY <1>1, <3>1
      <3>4. i <= k => m[i] <= m[k]
        BY <3>1, <3>2, <3>3
      <3> QED
        BY <3>1, <3>4
    <2> HIDE DEF T
    <2>3. \A k \in 0 .. n : k \in T
      BY <2>1, <2>2, Along
    <2> QED
      BY <2>3 DEF T
  <1>3. 0 \in 0 .. n /\ n \in 0 .. n /\ \A i \in 0 .. n : 0 <= i /\ i <= n
    OBVIOUS
  <1> QED
    BY <1>1, <1>2, <1>3

\* Deliveries are counted upwards, and a count that stands has seen none open.
LEMMA CountedRises ==
    ASSUME NEW w, IsStream(w), NEW a, NEW b, Counted(w, a, b)
    PROVE  a \in Nat /\ b \in Nat /\ a <= b /\ (a = b => NoOpening(w))
  <1>1. PICK m : /\ m[0] = a /\ m[Len(w)] = b /\ a \in Nat
                 /\ \A i \in Places(w) : CountStep(w[i], m[i - 1], m[i])
    BY DEF Counted
  <1>2. Len(w) \in Nat
    BY StreamLen
  <1>3. \A i \in 1 .. Len(w) : /\ m[i - 1] \in Nat /\ m[i] \in Nat /\ m[i - 1] <= m[i]
                               /\ Opens(w[i]) => m[i] = m[i - 1] + 1
    BY <1>1 DEF CountStep, Places
  <1>4. \A i \in 0 .. Len(w) : m[i] \in Nat /\ m[0] <= m[i] /\ m[i] <= m[Len(w)]
    BY <1>1, <1>2, <1>3, Rising
  <1>5. 0 \in 0 .. Len(w) /\ Len(w) \in 0 .. Len(w)
    BY <1>2
  <1>6. a = b => NoOpening(w)
    <2> SUFFICES ASSUME a = b, NEW i \in 1 .. Len(w), Opens(w[i])
                 PROVE  FALSE
      BY DEF NoOpening, Places
    <2>1. i \in 0 .. Len(w) /\ i - 1 \in 0 .. Len(w)
      BY <1>2
    <2>2. /\ m[i] = m[i - 1] + 1 /\ m[i] \in Nat /\ m[i - 1] \in Nat
          /\ m[0] <= m[i - 1] /\ m[i] <= m[Len(w)] /\ m[0] \in Nat /\ m[0] = m[Len(w)]
      BY <1>1, <1>3, <1>4, <2>1
    <2> QED
      BY <2>2
  <1> QED
    BY <1>1, <1>4, <1>5, <1>6

\* Frames that do not name the link leave its count.
LEMMA CountedStands ==
    ASSUME NEW w, IsStream(w), NoName(w), NEW a \in Nat
    PROVE  Counted(w, a, a) /\ \A b : Counted(w, a, b) => b = a
  <1>1. Len(w) \in Nat
    BY StreamLen
  <1>2. \A i \in Places(w) : ~Opens(w[i]) /\ ~Grant(w[i])
    BY DEF NoName, Named, Opens
  <1>3. Counted(w, a, a)
    <2>1. PICK m : m = [i \in 0 .. Len(w) |-> a]
      OBVIOUS
    <2>2. \A i \in 0 .. Len(w) : m[i] = a
      BY <2>1
    <2>3. 0 \in 0 .. Len(w) /\ Len(w) \in 0 .. Len(w)
      BY <1>1
    <2>4. ASSUME NEW i \in Places(w)
          PROVE  CountStep(w[i], m[i - 1], m[i])
      <3>1. i \in 0 .. Len(w) /\ i - 1 \in 0 .. Len(w)
        BY <1>1 DEF Places
      <3>2. m[i] = a /\ m[i - 1] = a
        BY <2>2, <3>1
      <3> QED
        BY <1>2, <3>2 DEF CountStep
    <2> QED
      BY <2>2, <2>3, <2>4 DEF Counted
  <1>4. ASSUME NEW b, Counted(w, a, b)
        PROVE  b = a
    <2>1. PICK m : /\ m[0] = a /\ m[Len(w)] = b
                   /\ \A i \in Places(w) : CountStep(w[i], m[i - 1], m[i])
      BY <1>4 DEF Counted
    <2> DEFINE T == {i \in 0 .. Len(w) : m[i] = a}
    <2>2. 0 \in T
      BY <1>1, <2>1
    <2>3. ASSUME NEW i \in 1 .. Len(w), i - 1 \in T
          PROVE  i \in T
      <3>1. m[i] = m[i - 1]
        BY <1>2, <2>1 DEF CountStep, Places
      <3> QED
        BY <2>3, <3>1
    <2> HIDE DEF T
    <2>4. \A i \in 0 .. Len(w) : i \in T
      BY <1>1, <2>2, <2>3, Along
    <2>5. Len(w) \in 0 .. Len(w)
      BY <1>1
    <2> QED
      BY <2>1, <2>4, <2>5 DEF T
  <1> QED
    BY <1>3, <1>4

\* The transfers of a stream are as many as it moves the number on.
LEMMA NumberedSum ==
    ASSUME NEW w, IsStream(w), NEW a, NEW b, Numbered(w, a, b)
    PROVE  LET n == Cardinality({i \in DOMAIN w : w[i].body = "transfer"})
           IN  n \in Nat /\ a \in Nat /\ b = a + n
  <1>1. PICK m : /\ m[0] = a /\ m[Len(w)] = b /\ a \in Nat
                 /\ \A i \in Places(w) : NumberStep(w[i], m[i - 1], m[i])
    BY DEF Numbered
  <1>2. Len(w) \in Nat /\ DOMAIN w = 1 .. Len(w)
    BY StreamLen
  <1> DEFINE S(i) == {j \in 1 .. i : w[j].body = "transfer"}
             T == {i \in 0 .. Len(w) : Cardinality(S(i)) \in Nat /\ m[i] = a + Cardinality(S(i))}
  <1>3. 0 \in T
    <2>1. S(0) = {}
      OBVIOUS
    <2>2. Cardinality(S(0)) = 0
      BY <2>1, FS_EmptySet
    <2> QED
      BY <1>1, <1>2, <2>2
  <1>4. ASSUME NEW i \in 1 .. Len(w), i - 1 \in T
        PROVE  i \in T
    <2>1. IsFiniteSet(S(i - 1))
      <3>1. IsFiniteSet(1 .. i - 1)
        BY FS_Interval
      <3> QED
        BY <3>1, FS_Subset
    <2>2. i \notin S(i - 1) /\ i \in Places(w)
      BY DEF Places
    <2>3. CASE w[i].body = "transfer"
      <3>1. S(i) = S(i - 1) \cup {i}
        BY <2>3
      <3>2. Cardinality(S(i)) = Cardinality(S(i - 1)) + 1
        BY <2>1, <2>2, <3>1, FS_AddElement
      <3>3. m[i] = m[i - 1] + 1
        BY <1>1, <2>2, <2>3 DEF NumberStep
      <3>4. /\ i \in 0 .. Len(w) /\ a \in Nat
            /\ Cardinality(S(i - 1)) \in Nat /\ m[i - 1] = a + Cardinality(S(i - 1))
        BY <1>1, <1>2, <1>4
      <3>5. Cardinality(S(i)) \in Nat /\ m[i] = a + Cardinality(S(i))
        <4> HIDE DEF S
        <4> QED
          BY <3>2, <3>3, <3>4
      <3> QED
        BY <3>4, <3>5
    <2>4. CASE w[i].body # "transfer"
      <3>1. S(i) = S(i - 1)
        BY <2>4
      <3>2. Cardinality(S(i)) = Cardinality(S(i - 1))
        BY <3>1
      <3>3. m[i] = m[i - 1]
        BY <1>1, <2>2, <2>4 DEF NumberStep
      <3>4. /\ i \in 0 .. Len(w) /\ a \in Nat
            /\ Cardinality(S(i - 1)) \in Nat /\ m[i - 1] = a + Cardinality(S(i - 1))
        BY <1>1, <1>2, <1>4
      <3>5. Cardinality(S(i)) \in Nat /\ m[i] = a + Cardinality(S(i))
        <4> HIDE DEF S
        <4> QED
          BY <3>2, <3>3, <3>4
      <3> QED
        BY <3>4, <3>5
    <2> QED
      BY <2>3, <2>4
  <1>5. Len(w) \in T
    <2> HIDE DEF T
    <2>1. \A i \in 0 .. Len(w) : i \in T
      BY <1>2, <1>3, <1>4, Along
    <2>2. Len(w) \in 0 .. Len(w)
      BY <1>2
    <2> QED
      BY <2>1, <2>2
  <1>6. S(Len(w)) = {i \in DOMAIN w : w[i].body = "transfer"}
    BY <1>2
  <1> QED
    BY <1>1, <1>5, <1>6

\* A stream that moves no delivery.
Quiet(w) == \A i \in Places(w) : w[i].body # "transfer" /\ ~Token(w[i])

\* Only transfers and tokens touch a table.
LEMMA EffectPlain ==
    ASSUME NEW a, NEW f, f.body # "transfer", ~Token(f)
    PROVE  Effect(a, f) = a
  BY DEF Effect, Token

\* Quiet frames leave a table as it is.
LEMMA TrackedStands ==
    ASSUME NEW w, IsStream(w), Quiet(w), NEW a
    PROVE  Tracked(w, a, a) /\ \A b : Tracked(w, a, b) => b = a
  <1>1. Len(w) \in Nat
    BY StreamLen
  <1>2. \A i \in Places(w) : Effect(a, w[i]) = a /\ w[i].body # "transfer"
    BY EffectPlain DEF Quiet
  <1>3. Tracked(w, a, a)
    <2>1. PICK m : m = [i \in 0 .. Len(w) |-> a]
      OBVIOUS
    <2>2. \A i \in 0 .. Len(w) : m[i] = a
      BY <2>1
    <2>3. 0 \in 0 .. Len(w) /\ Len(w) \in 0 .. Len(w)
      BY <1>1
    <2>4. ASSUME NEW i \in Places(w)
          PROVE  TableStep(w[i], m[i - 1], m[i])
      <3>1. i \in 0 .. Len(w) /\ i - 1 \in 0 .. Len(w)
        BY <1>1 DEF Places
      <3>2. m[i] = a /\ m[i - 1] = a
        BY <2>2, <3>1
      <3> QED
        BY <1>2, <3>2 DEF TableStep
    <2> QED
      BY <2>2, <2>3, <2>4 DEF Tracked
  <1>4. ASSUME NEW b, Tracked(w, a, b)
        PROVE  b = a
    <2>1. PICK m : /\ m[0] = a /\ m[Len(w)] = b
                   /\ \A i \in Places(w) : TableStep(w[i], m[i - 1], m[i])
      BY <1>4 DEF Tracked
    <2> DEFINE T == {i \in 0 .. Len(w) : m[i] = a}
    <2>2. 0 \in T
      BY <1>1, <2>1
    <2>3. ASSUME NEW i \in 1 .. Len(w), i - 1 \in T
          PROVE  i \in T
      <3>1. m[i] = Effect(m[i - 1], w[i]) /\ i \in Places(w)
        BY <2>1 DEF TableStep, Places
      <3>2. m[i - 1] = a
        BY <2>3
      <3> QED
        BY <1>2, <2>3, <3>1, <3>2
    <2> HIDE DEF T
    <2>4. \A i \in 0 .. Len(w) : i \in T
      BY <1>1, <2>2, <2>3, Along
    <2>5. Len(w) \in 0 .. Len(w)
      BY <1>1
    <2> QED
      BY <2>1, <2>4, <2>5 DEF T
  <1> QED
    BY <1>3, <1>4

\* Between deliveries, a stream that opens none moves none.
LEMMA TrackedIdles ==
    ASSUME NEW w, IsStream(w), NoToken(w), NoOpening(w), NEW a, NEW b, a.delivery = Unset,
           Tracked(w, a, b)
    PROVE  Quiet(w) /\ b = a
  <1>1. PICK m : /\ m[0] = a /\ m[Len(w)] = b
                 /\ \A i \in Places(w) : TableStep(w[i], m[i - 1], m[i])
    BY DEF Tracked
  <1>2. Len(w) \in Nat
    BY StreamLen
  <1> DEFINE T == {i \in 0 .. Len(w) : m[i] = a /\ (i # 0 => w[i].body # "transfer")}
  <1>3. 0 \in T
    BY <1>1, <1>2
  <1>4. ASSUME NEW i \in 1 .. Len(w), i - 1 \in T
        PROVE  i \in T
    <2>1. TableStep(w[i], a, m[i]) /\ i \in Places(w)
      BY <1>1, <1>4 DEF Places
    <2>2. w[i].body # "transfer"
      BY <2>1 DEF TableStep, NoOpening, Opens
    <2>3. Effect(a, w[i]) = a
      BY <2>1, <2>2, EffectPlain DEF NoToken
    <2>4. m[i] = a
      BY <2>1, <2>3 DEF TableStep
    <2> QED
      BY <1>2, <2>2, <2>4
  <1>5. \A i \in 0 .. Len(w) : i \in T
    <2> HIDE DEF T
    <2> QED
      BY <1>2, <1>3, <1>4, Along
  <1>6. \A i \in Places(w) : i \in 0 .. Len(w) /\ i # 0
    BY DEF Places
  <1>7. Quiet(w)
    BY <1>5, <1>6 DEF Quiet, NoToken
  <1>8. Len(w) \in 0 .. Len(w)
    BY <1>2
  <1> QED
    BY <1>1, <1>5, <1>7, <1>8

\* The empty stream.
LEMMA NothingSaid ==
    ASSUME NEW w, w = <<>>
    PROVE  /\ IsStream(w) /\ NoName(w) /\ NoToken(w) /\ Quiet(w) /\ NoOpening(w)
           /\ \A a, b : Numbered(w, a, b) <=> a \in Nat /\ b = a
  <1>1. IsStream(w) /\ Len(w) = 0
    BY StreamEmpty
  <1>2. Places(w) = {}
    BY <1>1 DEF Places
  <1>3. ASSUME NEW a, NEW b
        PROVE  Numbered(w, a, b) <=> a \in Nat /\ b = a
    <2>1. Numbered(w, a, b) => a \in Nat /\ b = a
      BY <1>1 DEF Numbered
    <2>2. ASSUME a \in Nat, b = a
          PROVE  Numbered(w, a, b)
      <3>1. PICK m : m = [i \in {0} |-> a]
        OBVIOUS
      <3>2. m[0] = a
        BY <3>1
      <3> QED
        BY <1>1, <1>2, <2>2, <3>2 DEF Numbered
    <2> QED
      BY <2>1, <2>2
  <1> QED
    BY <1>1, <1>2, <1>3 DEF NoName, NoToken, Quiet, NoOpening

-----------------------------------------------------------------------------
(* What is granted: the count and the credit the client has, and the grants on  *)
(* their way to it.                                                            *)

\* Streams without grants.
NoGrant(w) == \A i \in Places(w) : ~Grant(w[i])

\* Each grant names the count the client has, and only the last leaves credit.
Owed(w, cc, cr, g) ==
    /\ cc \in Nat /\ cr \in Nat /\ g \in Nat /\ cc + cr <= g
    /\ NoGrant(w) => cc + cr = g
    /\ \A i \in Places(w) : Grant(w[i]) =>
           /\ w[i].count = cc /\ w[i].credit \in Nat /\ cr = 0
           /\ \A j \in Places(w) : Grant(w[j]) /\ i < j => w[i].credit = 0
           /\ (\A j \in Places(w) : Grant(w[j]) => j <= i) => cc + w[i].credit = g

\* With no grant in flight, what is granted is what the client has.
LEMMA OwedPlain ==
    ASSUME NEW w, NoGrant(w), NEW cc \in Nat, NEW cr \in Nat, NEW g, g = cc + cr
    PROVE  Owed(w, cc, cr, g)
  BY DEF Owed, NoGrant

\* Used while any is left, credit is all there is.
LEMMA OwedUsed ==
    ASSUME NEW w, NEW cc, NEW cr, NEW g, Owed(w, cc, cr, g), cr > 0
    PROVE  NoGrant(w) /\ cc + cr = g
  <1>1. NoGrant(w)
    BY DEF Owed, NoGrant
  <1> QED
    BY <1>1 DEF Owed

\* With all that was granted used, the client has nothing, and is to hear of
\* nothing.
LEMMA OwedSpent ==
    ASSUME NEW w, NEW cc, NEW cr, NEW g, Owed(w, cc, cr, g), g <= cc
    PROVE  /\ g = cc /\ cr = 0
           /\ \A i \in Places(w) : Grant(w[i]) => w[i].credit = 0
  <1>1. g = cc /\ cr = 0 /\ cc \in Nat
    BY DEF Owed
  <1>2. ASSUME NEW i \in Places(w), Grant(w[i])
        PROVE  w[i].credit = 0
    <2>1. CASE \A j \in Places(w) : Grant(w[j]) => j <= i
      <3>1. cc + w[i].credit = g /\ w[i].credit \in Nat
        BY <1>2, <2>1 DEF Owed
      <3> QED
        BY <1>1, <3>1
    <2>2. CASE \E j \in Places(w) : Grant(w[j]) /\ ~(j <= i)
      <3>1. PICK j \in Places(w) : Grant(w[j]) /\ ~(j <= i)
        BY <2>2
      <3>2. i < j
        BY <1>2, <3>1 DEF Places
      <3> QED
        BY <1>2, <3>1, <3>2 DEF Owed
    <2> QED
      BY <2>1, <2>2
  <1> QED
    BY <1>1, <1>2

\* What is owed, when the server says a frame.
LEMMA OwedMore ==
    ASSUME NEW w, IsStream(w), NEW cc, NEW cr, NEW g, Owed(w, cc, cr, g), NEW f
    PROVE  /\ ~Grant(f) => Owed(Append(w, f), cc, cr, g)
           /\ Grant(f) /\ g <= cc /\ f.count = cc /\ f.credit \in Nat
                 => Owed(Append(w, f), cc, cr, cc + f.credit)
  <1> DEFINE v == Append(w, f)
  <1>1. /\ Len(w) \in Nat /\ Len(v) = Len(w) + 1 /\ v[Len(w) + 1] = f
        /\ \A i \in 1 .. Len(w) : v[i] = w[i]
    BY StreamAppend, StreamLen
  <1> HIDE DEF v
  <1>2. \A i \in Places(v) : i \in Nat /\ (i \in Places(w) \/ i = Len(w) + 1)
    BY <1>1 DEF Places
  <1>3. \A i \in Places(w) : i \in Places(v) /\ v[i] = w[i] /\ i < Len(w) + 1 /\ ~(Len(w) + 1 <= i)
    BY <1>1 DEF Places
  <1>4. Len(w) + 1 \in Places(v) /\ v[Len(w) + 1] = f
    BY <1>1 DEF Places
  <1>5. ASSUME ~Grant(f)
        PROVE  Owed(v, cc, cr, g)
    <2>1. \A i \in Places(v) : Grant(v[i]) => i \in Places(w) /\ v[i] = w[i]
      BY <1>2, <1>3, <1>4, <1>5
    <2>2. NoGrant(v) => NoGrant(w)
      BY <1>3 DEF NoGrant
    <2>3. ASSUME NEW i \in Places(v), Grant(v[i])
          PROVE  /\ v[i].count = cc /\ v[i].credit \in Nat /\ cr = 0
                 /\ \A j \in Places(v) : Grant(v[j]) /\ i < j => v[i].credit = 0
                 /\ (\A j \in Places(v) : Grant(v[j]) => j <= i) => cc + v[i].credit = g
      <3>1. i \in Places(w) /\ v[i] = w[i] /\ Grant(w[i])
        BY <2>1, <2>3
      <3>2. (\A j \in Places(v) : Grant(v[j]) => j <= i)
                => (\A j \in Places(w) : Grant(w[j]) => j <= i)
        BY <1>3
      <3> QED
        BY <2>1, <3>1, <3>2 DEF Owed
    <2> QED
      BY <2>2, <2>3 DEF Owed
  <1>6. ASSUME Grant(f), g <= cc, f.count = cc, f.credit \in Nat
        PROVE  Owed(v, cc, cr, cc + f.credit)
    <2>1. /\ cc \in Nat /\ cr = 0
          /\ \A i \in Places(w) : Grant(w[i]) => w[i].credit = 0 /\ w[i].count = cc
      BY <1>6, OwedSpent DEF Owed
    <2>2. ~NoGrant(v)
      BY <1>4, <1>6 DEF NoGrant
    <2>3. ASSUME NEW i \in Places(v), Grant(v[i])
          PROVE  /\ v[i].count = cc /\ v[i].credit \in Nat /\ cr = 0
                 /\ \A j \in Places(v) : Grant(v[j]) /\ i < j => v[i].credit = 0
                 /\ (\A j \in Places(v) : Grant(v[j]) => j <= i)
                        => cc + v[i].credit = cc + f.credit
      <3>1. ASSUME i \in Places(w)
            PROVE  /\ v[i].credit = 0 /\ v[i].count = cc
                   /\ ~(\A j \in Places(v) : Grant(v[j]) => j <= i)
        <4>1. v[i].credit = 0 /\ v[i].count = cc
          BY <1>3, <2>1, <2>3, <3>1
        <4>2. ~(Len(w) + 1 <= i)
          BY <1>3, <3>1
        <4> QED
          BY <1>4, <1>6, <4>1, <4>2
      <3>2. ASSUME i = Len(w) + 1
            PROVE  /\ v[i] = f
                   /\ \A j \in Places(v) : ~(i < j)
        BY <1>1, <3>2 DEF Places
      <3>3. CASE i \in Places(w)
        BY <2>1, <3>1, <3>3
      <3>4. CASE i = Len(w) + 1
        BY <1>6, <2>1, <3>2, <3>4
      <3> QED
        BY <1>2, <3>3, <3>4
    <2>4. cc + cr <= cc + f.credit /\ cc + f.credit \in Nat /\ cr \in Nat
      BY <1>6, <2>1
    <2> QED
      BY <2>1, <2>2, <2>3, <2>4 DEF Owed
  <1> QED
    BY <1>5, <1>6 DEF v

\* What is owed, when the client hears one.
LEMMA OwedLess ==
    ASSUME NEW w, IsStream(w), w # <<>>, NEW cc, NEW cr, NEW g, Owed(w, cc, cr, g)
    PROVE  /\ ~Grant(Head(w)) => Owed(Tail(w), cc, cr, g)
           /\ Grant(Head(w)) => /\ Owed(Tail(w), cc, Head(w).credit, g)
                                /\ Head(w).count = cc /\ Head(w).credit \in Nat
  <1> DEFINE v == Tail(w)
             f == Head(w)
  <1>1. /\ Len(w) \in Nat \ {0} /\ f = w[1] /\ Len(v) = Len(w) - 1
        /\ \A i \in 1 .. Len(w) - 1 : v[i] = w[i + 1]
    BY StreamTail
  <1> HIDE DEF v, f
  <1>2. \A i \in Places(v) : i \in Nat /\ i + 1 \in Places(w) /\ v[i] = w[i + 1] /\ 1 < i + 1
                             /\ ~(i + 1 <= 1)
    BY <1>1 DEF Places
  <1>3. \A i \in Places(w) : i = 1 \/ (i - 1 \in Places(v) /\ (i - 1) + 1 = i)
    BY <1>1 DEF Places
  <1>4. 1 \in Places(w) /\ w[1] = f
    BY <1>1 DEF Places
  <1>5. \A i, j \in Places(v) : (i < j => i + 1 < j + 1) /\ (j <= i => j + 1 <= i + 1)
    BY <1>2
  <1>6. ASSUME NEW i \in Places(v), Grant(v[i])
        PROVE  /\ v[i].count = cc /\ v[i].credit \in Nat /\ cr = 0
               /\ \A j \in Places(v) : Grant(v[j]) /\ i < j => v[i].credit = 0
               /\ (\A j \in Places(v) : Grant(v[j]) => j <= i) => cc + v[i].credit = g
               /\ Grant(f) => f.credit = 0
    <2>1. i + 1 \in Places(w) /\ Grant(w[i + 1]) /\ v[i] = w[i + 1] /\ 1 < i + 1
      BY <1>2, <1>6
    <2>2. \A j \in Places(v) : Grant(v[j]) /\ i < j => v[i].credit = 0
      BY <1>2, <1>5, <2>1 DEF Owed
    <2>3. ASSUME \A j \in Places(v) : Grant(v[j]) => j <= i
          PROVE  cc + v[i].credit = g
      <3>1. ASSUME NEW j \in Places(w), Grant(w[j])
            PROVE  j <= i + 1
        <4>1. CASE j = 1
          BY <1>2, <4>1
        <4>2. CASE j # 1
          <5>1. j - 1 \in Places(v) /\ (j - 1) + 1 = j /\ v[j - 1] = w[j]
            BY <1>2, <1>3, <4>2
          <5>2. j - 1 <= i
            BY <2>3, <3>1, <5>1
          <5> QED
            BY <1>2, <5>1, <5>2
        <4> QED
          BY <4>1, <4>2
      <3> QED
        BY <2>1, <3>1 DEF Owed
    <2>4. Grant(f) => f.credit = 0
      BY <1>4, <2>1 DEF Owed
    <2> QED
      BY <2>1, <2>2, <2>3, <2>4 DEF Owed
  <1>7. ASSUME ~Grant(f)
        PROVE  Owed(v, cc, cr, g)
    <2>1. NoGrant(v) => NoGrant(w)
      <3>1. ASSUME NoGrant(v), NEW j \in Places(w)
            PROVE  ~Grant(w[j])
        BY <1>2, <1>3, <1>4, <1>7, <3>1 DEF NoGrant
      <3> QED
        BY <3>1 DEF NoGrant
    <2> QED
      BY <1>6, <2>1 DEF Owed
  <1>8. ASSUME Grant(f)
        PROVE  Owed(v, cc, f.credit, g) /\ f.count = cc /\ f.credit \in Nat
    <2>1. f.count = cc /\ f.credit \in Nat /\ cr = 0 /\ cc \in Nat /\ g \in Nat /\ cc + cr <= g
      BY <1>4, <1>8 DEF Owed
    <2>2. NoGrant(v) => cc + f.credit = g
      <3>1. ASSUME NoGrant(v), NEW j \in Places(w), Grant(w[j])
            PROVE  j <= 1
        <4>1. CASE j = 1
          BY <4>1
        <4>2. CASE j # 1
          BY <1>2, <1>3, <3>1, <4>2 DEF NoGrant
        <4> QED
          BY <4>1, <4>2
      <3> QED
        BY <1>4, <1>8, <3>1 DEF Owed
    <2>3. cc + f.credit <= g
      <3>1. CASE NoGrant(v)
        BY <2>1, <2>2, <3>1
      <3>2. CASE ~NoGrant(v)
        <4>1. f.credit = 0
          BY <1>6, <1>8, <3>2 DEF NoGrant
        <4> QED
          BY <2>1, <4>1
      <3> QED
        BY <3>1, <3>2
    <2>4. ASSUME NEW i \in Places(v), Grant(v[i])
          PROVE  f.credit = 0
      BY <1>6, <1>8, <2>4
    <2> QED
      BY <1>6, <2>1, <2>2, <2>3, <2>4 DEF Owed
  <1> QED
    BY <1>7, <1>8 DEF v, f

-----------------------------------------------------------------------------
(* The windows: what an end that has said sc of its begin and end, and heard   *)
(* hc of its partner's, knows of its own numbers.                              *)

\* The id of the first transfer there is no room for.
Room == FirstId + Window

ClientNumbers(w, sc, hc) ==
    /\ w \in Windows
    /\ sc = 0 => w.nextOutgoing = 0 /\ w.initialOutgoing = 0
    /\ sc = 1 /\ hc = 0 => w.nextOutgoing = FirstId /\ w.initialOutgoing = FirstId
    /\ sc = 0 /\ hc # 0 => w.remoteIncoming = Window
    /\ sc # 0 /\ hc # 0 => w.nextOutgoing + w.remoteIncoming = Room /\ FirstId <= w.nextOutgoing

ServerNumbers(w, ss, hs) ==
    /\ w \in Windows
    /\ hs # 0 /\ ss = 0 => w.nextIncoming = FirstId
    /\ hs = 0 /\ ss # 0 => w.incoming = Window
    /\ hs # 0 /\ ss # 0 => w.nextIncoming + w.incoming = Room

\* The number the server expects is that of the first frame on its way.
Expected(w, hs) == IF hs = 0 THEN FirstId ELSE w.nextIncoming

\* The transfers of a session never wrap its ids.
LEMMA Small ==
    ASSUME Measured
    PROVE  /\ FirstId \in Nat /\ Window \in Nat /\ Room \in Nat /\ FirstId <= Room
           /\ FirstId + Window = Room
           /\ \A n \in Nat : n <= Room => n % SerialModulus = n
  BY SessionAssumption, PairAssumption DEF Measured, Room

\* What each frame makes of the windows.
LEMMA WindowFields ==
    ASSUME NEW w \in Windows, NEW f
    PROVE  /\ {w.nextIncoming, w.incoming, w.nextOutgoing, w.outgoing, w.remoteIncoming,
               w.remoteOutgoing, w.initialOutgoing} \subseteq Nat
           /\ LET v == AfterSendingBegin(w, f)
              IN  /\ v.nextOutgoing = f.nextOutgoing % SerialModulus
                  /\ v.initialOutgoing = f.nextOutgoing % SerialModulus
                  /\ v.incoming = f.incoming /\ v.remoteIncoming = w.remoteIncoming
                  /\ v.nextIncoming = w.nextIncoming
           /\ LET v == AfterReceivingBegin(w, f)
              IN  /\ v.nextOutgoing = w.nextOutgoing /\ v.initialOutgoing = w.initialOutgoing
                  /\ v.remoteIncoming = RemoteIncoming(w, w.initialOutgoing, f.incoming)
                  /\ v.nextIncoming = f.nextOutgoing % SerialModulus
                  /\ v.incoming = w.incoming
           /\ LET v == AfterSendingTransfer(w)
              IN  /\ v.nextOutgoing = (w.nextOutgoing + 1) % SerialModulus
                  /\ v.initialOutgoing = w.initialOutgoing
                  /\ v.remoteIncoming = Minus(w.remoteIncoming, 1)
           /\ LET v == AfterReceivingTransfer(w)
              IN  /\ v.nextIncoming = (w.nextIncoming + 1) % SerialModulus
                  /\ v.incoming = Minus(w.incoming, 1)
           /\ LET v == AfterReceivingFlow(w, f)
              IN  /\ v.nextOutgoing = w.nextOutgoing /\ v.initialOutgoing = w.initialOutgoing
                  /\ f.nextIncoming \in Nat =>
                         v.remoteIncoming = RemoteIncoming(w, f.nextIncoming, f.incoming)
                  /\ v.nextIncoming = f.nextOutgoing % SerialModulus
                  /\ v.incoming = w.incoming
  <1>1. f.nextIncoming \in Nat => Given(f.nextIncoming, w.initialOutgoing) = f.nextIncoming
    BY SessionAssumption DEF Given
  <1>2. w = [nextIncoming |-> w.nextIncoming, incoming |-> w.incoming,
             nextOutgoing |-> w.nextOutgoing, outgoing |-> w.outgoing,
             remoteIncoming |-> w.remoteIncoming, remoteOutgoing |-> w.remoteOutgoing,
             initialOutgoing |-> w.initialOutgoing]
    BY DEF Windows
  <1>3. {w.nextIncoming, w.incoming, w.nextOutgoing, w.outgoing, w.remoteIncoming,
         w.remoteOutgoing, w.initialOutgoing} \subseteq Nat
    BY DEF Windows
  <1> QED
    BY <1>1, <1>2, <1>3 DEF AfterSendingBegin, AfterReceivingBegin, AfterSendingTransfer,
                       AfterReceivingTransfer, AfterReceivingFlow

\* The client's numbers, when it says a frame.
LEMMA ClientNumbersSaid ==
    ASSUME Measured, NEW w, NEW sc \in 0 .. 2, NEW hc \in 0 .. 2, ClientNumbers(w, sc, hc),
           NEW f, IsFrameOf(f, "client"), NEW v \in Windows, WindowsSaid(v, w, f), NEW next,
           f.body = "begin" => sc = 0 /\ next = 1,
           f.body # "begin" => sc = 1 /\ next \in 1 .. 2,
           next = 2 => hc # 0,
           f.body = "transfer" => hc # 0
    PROVE  /\ ClientNumbers(v, next, hc)
           /\ f.body = "transfer" => v.nextOutgoing = w.nextOutgoing + 1
           /\ f.body = "begin" => v.nextOutgoing = FirstId
           /\ f.body \notin {"begin", "transfer"} => v.nextOutgoing = w.nextOutgoing
  <1>1. w \in Windows /\ w.nextOutgoing \in Nat /\ w.remoteIncoming \in Nat
    BY WindowFields DEF ClientNumbers
  <1>2. CASE f.body = "begin"
    <2>1. /\ v = AfterSendingBegin(w, f) /\ f.nextOutgoing = FirstId
      BY <1>2 DEF WindowsSaid, IsFrameOf, IsBegin
    <2>2. /\ v.nextOutgoing = FirstId /\ v.initialOutgoing = FirstId
          /\ v.remoteIncoming = w.remoteIncoming
      BY <1>1, <2>1, WindowFields, Small
    <2>3. sc = 0 /\ next = 1
      BY <1>2
    <2> QED
      BY <1>2, <2>2, <2>3, Small DEF ClientNumbers
  <1>3. CASE f.body = "transfer"
    <2>1. v = AfterSendingTransfer(w) /\ w.remoteIncoming > 0
      BY <1>3 DEF WindowsSaid
    <2>2. /\ v.nextOutgoing = (w.nextOutgoing + 1) % SerialModulus
          /\ v.remoteIncoming = Minus(w.remoteIncoming, 1)
      BY <1>1, <2>1, WindowFields
    <2>3. sc = 1 /\ hc # 0 /\ next \in 1 .. 2
      BY <1>3
    <2>4. w.nextOutgoing + w.remoteIncoming = Room /\ FirstId <= w.nextOutgoing
      BY <2>3 DEF ClientNumbers
    <2>5. w.nextOutgoing + 1 \in Nat /\ w.nextOutgoing + 1 <= Room
      BY <1>1, <2>1, <2>4, Small
    <2>6. v.nextOutgoing = w.nextOutgoing + 1
      BY <2>2, <2>5, Small
    <2>7. v.remoteIncoming = w.remoteIncoming - 1
      BY <1>1, <2>1, <2>2 DEF Minus
    <2>8. v.nextOutgoing + v.remoteIncoming = Room /\ FirstId <= v.nextOutgoing
      BY <1>1, <2>4, <2>6, <2>7, Small
    <2> QED
      BY <1>3, <2>3, <2>6, <2>8 DEF ClientNumbers
  <1>4. CASE f.body \notin {"begin", "transfer"}
    <2>1. v = w /\ sc = 1 /\ next \in 1 .. 2
      BY <1>4 DEF WindowsSaid
    <2> QED
      BY <1>4, <2>1 DEF ClientNumbers
  <1> QED
    BY <1>2, <1>3, <1>4

\* The client's numbers, when it hears one.
LEMMA ClientNumbersHeard ==
    ASSUME Measured, NEW w, NEW sc \in 0 .. 2, NEW hc \in 0 .. 2, ClientNumbers(w, sc, hc),
           NEW f, IsFrameOf(f, "server"), NEW v \in Windows, WindowsHeard(v, w, f), NEW next,
           hc = 0 => sc # 2,
           f.body = "begin" => hc = 0 /\ next = 1,
           f.body # "begin" => hc = 1 /\ next \in 1 .. 2,
           f.body = "flow" => sc # 0 /\ f.nextIncoming + f.incoming = Room
    PROVE  /\ ClientNumbers(v, sc, next) /\ v.nextOutgoing = w.nextOutgoing
  <1>1. w \in Windows /\ {w.nextOutgoing, w.remoteIncoming, w.initialOutgoing} \subseteq Nat
    BY WindowFields DEF ClientNumbers
  <1>2. CASE f.body = "begin"
    <2>1. v = AfterReceivingBegin(w, f) /\ f.incoming = Window
      BY <1>2 DEF WindowsHeard, IsFrameOf, IsBegin
    <2>2. /\ v.nextOutgoing = w.nextOutgoing /\ v.initialOutgoing = w.initialOutgoing
          /\ v.remoteIncoming = Minus((w.initialOutgoing + Window) % SerialModulus, w.nextOutgoing)
      BY <1>1, <2>1, WindowFields DEF RemoteIncoming
    <2>3. hc = 0 /\ next = 1 /\ sc # 2
      BY <1>2
    <2>4. CASE sc = 0
      <3>1. w.nextOutgoing = 0 /\ w.initialOutgoing = 0
        BY <2>4 DEF ClientNumbers
      <3>2. (0 + Window) % SerialModulus = Window
        <4>1. 0 + Window \in Nat /\ 0 + Window <= Room /\ 0 + Window = Window
          BY Small DEF Room
        <4> QED
          BY <4>1, Small
      <3>3. v.remoteIncoming = Window
        BY <2>2, <3>1, <3>2, Small DEF Minus
      <3> QED
        BY <2>2, <2>3, <2>4, <3>1, <3>3 DEF ClientNumbers
    <2>5. CASE sc = 1
      <3>1. w.nextOutgoing = FirstId /\ w.initialOutgoing = FirstId
        BY <2>3, <2>5 DEF ClientNumbers
      <3>2. (FirstId + Window) % SerialModulus = Room
        BY Small
      <3>3. v.remoteIncoming = Window
        BY <2>2, <3>1, <3>2, Small DEF Minus, Room
      <3>4. v.nextOutgoing + v.remoteIncoming = Room
        BY <2>2, <3>1, <3>3 DEF Room
      <3> QED
        BY <2>2, <2>3, <2>5, <3>1, <3>4, Small DEF ClientNumbers
    <2> QED
      BY <2>2, <2>3, <2>4, <2>5
  <1>3. CASE f.body = "flow"
    <2>1. v = AfterReceivingFlow(w, f) /\ f.nextIncoming \in Nat
      BY <1>3 DEF WindowsHeard, IsFrameOf, IsFlow
    <2>2. /\ v.nextOutgoing = w.nextOutgoing
          /\ v.remoteIncoming = Minus((f.nextIncoming + f.incoming) % SerialModulus, w.nextOutgoing)
      BY <1>1, <2>1, WindowFields DEF RemoteIncoming
    <2>3. hc = 1 /\ next \in 1 .. 2 /\ sc # 0 /\ f.nextIncoming + f.incoming = Room
      BY <1>3
    <2>4. w.nextOutgoing + w.remoteIncoming = Room /\ FirstId <= w.nextOutgoing
      BY <2>3 DEF ClientNumbers
    <2>5. Room % SerialModulus = Room
      BY Small
    <2>6. w.nextOutgoing <= Room
      BY <1>1, <2>4
    <2>7. v.nextOutgoing + v.remoteIncoming = Room
      BY <1>1, <2>2, <2>3, <2>5, <2>6, Small DEF Minus
    <2> QED
      BY <2>2, <2>3, <2>4, <2>7 DEF ClientNumbers
  <1>4. CASE f.body \notin {"begin", "flow"}
    <2>1. v = w /\ hc = 1 /\ next \in 1 .. 2
      BY <1>4 DEF WindowsHeard, IsFrameOf
    <2> QED
      BY <2>1 DEF ClientNumbers
  <1> QED
    BY <1>2, <1>3, <1>4

\* The server's numbers, when it says a frame.
LEMMA ServerNumbersSaid ==
    ASSUME Measured, NEW w, NEW ss \in 0 .. 2, NEW hs \in 0 .. 2, ServerNumbers(w, ss, hs),
           NEW f, IsFrameOf(f, "server"), NEW v \in Windows, WindowsSaid(v, w, f), NEW next,
           f.body = "begin" => ss = 0 /\ next = 1,
           f.body # "begin" => ss = 1 /\ next \in 1 .. 2
    PROVE  ServerNumbers(v, next, hs) /\ v.nextIncoming = w.nextIncoming
  <1>1. w \in Windows
    BY DEF ServerNumbers
  <1>2. CASE f.body = "begin"
    <2>1. v = AfterSendingBegin(w, f) /\ f.incoming = Window /\ ss = 0 /\ next = 1
      BY <1>2 DEF WindowsSaid, IsFrameOf, IsBegin
    <2>2. v.incoming = Window /\ v.nextIncoming = w.nextIncoming
      BY <1>1, <2>1, WindowFields
    <2> QED
      BY <2>1, <2>2 DEF ServerNumbers, Room
  <1>3. CASE f.body # "begin"
    <2>1. v = w /\ ss = 1 /\ next \in 1 .. 2
      BY <1>3 DEF WindowsSaid, IsFrameOf
    <2> QED
      BY <2>1 DEF ServerNumbers
  <1> QED
    BY <1>2, <1>3

\* The server's numbers, when it hears one: a flow says of the client's next
\* id what the server expects already.
LEMMA ServerNumbersHeard ==
    ASSUME Measured, NEW w, NEW ss \in 0 .. 2, NEW hs \in 0 .. 2, ServerNumbers(w, ss, hs),
           NEW f, IsFrameOf(f, "client"), NEW v \in Windows, WindowsHeard(v, w, f), NEW next,
           f.body = "begin" => hs = 0 /\ next = 1,
           f.body # "begin" => hs = 1 /\ next \in 1 .. 2,
           f.body \in {"flow", "transfer"} => ss # 0,
           NEW n, NumberStep(f, Expected(w, hs), n), n <= Room
    PROVE  ServerNumbers(v, ss, next) /\ n = Expected(v, next)
  <1>1. w \in Windows /\ {w.nextIncoming, w.incoming} \subseteq Nat
    BY WindowFields DEF ServerNumbers
  <1>2. CASE f.body = "begin"
    <2>1. v = AfterReceivingBegin(w, f) /\ f.nextOutgoing = FirstId /\ hs = 0 /\ next = 1
      BY <1>2 DEF WindowsHeard, IsFrameOf, IsBegin
    <2>2. v.nextIncoming = FirstId /\ v.incoming = w.incoming
      BY <1>1, <2>1, WindowFields, Small
    <2>3. n = FirstId
      BY <1>2, <2>1 DEF NumberStep, Expected
    <2> QED
      BY <2>1, <2>2, <2>3 DEF ServerNumbers, Expected, Room
  <1>3. CASE f.body # "begin"
    <2>1. hs = 1 /\ next \in 1 .. 2 /\ Expected(w, hs) = w.nextIncoming /\ Expected(v, next) = v.nextIncoming
      BY <1>3 DEF Expected
    <2>2. CASE f.body = "flow"
      <3>1. v = AfterReceivingFlow(w, f) /\ f.nextOutgoing = w.nextIncoming /\ n = w.nextIncoming
        BY <2>1, <2>2 DEF WindowsHeard, NumberStep
      <3>2. w.nextIncoming % SerialModulus = w.nextIncoming
        BY <1>1, <3>1, Small
      <3>3. v.nextIncoming = w.nextIncoming /\ v.incoming = w.incoming
        BY <1>1, <3>1, <3>2, WindowFields
      <3> QED
        BY <2>1, <3>1, <3>3 DEF ServerNumbers
    <2>3. CASE f.body = "transfer"
      <3>1. v = AfterReceivingTransfer(w) /\ n = w.nextIncoming + 1 /\ ss # 0
        BY <2>1, <2>3 DEF WindowsHeard, NumberStep
      <3>2. (w.nextIncoming + 1) % SerialModulus = w.nextIncoming + 1
        BY <1>1, <3>1, Small
      <3>3. v.nextIncoming = w.nextIncoming + 1 /\ v.incoming = Minus(w.incoming, 1)
        BY <1>1, <3>1, <3>2, WindowFields
      <3>4. w.nextIncoming + w.incoming = Room
        BY <2>1, <3>1 DEF ServerNumbers
      <3>5. v.incoming = w.incoming - 1
        BY <1>1, <3>1, <3>3, <3>4, Small DEF Minus
      <3>6. v.nextIncoming + v.incoming = Room
        BY <1>1, <3>3, <3>4, <3>5
      <3> QED
        BY <2>1, <3>1, <3>3, <3>6 DEF ServerNumbers
    <2>4. CASE f.body \notin {"flow", "transfer"}
      <3>1. v = w /\ n = w.nextIncoming
        BY <1>3, <2>1, <2>4 DEF WindowsHeard, NumberStep
      <3> QED
        BY <2>1, <3>1 DEF ServerNumbers
    <2> QED
      BY <2>2, <2>3, <2>4
  <1> QED
    BY <1>2, <1>3

-----------------------------------------------------------------------------
(* The numbers of both ends and of the frames between them.                    *)

\* Flows and transfers are said by a session that has heard its partner's begin.
Prompted(ws, hc) == \A i \in Places(ws) : ws[i].body \in {"flow", "transfer"} => hc # 0

Answering(wc, hs) ==
    \A i \in Places(wc) : wc[i].body = "flow" =>
        hs # 0 /\ wc[i].nextIncoming + wc[i].incoming = Room

\* What the client has numbered, less what is in flight, is what the server has.
Numbers(c, s, bc, bs, ws, wc) ==
    /\ ClientNumbers(c.windows, SaidIn(c, bc), HeardIn(c, bc))
    /\ ServerNumbers(s.windows, SaidIn(s, bs), HeardIn(s, bs))
    /\ SaidIn(c, bc) # 0 =>
           Numbered(ws, Expected(s.windows, HeardIn(s, bs)), c.windows.nextOutgoing)
    /\ Prompted(ws, HeardIn(c, bc))
    /\ Answering(wc, HeardIn(s, bs))

\* Flows and transfers are said by an end that has heard a begin, and hearing
\* cannot be undone.
LEMMA PromptedMoves ==
    ASSUME NEW w, IsStream(w), NEW h
    PROVE  /\ \A f : Prompted(w, h) /\ (f.body \in {"flow", "transfer"} => h # 0)
                        => Prompted(Append(w, f), h)
           /\ w # <<>> /\ Prompted(w, h) =>
                  /\ Prompted(Tail(w), h)
                  /\ Head(w).body \in {"flow", "transfer"} => h # 0
           /\ \A g : Prompted(w, h) /\ (h # 0 => g # 0) => Prompted(w, g)
  <1>1. Len(w) \in Nat
    BY StreamLen
  <1>2. ASSUME NEW f, Prompted(w, h), f.body \in {"flow", "transfer"} => h # 0
        PROVE  Prompted(Append(w, f), h)
    BY <1>1, <1>2, StreamAppend DEF Prompted, Places
  <1>3. ASSUME w # <<>>, Prompted(w, h)
        PROVE  /\ Prompted(Tail(w), h)
               /\ Head(w).body \in {"flow", "transfer"} => h # 0
    BY <1>3, StreamTail DEF Prompted, Places
  <1>4. ASSUME NEW g, Prompted(w, h), h # 0 => g # 0
        PROVE  Prompted(w, g)
    BY <1>4 DEF Prompted
  <1> QED
    BY <1>2, <1>3, <1>4

\* A flow of the server's says all of the room there is.
LEMMA AnsweringMoves ==
    ASSUME NEW w, IsStream(w), NEW h
    PROVE  /\ \A f : Answering(w, h)
                     /\ (f.body = "flow" => h # 0 /\ f.nextIncoming + f.incoming = Room)
                        => Answering(Append(w, f), h)
           /\ w # <<>> /\ Answering(w, h) =>
                  /\ Answering(Tail(w), h)
                  /\ Head(w).body = "flow" =>
                         h # 0 /\ Head(w).nextIncoming + Head(w).incoming = Room
           /\ \A g : Answering(w, h) /\ (h # 0 => g # 0) => Answering(w, g)
  <1>1. Len(w) \in Nat
    BY StreamLen
  <1>2. ASSUME NEW f, Answering(w, h),
               f.body = "flow" => h # 0 /\ f.nextIncoming + f.incoming = Room
        PROVE  Answering(Append(w, f), h)
    BY <1>1, <1>2, StreamAppend DEF Answering, Places
  <1>3. ASSUME w # <<>>, Answering(w, h)
        PROVE  /\ Answering(Tail(w), h)
               /\ Head(w).body = "flow" =>
                      h # 0 /\ Head(w).nextIncoming + Head(w).incoming = Room
    BY <1>3, StreamTail DEF Answering, Places
  <1>4. ASSUME NEW g, Answering(w, h), h # 0 => g # 0
        PROVE  Answering(w, g)
    BY <1>4 DEF Answering
  <1> QED
    BY <1>2, <1>3, <1>4

\* The numbers of both, when the client says a frame.
LEMMA NumbersClientSays ==
    ASSUME Measured, NEW c, NEW s, NEW bc, NEW bs, NEW ws, NEW wc,
           StageShape(c, "client", bc), StageShape(s, "server", bs),
           Way(ws, c, "client", bc, s, "server", bs), Numbers(c, s, bc, bs, ws, wc),
           NEW f, IsFrameOf(f, "client"), Tells(c, "client", f),
           f.body = "flow" => HeardIn(c, bc) # 0,
           NEW z, NEW b, Saying(c, z, "client", f, bc, b)
    PROVE  Numbers(z, s, b, bs, Append(ws, f), wc)
  <1> DEFINE sc == SaidIn(c, bc)
             hc == HeardIn(c, bc)
             hs == HeardIn(s, bs)
             next == SaidIn(z, b)
  <1>1. /\ sc \in 0 .. 2 /\ hc \in 0 .. 2 /\ hs \in 0 .. 2 /\ hs <= sc
        /\ IsStream(ws) /\ (sc = 0 => ws = <<>>)
    BY Stages DEF Way, Framed, Ordered
  <1>2. /\ z.windows \in Windows /\ WindowsSaid(z.windows, c.windows, f)
        /\ f.body = "begin" => sc = 0 /\ next = 1
        /\ f.body # "begin" => sc = 1 /\ next \in 1 .. 2
        /\ next = 2 => hc # 0
        /\ f.body = "transfer" => hc # 0
        /\ HeardIn(z, b) = hc
    BY DEF Saying, SessionShape
  <1>3. /\ ClientNumbers(c.windows, sc, hc)
        /\ ServerNumbers(s.windows, SaidIn(s, bs), hs)
        /\ sc # 0 => Numbered(ws, Expected(s.windows, hs), c.windows.nextOutgoing)
        /\ Prompted(ws, hc) /\ Answering(wc, hs)
    BY DEF Numbers
  <1>4. /\ f.body = "flow" => hc # 0 /\ f.nextOutgoing = c.windows.nextOutgoing
    BY DEF Tells
  <1> HIDE DEF sc, hc, hs, next
  <1>5. /\ ClientNumbers(z.windows, next, hc)
        /\ f.body = "transfer" => z.windows.nextOutgoing = c.windows.nextOutgoing + 1
        /\ f.body = "begin" => z.windows.nextOutgoing = FirstId
        /\ f.body \notin {"begin", "transfer"} => z.windows.nextOutgoing = c.windows.nextOutgoing
    BY <1>1, <1>2, <1>3, ClientNumbersSaid
  <1>6. Prompted(Append(ws, f), hc)
    BY <1>1, <1>2, <1>3, <1>4, PromptedMoves
  <1>7. Numbered(Append(ws, f), Expected(s.windows, hs), z.windows.nextOutgoing)
    <2>1. CASE f.body = "begin"
      <3>1. ws = <<>> /\ hs = 0 /\ Expected(s.windows, hs) = FirstId /\ FirstId \in Nat
        BY <1>1, <1>2, <2>1, Small DEF Expected
      <3>2. Numbered(ws, FirstId, FirstId)
        BY <3>1, NothingSaid
      <3>3. NumberStep(f, FirstId, FirstId)
        BY <2>1, <3>1 DEF NumberStep
      <3> QED
        BY <1>1, <1>5, <2>1, <3>1, <3>2, <3>3, NumberedMore
    <2>2. CASE f.body # "begin"
      <3>1. Numbered(ws, Expected(s.windows, hs), c.windows.nextOutgoing)
        BY <1>2, <1>3, <2>2
      <3>2. c.windows.nextOutgoing \in Nat /\ z.windows.nextOutgoing \in Nat
        BY <1>2, <1>3, WindowFields DEF ClientNumbers
      <3>3. NumberStep(f, c.windows.nextOutgoing, z.windows.nextOutgoing)
        BY <1>4, <1>5, <2>2, <3>2 DEF NumberStep
      <3> QED
        BY <1>1, <3>1, <3>3, NumberedMore
    <2> QED
      BY <2>1, <2>2
  <1> QED
    BY <1>2, <1>3, <1>5, <1>6, <1>7 DEF Numbers, next, hs

\* The numbers of both, when the client hears one.
LEMMA NumbersClientHears ==
    ASSUME Measured, NEW c, NEW s, NEW bc, NEW bs, NEW ws, NEW wc, wc # <<>>,
           StageShape(c, "client", bc), StageShape(s, "server", bs),
           HeardIn(s, bs) <= SaidIn(c, bc), IsStream(ws),
           Way(wc, s, "server", bs, c, "client", bc), Numbers(c, s, bc, bs, ws, wc),
           NEW z, Hearing(c, z, "client", Head(wc), bc)
    PROVE  Numbers(z, s, bc, bs, ws, Tail(wc))
  <1> DEFINE f == Head(wc)
             sc == SaidIn(c, bc)
             hc == HeardIn(c, bc)
             hs == HeardIn(s, bs)
             next == HeardIn(z, bc)
  <1>1. /\ sc \in 0 .. 2 /\ hc \in 0 .. 2 /\ hs \in 0 .. 2 /\ hs <= sc
        /\ IsStream(wc) /\ IsFrameOf(f, "server")
        /\ hc = 0 => sc # 2
    <2>1. sc \in 0 .. 2 /\ hc \in 0 .. 2 /\ hs \in 0 .. 2
      BY Stages
    <2>2. hc = 0 => sc # 2
      BY Stages DEF StageShape, SessionStates
    <2>3. IsStream(wc) /\ IsFrameOf(f, "server")
      BY FramedLess DEF Way, Framed
    <2> QED
      BY <2>1, <2>2, <2>3
  <1>2. /\ z.windows \in Windows /\ WindowsHeard(z.windows, c.windows, f)
        /\ f.body = "begin" => hc = 0 /\ next = 1
        /\ f.body # "begin" => hc = 1 /\ next \in 1 .. 2
        /\ SaidIn(z, bc) = sc
    BY DEF Hearing, SessionShape
  <1>3. /\ ClientNumbers(c.windows, sc, hc)
        /\ ServerNumbers(s.windows, SaidIn(s, bs), hs)
        /\ sc # 0 => Numbered(ws, Expected(s.windows, hs), c.windows.nextOutgoing)
        /\ Prompted(ws, hc) /\ Answering(wc, hs)
    BY DEF Numbers
  <1> HIDE DEF f, sc, hc, hs, next
  <1>4. /\ Answering(Tail(wc), hs)
        /\ f.body = "flow" => hs # 0 /\ f.nextIncoming + f.incoming = Room
    BY <1>1, <1>3, AnsweringMoves DEF f
  <1>5. f.body = "flow" => sc # 0
    BY <1>1, <1>4
  <1>6. ClientNumbers(z.windows, sc, next) /\ z.windows.nextOutgoing = c.windows.nextOutgoing
    BY <1>1, <1>2, <1>3, <1>4, <1>5, ClientNumbersHeard
  <1>7. Prompted(ws, next)
    <2>1. hc # 0 => next # 0
      BY <1>2
    <2> QED
      BY <1>3, <2>1, PromptedMoves
  <1> QED
    BY <1>2, <1>3, <1>4, <1>6, <1>7 DEF Numbers, next, hs

\* The numbers of both, when the server says a frame.
LEMMA NumbersServerSays ==
    ASSUME Measured, NEW c, NEW s, NEW bc, NEW bs, NEW ws, NEW wc,
           StageShape(c, "client", bc), StageShape(s, "server", bs),
           IsStream(wc), Numbers(c, s, bc, bs, ws, wc),
           NEW f, IsFrameOf(f, "server"), Tells(s, "server", f),
           f.body = "flow" => HeardIn(s, bs) # 0,
           NEW z, NEW b, Saying(s, z, "server", f, bs, b)
    PROVE  Numbers(c, z, bc, b, ws, Append(wc, f))
  <1> DEFINE ss == SaidIn(s, bs)
             hs == HeardIn(s, bs)
             next == SaidIn(z, b)
  <1>1. ss \in 0 .. 2 /\ hs \in 0 .. 2
    BY Stages
  <1>2. /\ z.windows \in Windows /\ WindowsSaid(z.windows, s.windows, f)
        /\ f.body = "begin" => ss = 0 /\ next = 1
        /\ f.body # "begin" => ss = 1 /\ next \in 1 .. 2
        /\ HeardIn(z, b) = hs
    BY DEF Saying, SessionShape
  <1>3. /\ ClientNumbers(c.windows, SaidIn(c, bc), HeardIn(c, bc))
        /\ ServerNumbers(s.windows, ss, hs)
        /\ SaidIn(c, bc) # 0 => Numbered(ws, Expected(s.windows, hs), c.windows.nextOutgoing)
        /\ Prompted(ws, HeardIn(c, bc)) /\ Answering(wc, hs)
    BY DEF Numbers
  <1>4. f.body = "flow" => /\ hs # 0 /\ f.nextIncoming = s.windows.nextIncoming
                           /\ f.incoming = s.windows.incoming
    BY DEF Tells
  <1> HIDE DEF ss, hs, next
  <1>5. f.body = "flow" => f.nextIncoming + f.incoming = Room
    BY <1>2, <1>3, <1>4 DEF ServerNumbers
  <1>6. Answering(Append(wc, f), hs)
    BY <1>3, <1>4, <1>5, AnsweringMoves
  <1>7. ServerNumbers(z.windows, next, hs) /\ z.windows.nextIncoming = s.windows.nextIncoming
    BY <1>1, <1>2, <1>3, ServerNumbersSaid
  <1>8. Expected(z.windows, hs) = Expected(s.windows, hs)
    BY <1>7 DEF Expected
  <1> QED
    BY <1>2, <1>3, <1>6, <1>7, <1>8 DEF Numbers, next

\* The next transfer number the server comes to is no further than the client's.
LEMMA NumberAhead ==
    ASSUME Measured, NEW c, NEW s, NEW bc, NEW bs, NEW ws, NEW wc, ws # <<>>,
           StageShape(c, "client", bc), HeardIn(c, bc) <= SaidIn(s, bs),
           StageShape(s, "server", bs),
           Way(ws, c, "client", bc, s, "server", bs), Numbers(c, s, bc, bs, ws, wc)
    PROVE  /\ \E n : /\ NumberStep(Head(ws), Expected(s.windows, HeardIn(s, bs)), n)
                     /\ Numbered(Tail(ws), n, c.windows.nextOutgoing) /\ n <= Room
           /\ Head(ws).body \in {"flow", "transfer"} => SaidIn(s, bs) # 0
  <1> DEFINE sc == SaidIn(c, bc)
             hc == HeardIn(c, bc)
             e == Expected(s.windows, HeardIn(s, bs))
             o == c.windows.nextOutgoing
  <1>1. /\ sc \in 0 .. 2 /\ hc \in 0 .. 2 /\ SaidIn(s, bs) \in 0 .. 2
        /\ IsStream(ws) /\ (hc = 0 => sc # 2) /\ sc # 0
    <2>1. sc \in 0 .. 2 /\ hc \in 0 .. 2 /\ SaidIn(s, bs) \in 0 .. 2
      BY Stages
    <2>2. hc = 0 => sc # 2
      BY Stages DEF StageShape, SessionStates
    <2>3. IsStream(ws) /\ sc # 0
      BY DEF Way, Framed, Ordered
    <2> QED
      BY <2>1, <2>2, <2>3
  <1>2. /\ ClientNumbers(c.windows, sc, hc) /\ Numbered(ws, e, o) /\ Prompted(ws, hc)
    BY <1>1 DEF Numbers
  <1>3. hc <= SaidIn(s, bs)
    OBVIOUS
  <1> HIDE DEF sc, hc, e
  <1>4. o \in Nat /\ o <= Room
    <2>1. o \in Nat /\ c.windows.remoteIncoming \in Nat
      BY <1>2, WindowFields DEF ClientNumbers
    <2>2. sc = 1 /\ hc = 0 => o = FirstId
      BY <1>2 DEF ClientNumbers
    <2>3. hc # 0 => o + c.windows.remoteIncoming = Room
      BY <1>1, <1>2 DEF ClientNumbers
    <2> HIDE DEF o
    <2> QED
      BY <1>1, <2>1, <2>2, <2>3, Small
  <1> HIDE DEF o
  <1>5. PICK n : NumberStep(Head(ws), e, n) /\ Numbered(Tail(ws), n, o)
    BY <1>1, <1>2, NumberedLess
  <1>6. n <= Room
    <2>1. IsStream(Tail(ws))
      BY <1>1, StreamTail
    <2> DEFINE k == Cardinality({i \in DOMAIN Tail(ws) : Tail(ws)[i].body = "transfer"})
    <2>2. k \in Nat /\ n \in Nat /\ o = n + k
      BY <1>5, <2>1, NumberedSum
    <2> HIDE DEF k
    <2> QED
      BY <1>4, <2>2, Small
  <1>7. Head(ws).body \in {"flow", "transfer"} => hc # 0
    BY <1>1, <1>2, PromptedMoves
  <1>8. Head(ws).body \in {"flow", "transfer"} => SaidIn(s, bs) # 0
    BY <1>1, <1>3, <1>7
  <1> QED
    BY <1>5, <1>6, <1>8 DEF e, o

\* The numbers of both, when the server hears one.
LEMMA NumbersServerHears ==
    ASSUME Measured, NEW c, NEW s, NEW bc, NEW bs, NEW ws, NEW wc, ws # <<>>,
           StageShape(c, "client", bc), StageShape(s, "server", bs),
           HeardIn(c, bc) <= SaidIn(s, bs), IsStream(wc),
           Way(ws, c, "client", bc, s, "server", bs), Numbers(c, s, bc, bs, ws, wc),
           NEW z, Hearing(s, z, "server", Head(ws), bs)
    PROVE  Numbers(c, z, bc, bs, Tail(ws), wc)
  <1> DEFINE f == Head(ws)
             ss == SaidIn(s, bs)
             hs == HeardIn(s, bs)
             next == HeardIn(z, bs)
             o == c.windows.nextOutgoing
  <1>1. /\ ss \in 0 .. 2 /\ hs \in 0 .. 2 /\ IsStream(ws) /\ IsFrameOf(f, "client")
    BY Stages, FramedLess DEF Way, Framed
  <1>2. /\ z.windows \in Windows /\ WindowsHeard(z.windows, s.windows, f)
        /\ f.body = "begin" => hs = 0 /\ next = 1
        /\ f.body # "begin" => hs = 1 /\ next \in 1 .. 2
        /\ SaidIn(z, bs) = ss
    BY DEF Hearing, SessionShape
  <1>3. /\ ClientNumbers(c.windows, SaidIn(c, bc), HeardIn(c, bc))
        /\ ServerNumbers(s.windows, ss, hs)
        /\ Prompted(ws, HeardIn(c, bc)) /\ Answering(wc, hs)
    BY DEF Numbers
  <1>4. PICK n : /\ NumberStep(f, Expected(s.windows, hs), n)
                 /\ Numbered(Tail(ws), n, o) /\ n <= Room
    BY NumberAhead
  <1>5. f.body \in {"flow", "transfer"} => ss # 0
    BY NumberAhead
  <1> HIDE DEF f, ss, hs, next, o
  <1>6. ServerNumbers(z.windows, ss, next) /\ n = Expected(z.windows, next)
    BY <1>1, <1>2, <1>3, <1>4, <1>5, ServerNumbersHeard
  <1>7. Answering(wc, next)
    <2>1. hs # 0 => next # 0
      BY <1>2
    <2> QED
      BY <1>3, <2>1, AnsweringMoves
  <1>8. Prompted(Tail(ws), HeardIn(c, bc))
    BY <1>1, <1>3, PromptedMoves
  <1> QED
    BY <1>2, <1>3, <1>4, <1>6, <1>7, <1>8 DEF Numbers, next, o

\* There is room for the transfer that is next.
LEMMA TransferRoom ==
    ASSUME Measured, NEW c, NEW s, NEW bc, NEW bs, NEW ws, NEW wc, ws # <<>>,
           StageShape(c, "client", bc), StageShape(s, "server", bs),
           HeardIn(c, bc) <= SaidIn(s, bs),
           Way(ws, c, "client", bc, s, "server", bs), Numbers(c, s, bc, bs, ws, wc),
           Head(ws).body = "transfer", HeardIn(s, bs) = 1
    PROVE  s.windows.incoming > 0
  <1>1. PICK n : NumberStep(Head(ws), Expected(s.windows, HeardIn(s, bs)), n) /\ n <= Room
    BY NumberAhead
  <1>2. SaidIn(s, bs) # 0
    BY NumberAhead
  <1>3. n = s.windows.nextIncoming + 1
    BY <1>1 DEF NumberStep, Expected
  <1>4. /\ s.windows.nextIncoming + s.windows.incoming = Room
        /\ {s.windows.nextIncoming, s.windows.incoming} \subseteq Nat
    BY <1>2, WindowFields DEF Numbers, ServerNumbers
  <1> QED
    BY <1>1, <1>3, <1>4, Small

-----------------------------------------------------------------------------
(* Whose turn it is to attach or detach: wx leaves p, whose session is x, and  *)
(* wy leaves q, whose session is y.                                            *)

\* The leader k is the first to attach and to detach, and waits for its partner
\* to follow it: so no more than one token is under way between them.
Turns(x, p, y, q, wx, wy, k) ==
    /\ NoToken(wx) \/ NoToken(wy)
    /\ ~NoToken(wx) => (p = k <=> ~(Up(x, p) <=> Up(y, q)))
    /\ ~NoToken(wy) => (q = k <=> ~(Up(x, p) <=> Up(y, q)))

\* The leader turns from where both ends agree, its partner from where they do not.
MayTurn(x, p, k) ==
    /\ p = k => (Up(x, p) <=> Seen(x, p))
    /\ p # k => ~(Up(x, p) <=> Seen(x, p))

\* Turns are told alike from both ends.
LEMMA TurnsSwap ==
    ASSUME NEW x, NEW p, NEW y, NEW q, NEW wx, NEW wy, NEW k, Turns(x, p, y, q, wx, wy, k)
    PROVE  Turns(y, q, x, p, wy, wx, k)
  BY DEF Turns

\* An end whose turn it is finds no attach or detach under way, and both
\* ends know all of each other.
LEMMA Alone ==
    ASSUME NEW p \in Peers, NEW q, q = Other(p), NEW k \in Peers,
           NEW x, NEW y, NEW wx, NEW wy,
           Told(wx, x, p, y, q), Told(wy, y, q, x, p), Turns(x, p, y, q, wx, wy, k),
           MayTurn(x, p, k)
    PROVE  NoToken(wx) /\ NoToken(wy) /\ (Up(x, p) <=> Seen(y, q)) /\ (Up(y, q) <=> Seen(x, p))
  <1>1. q = k <=> p # k
    BY Sides DEF Peers
  <1>2. NoToken(wx) => (Up(x, p) <=> Seen(y, q))
    BY DEF Told
  <1>3. NoToken(wy) => (Up(y, q) <=> Seen(x, p))
    BY DEF Told
  <1>4. ~NoToken(wy) => (Up(y, q) <=> ~Seen(x, p))
    BY DEF Told, NoToken
  <1>5. NoToken(wy)
    BY <1>1, <1>4 DEF Turns, MayTurn
  <1>6. NoToken(wx)
    BY <1>1, <1>3, <1>5 DEF Turns, MayTurn
  <1> QED
    BY <1>2, <1>3, <1>5, <1>6

\* Turns, when the end they are told from says a frame.
LEMMA TurnsSaid ==
    ASSUME NEW p \in Peers, NEW q, q = Other(p), NEW k \in Peers,
           NEW x, NEW y, NEW wx, IsStream(wx), NEW wy,
           Told(wx, x, p, y, q), Told(wy, y, q, x, p), Turns(x, p, y, q, wx, wy, k),
           NEW f, NEW z, NEW a, NEW b, Saying(x, z, p, f, a, b),
           f.body = "attach" => ~Up(x, p),
           Token(f) => MayTurn(x, p, k)
    PROVE  Turns(z, p, y, q, Append(wx, f), wy, k)
  <1>1. NoToken(Append(wx, f)) <=> NoToken(wx) /\ ~Token(f)
    BY TokensMore
  <1>2. /\ f.body = "attach" => Up(z, p)
        /\ f.body = "detach" => Up(x, p) /\ ~Up(z, p)
        /\ ~Token(f) => (Up(z, p) <=> Up(x, p))
    BY DEF Saying, LinkSaid, Up, Token
  <1>3. CASE Token(f)
    <2>1. NoToken(wx) /\ NoToken(wy) /\ (Up(y, q) <=> Seen(x, p))
      BY <1>3, Alone
    <2>2. p = k <=> (Up(x, p) <=> Up(y, q))
      BY <1>3, <2>1 DEF MayTurn
    <2>3. ~(Up(z, p) <=> Up(x, p))
      BY <1>2, <1>3 DEF Token
    <2> QED
      BY <2>1, <2>2, <2>3 DEF Turns
  <1>4. CASE ~Token(f)
    BY <1>1, <1>2, <1>4 DEF Turns
  <1> QED
    BY <1>3, <1>4

\* Turns, when it hears one.
LEMMA TurnsHeard ==
    ASSUME NEW p, NEW q, NEW k, NEW x, NEW y, NEW wx, NEW wy, IsStream(wy), wy # <<>>,
           Turns(x, p, y, q, wx, wy, k), NEW z, NEW a, Hearing(x, z, p, Head(wy), a)
    PROVE  Turns(z, p, y, q, wx, Tail(wy), k)
  <1>1. Up(z, p) <=> Up(x, p)
    BY DEF Hearing, LinkHeard, Up
  <1>2. NoToken(wy) => NoToken(Tail(wy))
    BY TokensLess
  <1> QED
    BY <1>1, <1>2 DEF Turns

-----------------------------------------------------------------------------
(* Counts, grants and tables, at the client's session c and the server's s,    *)
(* and on the way between them.                                                *)

\* A link that has been attached, and carried nothing.
Fresh(l) == l.position.count = 0 /\ l.position.credit = 0 /\ l.delivery = Unset

\* What the server's count comes to with all that is on its way to it: the
\* client's, if it is attached.
Reckons(c, n, g, k) ==
    /\ Up(c, "client") => n = Count(c, "client")
    /\ ~Up(c, "client") /\ k = "server" => n = 0 /\ g = 0
    /\ ~Up(c, "client") /\ k = "client" => n < g

Reckoned(c, s, ws, g, k) ==
    \E n : Counted(ws, Count(s, "server"), n) /\ Reckons(c, n, g, k)

\* The client's count and credit, with the grant on its way to it, come to what
\* the server has granted; and the server's count, with the deliveries on their
\* way to it, comes to the client's.
Granting(c, s, ws, wc, g, k) ==
    /\ g \in Nat
    /\ ~NoGrant(wc) => Up(c, "client")
    /\ Up(c, "client") /\ (Up(s, "server") \/ k = "server") =>
           Owed(wc, Count(c, "client"), Credit(c, "client"), g)
    /\ k = "client" /\ Up(c, "client") /\ ~Up(s, "server") => Fresh(LinkIn(c, "client"))
    /\ Up(s, "server") => Reckoned(c, s, ws, g, k)
    /\ k = "client" /\ ~Up(s, "server") => NoName(ws)

\* What the server sends that moves a table, and a client at rest meanwhile.
Moving(f) == f.body = "attach" \/ (f.body = "detach" /\ f.error)
Still(w)  == \A i \in Places(w) : ~Moving(w[i])

\* While the server's f is on its way the client opens no delivery, for it has no
\* credit or no link.
Idle(c, f, g) ==
    Up(c, "client") => /\ LinkIn(c, "client").delivery = Unset
                       /\ Credit(c, "client") = 0
                       /\ f.body = "detach" => g = Count(c, "client")

\* The deliveries that the session x at p knows of.
TableOf(x, p) == Table(LinkIn(x, p))

\* The server's table, with the transfers on their way to it, comes to the
\* client's; but an attach or a detach with an error of the server's moves its
\* table first, and then nothing else is moving.
Tabled(c, s, ws, wc, g) ==
    /\ Still(wc) => Tracked(ws, TableOf(s, "server"), TableOf(c, "client"))
    /\ \A i \in Places(wc) : Moving(wc[i]) =>
           /\ Quiet(ws)
           /\ TableOf(s, "server") = Effect(TableOf(c, "client"), wc[i])
           /\ Idle(c, wc[i], g)

\* What an application keeps to.
Keeps(x, p, b, k, g, f) ==
    /\ Token(f) => MayTurn(x, p, k)
    /\ f.body = "attach" => ~Up(x, p)
    /\ f.body = "detach" => Up(x, p)
    /\ f.body = "detach" /\ p = k /\ p = "client" => Credit(x, p) > 0
    /\ f.body = "detach" /\ p = k /\ p = "server" /\ f.error =>
           g = Count(x, p) /\ LinkIn(x, p).delivery = Unset
    /\ f.body = "flow" => HeardIn(x, b) # 0
    /\ Grant(f) => Up(x, p) /\ Seen(x, p) /\ (p = "server" => g = Count(x, p))

-----------------------------------------------------------------------------
(* Streams without names and tokens. *)

\* Nothing in flight names a delivery to an end that knows of no link, unless
\* an attach is ahead of it.
LEMMA Nameless ==
    ASSUME NEW w, NEW y, NEW p, Attended(w, y, p), NoToken(w), ~Seen(y, p)
    PROVE  NoName(w)
  BY DEF Attended, NoToken, NoName

\* What names a delivery is heard by an end that knows of the link.
LEMMA NamedFirst ==
    ASSUME NEW w, IsStream(w), w # <<>>, NEW y, NEW p, Attended(w, y, p), Named(Head(w))
    PROVE  Seen(y, p)
  <1>1. 1 \in Places(w) /\ Head(w) = w[1] /\ \A j \in Places(w) : ~(j < 1)
    BY StreamTail DEF Places
  <1> QED
    BY <1>1 DEF Attended

\* A stream that names nothing grants nothing.
LEMMA Silent ==
    ASSUME NEW w, NoName(w)
    PROVE  NoGrant(w) /\ (NoToken(w) => Quiet(w))
  BY DEF NoName, NoGrant, NoToken, Quiet, Named

\* Tokens, grants and quiet, when a frame is said.
LEMMA StillMoves ==
    ASSUME NEW w, IsStream(w)
    PROVE  /\ NoToken(w) => Still(w)
           /\ \A f : Still(Append(w, f)) <=> Still(w) /\ ~Moving(f)
           /\ \A f, i : i \in Places(Append(w, f)) =>
                  \/ i \in Places(w) /\ Append(w, f)[i] = w[i]
                  \/ i = Len(w) + 1 /\ Append(w, f)[i] = f
           /\ \A f : NoGrant(Append(w, f)) <=> NoGrant(w) /\ ~Grant(f)
           /\ \A f : Quiet(w) /\ ~Token(f) /\ f.body # "transfer" => Quiet(Append(w, f))
  <1>1. Len(w) \in Nat
    BY StreamLen
  <1>2. NoToken(w) => Still(w)
    BY DEF NoToken, Still, Token, Moving
  <1>3. ASSUME NEW f
        PROVE  /\ \A i \in Places(Append(w, f)) :
                     \/ i \in Places(w) /\ Append(w, f)[i] = w[i]
                     \/ i = Len(w) + 1 /\ Append(w, f)[i] = f
               /\ \A i \in Places(w) : i \in Places(Append(w, f)) /\ Append(w, f)[i] = w[i]
               /\ Len(w) + 1 \in Places(Append(w, f)) /\ Append(w, f)[Len(w) + 1] = f
    <2> DEFINE v == Append(w, f)
    <2>1. /\ Len(v) = Len(w) + 1 /\ v[Len(w) + 1] = f /\ \A i \in 1 .. Len(w) : v[i] = w[i]
      BY StreamAppend
    <2> HIDE DEF v
    <2>2. \A i \in Places(v) : i \in Places(w) \/ i = Len(w) + 1
      BY <1>1, <2>1 DEF Places
    <2>3. \A i \in Places(w) : i \in Places(v) /\ v[i] = w[i]
      BY <1>1, <2>1 DEF Places
    <2>4. Len(w) + 1 \in Places(v)
      BY <1>1, <2>1 DEF Places
    <2> QED
      BY <2>1, <2>2, <2>3, <2>4 DEF v
  <1>4. ASSUME NEW f
        PROVE  Still(Append(w, f)) <=> Still(w) /\ ~Moving(f)
    BY <1>3 DEF Still
  <1>5. ASSUME NEW f
        PROVE  NoGrant(Append(w, f)) <=> NoGrant(w) /\ ~Grant(f)
    BY <1>3 DEF NoGrant
  <1>6. ASSUME NEW f, Quiet(w), ~Token(f), f.body # "transfer"
        PROVE  Quiet(Append(w, f))
    BY <1>3, <1>6 DEF Quiet
  <1> QED
    BY <1>2, <1>3, <1>4, <1>5, <1>6

\* Tokens, grants and quiet, when a frame is heard.
LEMMA StillLess ==
    ASSUME NEW w, IsStream(w), w # <<>>
    PROVE  /\ Still(w) <=> Still(Tail(w)) /\ ~Moving(Head(w))
           /\ NoGrant(w) <=> NoGrant(Tail(w)) /\ ~Grant(Head(w))
           /\ Quiet(w) => /\ Quiet(Tail(w)) /\ ~Token(Head(w)) /\ Head(w).body # "transfer"
           /\ 1 \in Places(w) /\ Head(w) = w[1]
           /\ \A i \in Places(Tail(w)) : i + 1 \in Places(w) /\ Tail(w)[i] = w[i + 1] /\ i + 1 # 1
                                         /\ 1 < i + 1
  <1> DEFINE v == Tail(w)
  <1>1. /\ Len(w) \in Nat \ {0} /\ Head(w) = w[1] /\ Len(v) = Len(w) - 1
        /\ \A i \in 1 .. Len(w) - 1 : v[i] = w[i + 1]
    BY StreamTail
  <1> HIDE DEF v
  <1>2. \A i \in Places(v) : i + 1 \in Places(w) /\ v[i] = w[i + 1] /\ i + 1 # 1 /\ 1 < i + 1
    BY <1>1 DEF Places
  <1>3. \A i \in Places(w) : i = 1 \/ (i - 1 \in Places(v) /\ v[i - 1] = w[i])
    BY <1>1 DEF Places
  <1>4. 1 \in Places(w) /\ Head(w) = w[1]
    BY <1>1 DEF Places
  <1>5. Still(w) <=> Still(v) /\ ~Moving(Head(w))
    BY <1>2, <1>3, <1>4 DEF Still
  <1>6. NoGrant(w) <=> NoGrant(v) /\ ~Grant(Head(w))
    BY <1>2, <1>3, <1>4 DEF NoGrant
  <1>7. Quiet(w) => Quiet(v) /\ ~Token(Head(w)) /\ Head(w).body # "transfer"
    BY <1>2, <1>4 DEF Quiet
  <1> QED
    BY <1>2, <1>4, <1>5, <1>6, <1>7 DEF v

\* What is not a transfer starts no delivery.
LEMMA EffectIdle ==
    ASSUME NEW m, NEW l, NEW f, Table(m) = Effect(Table(l), f), f.body # "transfer",
           l.delivery = Unset
    PROVE  m.delivery = Unset
  <1>1. Effect(Table(l), f) \in {Renewed(Table(l), f), Cleared(Table(l)), Table(l)}
    BY DEF Effect
  <1> QED
    BY <1>1, RenewedLeaves

\* The delivery of a table is its link's.
LEMMA TableDelivery == \A l : Table(l).delivery = l.delivery
  BY DEF Table

-----------------------------------------------------------------------------
(* The two sessions and what is between them; first, what the client says.     *)

\* The client's session c and the server's s, and between them ws and wc; bc and
\* bs were begun, g was granted, and k leads.
Core(c, s, bc, bs, ws, wc, g, k) ==
    /\ SessionShape(c, "client") /\ StageShape(c, "client", bc)
    /\ SessionShape(s, "server") /\ StageShape(s, "server", bs)
    /\ Way(ws, c, "client", bc, s, "server", bs)
    /\ Way(wc, s, "server", bs, c, "client", bc)
    /\ k \in Peers
    /\ Numbers(c, s, bc, bs, ws, wc)
    /\ Turns(c, "client", s, "server", ws, wc, k)
    /\ Granting(c, s, ws, wc, g, k)
    /\ Tabled(c, s, ws, wc, g)

\* What the pair's invariant says of both ends alike.
LEMMA Between ==
    ASSUME NEW c, NEW s, NEW bc, NEW bs, NEW ws, NEW wc, NEW g, NEW k,
           Core(c, s, bc, bs, ws, wc, g, k)
    PROVE  /\ IsStream(ws) /\ IsStream(wc)
           /\ Told(ws, c, "client", s, "server") /\ Told(wc, s, "server", c, "client")
           /\ Attended(ws, s, "server") /\ Attended(wc, c, "client")
           /\ Turns(c, "client", s, "server", ws, wc, k)
           /\ Turns(s, "server", c, "client", wc, ws, k)
           /\ Granting(c, s, ws, wc, g, k) /\ Tabled(c, s, ws, wc, g)
           /\ k = "client" \/ k = "server"
           /\ Up(c, "client") => /\ Count(c, "client") \in Nat /\ Credit(c, "client") \in Nat
                                 /\ LinkIn(c, "client").position # Unset
           /\ Up(s, "server") => /\ Count(s, "server") \in Nat
                                 /\ LinkIn(s, "server").position # Unset
  <1>1. /\ IsStream(ws) /\ IsStream(wc)
        /\ Told(ws, c, "client", s, "server") /\ Told(wc, s, "server", c, "client")
        /\ Attended(ws, s, "server") /\ Attended(wc, c, "client")
    BY DEF Core, Way, Framed
  <1>2. /\ Turns(c, "client", s, "server", ws, wc, k)
        /\ Granting(c, s, ws, wc, g, k) /\ Tabled(c, s, ws, wc, g)
        /\ k = "client" \/ k = "server"
    BY DEF Core, Peers
  <1>3. Turns(s, "server", c, "client", wc, ws, k)
    BY <1>2, TurnsSwap
  <1>4. SessionShape(c, "client") /\ SessionShape(s, "server")
    BY DEF Core
  <1>5. ASSUME Up(c, "client")
        PROVE  /\ Count(c, "client") \in Nat /\ Credit(c, "client") \in Nat
               /\ LinkIn(c, "client").position # Unset
    <2>1. LinkIn(c, "client").position \in Positions
      BY <1>4, <1>5, Placing
    <2> QED
      BY <2>1, NotUnset DEF Count, Credit, Positions
  <1>6. ASSUME Up(s, "server")
        PROVE  Count(s, "server") \in Nat /\ LinkIn(s, "server").position # Unset
    <2>1. LinkIn(s, "server").position \in Positions
      BY <1>4, <1>6, Placing
    <2> QED
      BY <2>1, NotUnset DEF Count, Positions
  <1> QED
    BY <1>1, <1>2, <1>3, <1>5, <1>6

\* Only transfers that open a delivery, and grants, touch or read the count.
LEMMA CountPlain ==
    ASSUME NEW f, ~Opens(f), ~Grant(f), NEW a \in Nat
    PROVE  CountStep(f, a, a)
  BY DEF CountStep

\* The token a peer may send is the only one.
LEMMA TurnAlone ==
    ASSUME NEW c, NEW s, NEW bc, NEW bs, NEW ws, NEW wc, NEW g, NEW k,
           Core(c, s, bc, bs, ws, wc, g, k)
    PROVE  MayTurn(c, "client", k) \/ MayTurn(s, "server", k) =>
               /\ NoToken(ws) /\ NoToken(wc)
               /\ Up(c, "client") <=> Seen(s, "server")
               /\ Up(s, "server") <=> Seen(c, "client")
  <1>1. k \in Peers /\ "client" \in Peers /\ "server" \in Peers
        /\ Other("client") = "server" /\ Other("server") = "client"
    BY Sides DEF Core, Peers
  <1>2. ASSUME MayTurn(c, "client", k)
        PROVE  /\ NoToken(ws) /\ NoToken(wc)
               /\ Up(c, "client") <=> Seen(s, "server")
               /\ Up(s, "server") <=> Seen(c, "client")
    BY <1>1, <1>2, Between, Alone
  <1>3. ASSUME MayTurn(s, "server", k)
        PROVE  /\ NoToken(ws) /\ NoToken(wc)
               /\ Up(c, "client") <=> Seen(s, "server")
               /\ Up(s, "server") <=> Seen(c, "client")
    BY <1>1, <1>3, Between, Alone
  <1> QED
    BY <1>2, <1>3

\* A link the client knows attached at the server, and the server has let go.
LEMMA LetGo ==
    ASSUME NEW c, NEW s, NEW bc, NEW bs, NEW ws, NEW wc, NEW g, NEW k,
           Core(c, s, bc, bs, ws, wc, g, k)
    PROVE  /\ Up(c, "client") /\ Seen(c, "client") /\ ~Up(s, "server") => k = "server"
           /\ Up(s, "server") /\ Seen(s, "server") /\ ~Up(c, "client") => k = "client"
  <1>1. /\ Told(ws, c, "client", s, "server") /\ Told(wc, s, "server", c, "client")
        /\ Turns(c, "client", s, "server", ws, wc, k)
        /\ k = "client" \/ k = "server"
    BY Between
  <1>2. ASSUME Up(c, "client"), Seen(c, "client"), ~Up(s, "server")
        PROVE  k = "server"
    <2>1. ~NoToken(wc)
      BY <1>1, <1>2 DEF Told
    <2> QED
      BY <1>1, <1>2, <2>1 DEF Turns
  <1>3. ASSUME Up(s, "server"), Seen(s, "server"), ~Up(c, "client")
        PROVE  k = "client"
    <2>1. ~NoToken(ws)
      BY <1>1, <1>3 DEF Told
    <2> QED
      BY <1>1, <1>3, <2>1 DEF Turns
  <1> QED
    BY <1>2, <1>3

\* The grants, when the client says a frame.
LEMMA ClientSaysGrants ==
    ASSUME NEW c, NEW s, NEW bc, NEW bs, NEW ws, NEW wc, NEW g, NEW k,
           Core(c, s, bc, bs, ws, wc, g, k),
           NEW f, IsFrameOf(f, "client"), Tells(c, "client", f), Keeps(c, "client", bc, k, g, f),
           NEW z, NEW b, Saying(c, z, "client", f, bc, b)
    PROVE  Granting(z, s, Append(ws, f), wc, g, k)
  <1> DEFINE l == LinkIn(c, "client")
             m == LinkIn(z, "client")
             v == Append(ws, f)
  <1>1. /\ IsStream(ws) /\ IsStream(wc)
        /\ Attended(ws, s, "server") /\ Attended(wc, c, "client")
        /\ Granting(c, s, ws, wc, g, k)
        /\ k = "client" \/ k = "server"
        /\ Up(c, "client") => Count(c, "client") \in Nat /\ Credit(c, "client") \in Nat
        /\ Up(s, "server") => Count(s, "server") \in Nat
    BY Between
  <1>2. /\ g \in Nat
        /\ ~NoGrant(wc) => Up(c, "client")
        /\ Up(c, "client") /\ (Up(s, "server") \/ k = "server") =>
               Owed(wc, Count(c, "client"), Credit(c, "client"), g)
        /\ k = "client" /\ Up(c, "client") /\ ~Up(s, "server") => Fresh(l)
        /\ Up(s, "server") => Reckoned(c, s, ws, g, k)
        /\ k = "client" /\ ~Up(s, "server") => NoName(ws)
    BY <1>1 DEF Granting
  <1>3. LinkSaid(m, l, f)
    BY DEF Saying
  <1>4. NoName(v) <=> NoName(ws) /\ ~Named(f)
    BY <1>1, TokensMore
  <1>5. \A n, a : Counted(ws, Count(s, "server"), n) /\ CountStep(f, n, a)
                     => Counted(v, Count(s, "server"), a)
    BY <1>1, CountedMore
  <1>6. \A n : Counted(ws, Count(s, "server"), n) => n \in Nat
    BY <1>1, CountedRises
  <1> HIDE DEF v
  <1>7. CASE f.body = "attach"
    <2>1. /\ ~Up(c, "client") /\ NoToken(ws) /\ NoToken(wc)
          /\ (Up(s, "server") <=> Seen(c, "client"))
          /\ k = "client" => ~Seen(c, "client")
          /\ k = "server" => Seen(c, "client")
      BY <1>1, <1>7, TurnAlone DEF Keeps, Token, MayTurn
    <2>2. /\ Up(z, "client") /\ Count(z, "client") = 0 /\ Credit(z, "client") = 0
          /\ m.delivery = Unset
      <3>1. Up(z, "client") /\ m.position = FreshPosition(f) /\ Table(m) = Renewed(Table(l), f)
        BY <1>3, <1>7 DEF LinkSaid, Up, Effect
      <3>2. f.role = "sender" /\ f.initialCount = 0
        BY <1>7, Sides DEF IsFrameOf, IsAttach, Tells
      <3>3. FreshPosition(f).count = 0 /\ FreshPosition(f).credit = 0
        BY <3>2 DEF FreshPosition
      <3> QED
        BY <3>1, <3>3, RenewedLeaves DEF Count, Credit
    <2>3. ~Opens(f) /\ ~Grant(f) /\ ~Named(f)
      BY <1>7 DEF Opens, Grant, Named
    <2>4. NoGrant(wc)
      BY <1>2, <2>1
    <2>5. CASE k = "client"
      BY <1>2, <1>4, <2>1, <2>2, <2>3, <2>5 DEF Granting, v, Fresh, Count, Credit
    <2>6. CASE k = "server"
      <3>1. Up(s, "server") /\ Reckoned(c, s, ws, g, k)
        BY <1>2, <2>1, <2>6
      <3>2. PICK n : Counted(ws, Count(s, "server"), n) /\ Reckons(c, n, g, k)
        BY <3>1 DEF Reckoned
      <3>3. n = 0 /\ g = 0
        BY <2>1, <2>6, <3>2 DEF Reckons
      <3>4. Counted(v, Count(s, "server"), 0)
        BY <1>5, <2>3, <3>2, <3>3, CountPlain
      <3>5. Reckoned(z, s, v, g, k)
        BY <2>2, <3>4 DEF Reckoned, Reckons
      <3>6. Owed(wc, Count(z, "client"), Credit(z, "client"), g)
        BY <2>2, <2>4, <3>3, OwedPlain
      <3> QED
        BY <1>2, <2>2, <2>6, <3>1, <3>5, <3>6 DEF Granting, v
    <2> QED
      BY <1>1, <2>5, <2>6
  <1>8. CASE f.body = "detach"
    <2>1. /\ Up(c, "client") /\ ~Up(z, "client") /\ NoToken(ws) /\ NoToken(wc)
          /\ (Up(s, "server") <=> Seen(c, "client"))
          /\ k = "client" => Seen(c, "client") /\ Credit(c, "client") > 0
          /\ k = "server" => ~Seen(c, "client")
      BY <1>1, <1>3, <1>8, TurnAlone DEF Keeps, Token, MayTurn, LinkSaid, Up
    <2>2. ~Opens(f) /\ ~Grant(f) /\ ~Named(f)
      BY <1>8 DEF Opens, Grant, Named
    <2>3. CASE k = "client"
      <3>1. Up(s, "server") /\ Reckoned(c, s, ws, g, k)
        BY <1>2, <2>1, <2>3
      <3>2. PICK n : Counted(ws, Count(s, "server"), n) /\ Reckons(c, n, g, k)
        BY <3>1 DEF Reckoned
      <3>3. n = Count(c, "client")
        BY <2>1, <3>2 DEF Reckons
      <3>4. NoGrant(wc) /\ Count(c, "client") + Credit(c, "client") = g
        BY <1>2, <2>1, <2>3, <3>1, OwedUsed
      <3>5. n < g /\ n \in Nat
        BY <1>1, <1>2, <2>1, <2>3, <3>3, <3>4
      <3>6. Counted(v, Count(s, "server"), n)
        BY <1>5, <2>2, <3>2, <3>5, CountPlain
      <3>7. Reckoned(z, s, v, g, k)
        BY <2>1, <2>3, <3>5, <3>6 DEF Reckoned, Reckons
      <3> QED
        BY <1>2, <2>1, <2>3, <3>1, <3>4, <3>7 DEF Granting, v
    <2>4. CASE k = "server"
      <3>1. ~Up(s, "server") /\ ~Seen(c, "client")
        BY <2>1, <2>4
      <3>2. NoGrant(wc)
        BY <1>1, <2>1, <3>1, Nameless, Silent
      <3> QED
        BY <1>2, <2>1, <2>4, <3>1, <3>2 DEF Granting, v
    <2> QED
      BY <1>1, <2>3, <2>4
  <1>9. CASE f.body = "transfer"
    <2>1. /\ Up(c, "client") /\ Up(z, "client") /\ Spends(m, l)
          /\ (f.deliveryId # Unset <=> l.delivery = Unset)
      BY <1>3, <1>9 DEF LinkSaid, Up, Tells
    <2>2. ~Grant(f) /\ (Opens(f) <=> l.delivery = Unset)
      BY <1>9, <2>1 DEF Grant, Opens
    <2>3. l.delivery = Unset => Credit(c, "client") > 0
      BY <2>1 DEF Spends, Credit
    <2>4. Up(s, "server") \/ k = "server"
      <3>1. k = "client" /\ ~Up(s, "server") => l.delivery = Unset /\ Credit(c, "client") = 0
        BY <1>2, <2>1 DEF Fresh, Credit
      <3> QED
        BY <1>1, <2>3, <3>1
    <2>5. Owed(wc, Count(c, "client"), Credit(c, "client"), g)
      BY <1>2, <2>1, <2>4
    <2>6. CASE l.delivery = Unset
      <3>1. /\ Count(z, "client") = Count(c, "client") + 1
            /\ Credit(z, "client") = Credit(c, "client") - 1
        BY <2>1, <2>6 DEF Spends, Count, Credit
      <3>2. NoGrant(wc) /\ Count(c, "client") + Credit(c, "client") = g
        BY <2>3, <2>5, <2>6, OwedUsed
      <3>3. /\ Count(z, "client") \in Nat /\ Credit(z, "client") \in Nat
            /\ g = Count(z, "client") + Credit(z, "client")
        BY <1>1, <2>1, <2>3, <2>6, <3>1, <3>2
      <3>4. Owed(wc, Count(z, "client"), Credit(z, "client"), g)
        BY <3>2, <3>3, OwedPlain
      <3>5. ASSUME Up(s, "server")
            PROVE  Reckoned(z, s, v, g, k)
        <4>1. PICK n : Counted(ws, Count(s, "server"), n) /\ Reckons(c, n, g, k)
          BY <1>2, <3>5 DEF Reckoned
        <4>2. n = Count(c, "client")
          BY <2>1, <4>1 DEF Reckons
        <4>3. CountStep(f, n, Count(z, "client"))
          BY <1>1, <2>1, <2>2, <2>6, <3>1, <3>3, <4>2 DEF CountStep
        <4>4. Counted(v, Count(s, "server"), Count(z, "client"))
          BY <1>5, <4>1, <4>3
        <4> QED
          BY <2>1, <4>4 DEF Reckoned, Reckons
      <3> QED
        BY <1>2, <2>1, <2>4, <3>2, <3>4, <3>5 DEF Granting, v
    <2>7. CASE l.delivery # Unset
      <3>1. Count(z, "client") = Count(c, "client") /\ Credit(z, "client") = Credit(c, "client")
        BY <2>1, <2>7 DEF Spends, Count, Credit
      <3>2. ASSUME Up(s, "server")
            PROVE  Reckoned(z, s, v, g, k)
        <4>1. PICK n : Counted(ws, Count(s, "server"), n) /\ Reckons(c, n, g, k)
          BY <1>2, <3>2 DEF Reckoned
        <4>2. n = Count(c, "client")
          BY <2>1, <4>1 DEF Reckons
        <4>3. Counted(v, Count(s, "server"), n)
          BY <1>5, <1>6, <2>2, <2>7, <4>1, CountPlain
        <4> QED
          BY <2>1, <3>1, <4>2, <4>3 DEF Reckoned, Reckons
      <3> QED
        BY <1>2, <2>1, <2>4, <2>5, <3>1, <3>2 DEF Granting, v
    <2> QED
      BY <2>6, <2>7
  <1>10. CASE f.body \notin {"attach", "detach", "transfer"}
    <2>1. /\ Up(z, "client") <=> Up(c, "client")
          /\ Count(z, "client") = Count(c, "client") /\ Credit(z, "client") = Credit(c, "client")
          /\ Fresh(l) => Fresh(m)
      <3>1. m.local = l.local /\ m.position = l.position /\ Table(m) = Effect(Table(l), f)
        BY <1>3, <1>10 DEF LinkSaid
      <3>2. l.delivery = Unset => m.delivery = Unset
        BY <1>10, <3>1, EffectIdle
      <3> QED
        BY <3>1, <3>2 DEF Up, Count, Credit, Fresh
    <2>2. ~Opens(f) /\ (Named(f) => Grant(f))
      BY <1>10 DEF Opens, Named
    <2>3. Grant(f) => /\ Up(c, "client") /\ Seen(c, "client")
                      /\ f.count = Count(c, "client")
      BY DEF Grant, Tells, Keeps
    <2>4. k = "client" /\ ~Up(s, "server") => ~Named(f)
      BY <2>2, <2>3, LetGo
    <2>5. ASSUME Up(s, "server")
          PROVE  Reckoned(z, s, v, g, k)
      <3>1. PICK n : Counted(ws, Count(s, "server"), n) /\ Reckons(c, n, g, k)
        BY <1>2, <2>5 DEF Reckoned
      <3>2. Grant(f) => f.count = n
        BY <2>3, <3>1 DEF Reckons
      <3>3. CountStep(f, n, n)
        BY <1>6, <2>2, <3>1, <3>2 DEF CountStep
      <3>4. Counted(v, Count(s, "server"), n)
        BY <1>5, <3>1, <3>3
      <3>5. Reckons(z, n, g, k)
        BY <2>1, <3>1 DEF Reckons
      <3> QED
        BY <3>4, <3>5 DEF Reckoned
    <2> QED
      BY <1>2, <1>4, <2>1, <2>4, <2>5 DEF Granting, v
  <1> QED
    BY <1>7, <1>8, <1>9, <1>10

\* The tables, when the client says a frame.
LEMMA ClientSaysTables ==
    ASSUME NEW c, NEW s, NEW bc, NEW bs, NEW ws, NEW wc, NEW g, NEW k,
           Core(c, s, bc, bs, ws, wc, g, k),
           NEW f, IsFrameOf(f, "client"), Tells(c, "client", f), Keeps(c, "client", bc, k, g, f),
           NEW z, NEW b, Saying(c, z, "client", f, bc, b)
    PROVE  Tabled(z, s, Append(ws, f), wc, g)
  <1> DEFINE l == LinkIn(c, "client")
             m == LinkIn(z, "client")
             v == Append(ws, f)
             ts == TableOf(s, "server")
  <1>1. /\ IsStream(ws) /\ IsStream(wc) /\ Tabled(c, s, ws, wc, g)
    BY Between
  <1>2. /\ LinkSaid(m, l, f) /\ Table(m) = Effect(Table(l), f)
    BY DEF Saying, LinkSaid
  <1>3. Token(f) => NoToken(wc)
    BY TurnAlone DEF Keeps
  <1>4. /\ Still(wc) => Tracked(ws, ts, Table(l))
        /\ \A i \in Places(wc) : Moving(wc[i]) =>
               Quiet(ws) /\ ts = Effect(Table(l), wc[i]) /\ Idle(c, wc[i], g)
    BY <1>1 DEF Tabled, TableOf
  <1> HIDE DEF ts
  <1>5. TableStep(f, Table(l), Table(m))
    <2>1. f.body = "transfer" => Accepts(Table(l), f) /\ (f.deliveryId # Unset <=> l.delivery = Unset)
      BY <1>2 DEF LinkSaid, Tells
    <2> QED
      BY <1>2, <2>1, TableDelivery DEF TableStep
  <1>6. Still(wc) => Tracked(v, ts, Table(m))
    BY <1>1, <1>4, <1>5, TrackedMore
  <1>7. ASSUME NEW i \in Places(wc), Moving(wc[i])
        PROVE  Quiet(v) /\ ts = Effect(Table(m), wc[i]) /\ Idle(z, wc[i], g)
    <2>1. Quiet(ws) /\ ts = Effect(Table(l), wc[i]) /\ Idle(c, wc[i], g)
      BY <1>4, <1>7
    <2>2. ~Token(f)
      BY <1>3, <1>7 DEF NoToken, Moving, Token
    <2>3. f.body # "transfer"
      <3>1. f.body = "transfer" => Up(c, "client") /\ (l.delivery = Unset => Credit(c, "client") > 0)
        BY <1>2 DEF LinkSaid, Spends, Up, Credit
      <3> QED
        BY <2>1, <3>1 DEF Idle
    <2>4. Quiet(v)
      BY <1>1, <2>1, <2>2, <2>3, StillMoves
    <2>5. Table(m) = Table(l)
      BY <1>2, <2>2, <2>3, EffectPlain
    <2>6. m.local = l.local /\ m.position = l.position /\ m.delivery = l.delivery
      <3>1. m.delivery = l.delivery
        BY <2>5, RenewedLeaves
      <3> QED
        BY <1>2, <2>2, <2>3, <3>1 DEF LinkSaid, Token
    <2>7. Idle(z, wc[i], g)
      BY <2>1, <2>6 DEF Idle, Up, Credit, Count
    <2> QED
      BY <2>1, <2>4, <2>5, <2>7
  <1> QED
    BY <1>6, <1>7 DEF Tabled, TableOf, v, ts

\* The invariant, when the client says a frame.
LEMMA ClientSays ==
    ASSUME Measured, NEW c, NEW s, NEW bc, NEW bs, NEW ws, NEW wc, NEW g, NEW k,
           Core(c, s, bc, bs, ws, wc, g, k),
           NEW f, IsFrameOf(f, "client"), Tells(c, "client", f), Keeps(c, "client", bc, k, g, f),
           f.body = "attach" => f.handle <= DefaultHandleMax,
           NEW z, NEW b, Saying(c, z, "client", f, bc, b)
    PROVE  Core(z, s, b, bs, Append(ws, f), wc, g, k)
  <1>1. /\ "client" \in Peers /\ "server" = Other("client")
    BY Sides DEF Peers
  <1>2. /\ StageShape(c, "client", bc) /\ SessionShape(s, "server") /\ StageShape(s, "server", bs)
        /\ Way(ws, c, "client", bc, s, "server", bs) /\ Way(wc, s, "server", bs, c, "client", bc)
        /\ Numbers(c, s, bc, bs, ws, wc) /\ k \in Peers
    BY DEF Core
  <1>3. Token(f) => NoToken(ws) /\ MayTurn(c, "client", k)
    BY TurnAlone DEF Keeps
  <1>4. Named(f) => Up(c, "client")
    BY DEF Named, Keeps, Saying, LinkSaid, Up
  <1>5. f.body = "attach" => ~Up(c, "client")
    BY DEF Keeps
  <1>6. Way(Append(ws, f), z, "client", b, s, "server", bs)
    BY <1>1, <1>2, <1>3, <1>4, <1>5, WayMore
  <1>7. Way(wc, s, "server", bs, z, "client", b)
    BY <1>2, WayKept
  <1>8. Numbers(z, s, b, bs, Append(ws, f), wc)
    BY <1>2, NumbersClientSays DEF Keeps
  <1>9. Turns(z, "client", s, "server", Append(ws, f), wc, k)
    BY <1>1, <1>2, <1>3, <1>5, Between, TurnsSaid
  <1>10. SessionShape(z, "client") /\ StageShape(z, "client", b)
    BY DEF Saying
  <1> QED
    BY <1>2, <1>6, <1>7, <1>8, <1>9, <1>10, ClientSaysGrants, ClientSaysTables DEF Core

-----------------------------------------------------------------------------
(* What the server says. *)

\* What the server has granted, after f.
GrantedBy(g, f) ==
    IF f.body = "attach" THEN 0 ELSE IF Grant(f) THEN f.count + f.credit ELSE g

\* A server that has used up what it granted, with nothing else on the way: the
\* client stands where it does.
LEMMA UsedUp ==
    ASSUME NEW c, NEW s, NEW bc, NEW bs, NEW ws, NEW wc, NEW g, NEW k,
           Core(c, s, bc, bs, ws, wc, g, k),
           Up(s, "server"), Seen(s, "server"), g = Count(s, "server")
    PROVE  /\ Up(c, "client") /\ g = Count(c, "client") /\ Credit(c, "client") = 0
           /\ Owed(wc, Count(c, "client"), Credit(c, "client"), g)
           /\ NoOpening(ws)
  <1>1. /\ IsStream(ws) /\ Granting(c, s, ws, wc, g, k) /\ (k = "client" \/ k = "server")
    BY Between
  <1>2. PICK n : Counted(ws, Count(s, "server"), n) /\ Reckons(c, n, g, k)
    BY <1>1 DEF Granting, Reckoned
  <1>3. /\ g \in Nat /\ n \in Nat /\ g <= n /\ (g = n => NoOpening(ws))
    BY <1>1, <1>2, CountedRises
  <1>4. Up(c, "client")
    <2>1. SUFFICES ASSUME ~Up(c, "client") PROVE FALSE
      OBVIOUS
    <2>2. k = "client"
      BY <2>1, LetGo
    <2>3. n < g
      BY <1>2, <2>1, <2>2 DEF Reckons
    <2> QED
      BY <1>3, <2>3
  <1>5. n = Count(c, "client")
    BY <1>2, <1>4 DEF Reckons
  <1>6. Owed(wc, Count(c, "client"), Credit(c, "client"), g)
    BY <1>1, <1>4 DEF Granting
  <1>7. g = Count(c, "client") /\ Credit(c, "client") = 0
    BY <1>3, <1>5, <1>6, OwedSpent
  <1> QED
    BY <1>3, <1>4, <1>5, <1>6, <1>7

\* The grants, when the server says a frame.
LEMMA ServerSaysGrants ==
    ASSUME NEW c, NEW s, NEW bc, NEW bs, NEW ws, NEW wc, NEW g, NEW k,
           Core(c, s, bc, bs, ws, wc, g, k),
           NEW f, IsFrameOf(f, "server"), Tells(s, "server", f), Keeps(s, "server", bs, k, g, f),
           NEW z, NEW b, Saying(s, z, "server", f, bs, b)
    PROVE  Granting(c, z, ws, Append(wc, f), GrantedBy(g, f), k)
  <1> DEFINE l == LinkIn(s, "server")
             m == LinkIn(z, "server")
             v == Append(wc, f)
             h == GrantedBy(g, f)
  <1>1. /\ IsStream(ws) /\ IsStream(wc)
        /\ Attended(ws, s, "server") /\ Attended(wc, c, "client")
        /\ Granting(c, s, ws, wc, g, k)
        /\ k = "client" \/ k = "server"
        /\ Up(c, "client") => Count(c, "client") \in Nat /\ Credit(c, "client") \in Nat
        /\ Up(s, "server") => Count(s, "server") \in Nat
    BY Between
  <1>2. /\ g \in Nat
        /\ ~NoGrant(wc) => Up(c, "client")
        /\ Up(c, "client") /\ (Up(s, "server") \/ k = "server") =>
               Owed(wc, Count(c, "client"), Credit(c, "client"), g)
        /\ k = "client" /\ Up(c, "client") /\ ~Up(s, "server") => Fresh(LinkIn(c, "client"))
        /\ Up(s, "server") => Reckoned(c, s, ws, g, k)
        /\ k = "client" /\ ~Up(s, "server") => NoName(ws)
    BY <1>1 DEF Granting
  <1>3. LinkSaid(m, l, f) /\ f.body # "transfer"
    BY Sides DEF Saying, IsFrameOf
  <1>4. NoGrant(v) <=> NoGrant(wc) /\ ~Grant(f)
    BY <1>1, StillMoves
  <1>5. ~Grant(f) => \A cc, cr : Owed(wc, cc, cr, g) => Owed(v, cc, cr, g)
    BY <1>1, OwedMore
  <1> HIDE DEF v
  <1>6. CASE f.body = "attach"
    <2>1. /\ ~Up(s, "server") /\ NoToken(ws) /\ NoToken(wc) /\ ~Seen(c, "client")
          /\ (Up(c, "client") <=> Seen(s, "server"))
          /\ k = "server" => ~Seen(s, "server")
          /\ k = "client" => Seen(s, "server")
      BY <1>1, <1>6, TurnAlone DEF Keeps, Token, MayTurn
    <2>2. Up(z, "server") /\ Count(z, "server") = 0 /\ h = 0
      <3>1. Up(z, "server") /\ m.position = FreshPosition(f)
        BY <1>3, <1>6 DEF LinkSaid, Up
      <3>2. f.role # "sender"
        BY <1>6, Sides DEF IsFrameOf, IsAttach
      <3>3. FreshPosition(f).count = 0
        BY <3>2 DEF FreshPosition
      <3> QED
        BY <1>6, <3>1, <3>3 DEF Count, GrantedBy
    <2> HIDE DEF h
    <2>3. ~Grant(f)
      BY <1>6 DEF Grant
    <2>4. NoGrant(wc) /\ NoGrant(v)
      BY <1>1, <1>4, <2>1, <2>3, Nameless, Silent
    <2>5. NoName(ws)
      BY <1>1, <1>2, <2>1, Nameless
    <2>6. Counted(ws, 0, 0)
      BY <1>1, <2>5, CountedStands
    <2>7. CASE k = "server"
      <3>1. ~Up(c, "client")
        BY <2>1, <2>7
      <3>2. Reckoned(c, z, ws, h, k)
        BY <2>2, <2>6, <2>7, <3>1 DEF Reckoned, Reckons
      <3> QED
        BY <1>2, <2>2, <2>4, <2>7, <3>1, <3>2 DEF Granting, v, h
    <2>8. CASE k = "client"
      <3>1. Up(c, "client") /\ Count(c, "client") = 0 /\ Credit(c, "client") = 0
        BY <1>2, <2>1, <2>8 DEF Fresh, Count, Credit
      <3>2. Owed(v, Count(c, "client"), Credit(c, "client"), h)
        BY <2>2, <2>4, <3>1, OwedPlain
      <3>3. Reckoned(c, z, ws, h, k)
        BY <2>2, <2>6, <3>1 DEF Reckoned, Reckons
      <3> QED
        BY <1>2, <2>2, <2>4, <2>8, <3>1, <3>2, <3>3 DEF Granting, v, h
    <2> QED
      BY <1>1, <2>7, <2>8
  <1>7. CASE f.body = "detach"
    <2>1. /\ Up(s, "server") /\ ~Up(z, "server") /\ NoToken(ws) /\ NoToken(wc)
          /\ (Up(c, "client") <=> Seen(s, "server"))
          /\ k = "server" => Seen(s, "server")
          /\ k = "client" => ~Seen(s, "server")
      BY <1>1, <1>3, <1>7, TurnAlone DEF Keeps, Token, MayTurn, LinkSaid, Up
    <2>2. ~Grant(f) /\ h = g
      BY <1>7 DEF Grant, GrantedBy
    <2> HIDE DEF h
    <2>3. CASE k = "server"
      <3>1. Up(c, "client")
        BY <2>1, <2>3
      <3>2. Owed(v, Count(c, "client"), Credit(c, "client"), g)
        BY <1>2, <1>5, <2>1, <2>2, <3>1
      <3> QED
        BY <1>2, <2>1, <2>2, <2>3, <3>1, <3>2 DEF Granting, v, h
    <2>4. CASE k = "client"
      <3>1. ~Up(c, "client") /\ ~Seen(s, "server")
        BY <2>1, <2>4
      <3>2. NoName(ws)
        BY <1>1, <2>1, <3>1, Nameless
      <3>3. NoGrant(v)
        BY <1>2, <1>4, <2>2, <3>1
      <3> QED
        BY <1>2, <2>1, <2>2, <2>4, <3>1, <3>2, <3>3 DEF Granting, v, h
    <2> QED
      BY <1>1, <2>3, <2>4
  <1>8. CASE Grant(f)
    <2>1. /\ Up(s, "server") /\ Seen(s, "server") /\ g = Count(s, "server")
          /\ f.count = Count(s, "server") /\ f.credit \in Nat
      <3>1. IsLinkFlow(f, "server")
        BY <1>8 DEF Grant, IsFrameOf, IsFlow
      <3> QED
        BY <1>8, <3>1, Sides DEF Grant, Keeps, Tells, IsLinkFlow
    <2>2. /\ Up(c, "client") /\ g = Count(c, "client") /\ Credit(c, "client") = 0
          /\ Owed(wc, Count(c, "client"), Credit(c, "client"), g)
      BY <2>1, UsedUp
    <2>3. h = Count(c, "client") + f.credit
      BY <1>8, <2>1, <2>2 DEF GrantedBy, Grant
    <2>4. Owed(v, Count(c, "client"), Credit(c, "client"), Count(c, "client") + f.credit)
      <3>1. g <= Count(c, "client") /\ f.count = Count(c, "client")
        BY <1>2, <2>1, <2>2
      <3> QED
        BY <1>1, <1>8, <2>1, <2>2, <3>1, OwedMore DEF v
    <2>5. h \in Nat
      BY <1>1, <2>1, <2>2, <2>3
    <2> HIDE DEF h
    <2>6. (Up(z, "server") <=> Up(s, "server")) /\ Count(z, "server") = Count(s, "server")
      BY <1>3, <1>8 DEF LinkSaid, Up, Count, Grant
    <2>7. Reckoned(c, z, ws, h, k)
      <3>1. PICK n : Counted(ws, Count(s, "server"), n) /\ Reckons(c, n, g, k)
        BY <1>2, <2>1 DEF Reckoned
      <3>2. Reckons(c, n, h, k)
        BY <2>2, <3>1 DEF Reckons
      <3> QED
        BY <2>6, <3>1, <3>2 DEF Reckoned
    <2>8. Owed(v, Count(c, "client"), Credit(c, "client"), h)
      BY <2>3, <2>4
    <2> QED
      BY <1>2, <2>1, <2>2, <2>5, <2>6, <2>7, <2>8 DEF Granting, v, h
  <1>9. CASE f.body \notin {"attach", "detach"} /\ ~Grant(f)
    <2>1. (Up(z, "server") <=> Up(s, "server")) /\ Count(z, "server") = Count(s, "server")
      BY <1>3, <1>9 DEF LinkSaid, Up, Count
    <2>2. h = g
      BY <1>9 DEF GrantedBy
    <2> HIDE DEF h
    <2>3. Up(s, "server") => Reckoned(c, z, ws, g, k)
      BY <1>2, <2>1 DEF Reckoned
    <2> QED
      BY <1>2, <1>4, <1>5, <1>9, <2>1, <2>2, <2>3 DEF Granting, v, h
  <1> QED
    BY <1>6, <1>7, <1>8, <1>9 DEF Grant

\* The tables, when the server says a frame.
LEMMA ServerSaysTables ==
    ASSUME NEW c, NEW s, NEW bc, NEW bs, NEW ws, NEW wc, NEW g, NEW k,
           Core(c, s, bc, bs, ws, wc, g, k),
           NEW f, IsFrameOf(f, "server"), Tells(s, "server", f), Keeps(s, "server", bs, k, g, f),
           NEW z, NEW b, Saying(s, z, "server", f, bs, b)
    PROVE  Tabled(c, z, ws, Append(wc, f), GrantedBy(g, f))
  <1> DEFINE l == LinkIn(s, "server")
             m == LinkIn(z, "server")
             v == Append(wc, f)
             h == GrantedBy(g, f)
             tc == TableOf(c, "client")
  <1>1. /\ IsStream(ws) /\ IsStream(wc) /\ Tabled(c, s, ws, wc, g)
        /\ Attended(ws, s, "server") /\ Granting(c, s, ws, wc, g, k)
        /\ Told(wc, s, "server", c, "client")
        /\ k = "client" \/ k = "server"
    BY Between
  <1>2. /\ LinkSaid(m, l, f) /\ Table(m) = Effect(Table(l), f) /\ f.body # "transfer"
    BY Sides DEF Saying, LinkSaid, IsFrameOf
  <1>3. Token(f) => NoToken(wc) /\ NoToken(ws)
    BY TurnAlone DEF Keeps
  <1>4. /\ Still(wc) => Tracked(ws, Table(l), tc)
        /\ \A i \in Places(wc) : Moving(wc[i]) =>
               Quiet(ws) /\ Table(l) = Effect(tc, wc[i]) /\ Idle(c, wc[i], g)
    BY <1>1 DEF Tabled, TableOf
  <1>5. Still(v) <=> Still(wc) /\ ~Moving(f)
    BY <1>1, StillMoves
  <1>6. \A i \in Places(v) : \/ i \in Places(wc) /\ v[i] = wc[i]
                             \/ v[i] = f
    BY <1>1, StillMoves
  <1>7. Token(f) => Still(wc)
    BY <1>1, <1>3, StillMoves
  <1> HIDE DEF v, h, tc
  <1>8. CASE Moving(f)
    <2>1. /\ NoToken(wc) /\ NoToken(ws) /\ Tracked(ws, Table(l), tc)
          /\ Token(f) /\ MayTurn(s, "server", k)
      BY <1>3, <1>4, <1>7, <1>8 DEF Moving, Token, Keeps
    <2>2. /\ Up(c, "client") <=> Seen(s, "server")
          /\ Up(s, "server") <=> Seen(c, "client")
      BY <2>1, TurnAlone
    <2>3. Quiet(ws) /\ Table(l) = tc /\ Idle(c, f, h)
      <3>1. CASE f.body = "attach"
        <4>1. ~Up(s, "server") /\ (k = "server" => ~Seen(s, "server"))
          BY <2>1, <3>1 DEF Keeps, MayTurn
        <4>2. NoName(ws)
          BY <1>1, <2>1, <4>1, Nameless DEF Granting
        <4>3. Quiet(ws)
          BY <2>1, <4>2, Silent
        <4>4. Table(l) = tc
          BY <1>1, <2>1, <4>3, TrackedStands
        <4>5. Up(c, "client") => Fresh(LinkIn(c, "client"))
          BY <1>1, <2>2, <4>1 DEF Granting
        <4>6. Idle(c, f, h)
          BY <3>1, <4>5 DEF Idle, Fresh, Credit
        <4> QED
          BY <4>3, <4>4, <4>6
      <3>2. CASE f.body = "detach"
        <4>1. Up(s, "server") /\ f.error
          BY <1>8, <3>2 DEF Keeps, Moving
        <4>2. CASE k = "server"
          <5>1. /\ Seen(s, "server") /\ g = Count(s, "server") /\ l.delivery = Unset
            BY <2>1, <3>2, <4>1, <4>2 DEF Keeps, MayTurn
          <5>2. /\ Up(c, "client") /\ g = Count(c, "client") /\ Credit(c, "client") = 0
                /\ NoOpening(ws)
            BY <4>1, <5>1, UsedUp
          <5>3. Table(l).delivery = Unset
            BY <5>1, TableDelivery
          <5>4. Quiet(ws) /\ Table(l) = tc
            BY <1>1, <2>1, <5>2, <5>3, TrackedIdles
          <5>5. LinkIn(c, "client").delivery = Unset
            BY <5>3, <5>4, TableDelivery DEF tc, TableOf
          <5>6. h = g
            BY <3>2 DEF GrantedBy, Grant, h
          <5>7. Idle(c, f, h)
            BY <5>2, <5>5, <5>6 DEF Idle
          <5> QED
            BY <5>4, <5>7
        <4>3. CASE k = "client"
          <5>1. ~Seen(s, "server") /\ ~Up(c, "client")
            BY <2>1, <2>2, <4>1, <4>3 DEF MayTurn
          <5>2. NoName(ws)
            BY <1>1, <2>1, <5>1, Nameless
          <5>3. Quiet(ws)
            BY <2>1, <5>2, Silent
          <5>4. Table(l) = tc
            BY <1>1, <2>1, <5>3, TrackedStands
          <5>5. Idle(c, f, h)
            BY <5>1 DEF Idle
          <5> QED
            BY <5>3, <5>4, <5>5
        <4> QED
          BY <1>1, <4>2, <4>3
      <3> QED
        BY <1>8, <3>1, <3>2 DEF Moving
    <2>4. Table(m) = Effect(tc, f)
      BY <1>2, <2>3
    <2>5. ASSUME NEW i \in Places(v), Moving(v[i])
          PROVE  v[i] = f
      BY <1>6, <1>7, <1>8, <2>1, <2>5 DEF Still
    <2>6. ~Still(v)
      BY <1>5, <1>8
    <2> QED
      BY <2>3, <2>4, <2>5, <2>6 DEF Tabled, TableOf, v, h, tc
  <1>9. CASE ~Moving(f)
    <2>1. Table(m) = Table(l)
      <3>1. f.body # "attach" /\ (f.body = "detach" => ~f.error)
        BY <1>9 DEF Moving
      <3>2. Effect(Table(l), f) = Table(l)
        BY <1>2, <3>1 DEF Effect
      <3> QED
        BY <1>2, <3>2
    <2>2. Still(v) => Tracked(ws, Table(m), tc)
      BY <1>4, <1>5, <2>1
    <2>3. ASSUME NEW i \in Places(v), Moving(v[i])
          PROVE  Quiet(ws) /\ Table(m) = Effect(tc, v[i]) /\ Idle(c, v[i], h)
      <3>1. i \in Places(wc) /\ v[i] = wc[i]
        BY <1>6, <1>9, <2>3
      <3>2. Quiet(ws) /\ Table(l) = Effect(tc, v[i]) /\ Idle(c, v[i], g)
        BY <1>4, <2>3, <3>1
      <3>3. f.body # "attach"
        BY <1>9 DEF Moving
      <3>4. v[i].body = "detach" => h = g
        <4>1. Token(wc[i]) /\ (wc[i].body = "attach" <=> Up(s, "server"))
          BY <1>1, <2>3, <3>1 DEF Told, Moving, Token
        <4>2. v[i].body = "detach" => ~Up(s, "server")
          BY <3>1, <4>1
        <4>3. Grant(f) => Up(s, "server")
          BY DEF Keeps
        <4> QED
          BY <3>3, <4>2, <4>3 DEF GrantedBy, h
      <3>5. Idle(c, v[i], h)
        BY <3>2, <3>4 DEF Idle
      <3> QED
        BY <2>1, <3>2, <3>5
    <2> QED
      BY <2>2, <2>3 DEF Tabled, TableOf, v, h, tc
  <1> QED
    BY <1>8, <1>9

\* The invariant, when the server says a frame.
LEMMA ServerSays ==
    ASSUME Measured, NEW c, NEW s, NEW bc, NEW bs, NEW ws, NEW wc, NEW g, NEW k,
           Core(c, s, bc, bs, ws, wc, g, k),
           NEW f, IsFrameOf(f, "server"), Tells(s, "server", f), Keeps(s, "server", bs, k, g, f),
           f.body = "attach" => f.handle <= DefaultHandleMax,
           NEW z, NEW b, Saying(s, z, "server", f, bs, b)
    PROVE  Core(c, z, bc, b, ws, Append(wc, f), GrantedBy(g, f), k)
  <1>1. /\ "server" \in Peers /\ "client" = Other("server")
    BY Sides DEF Peers
  <1>2. /\ SessionShape(c, "client") /\ StageShape(c, "client", bc) /\ StageShape(s, "server", bs)
        /\ Way(ws, c, "client", bc, s, "server", bs) /\ Way(wc, s, "server", bs, c, "client", bc)
        /\ Numbers(c, s, bc, bs, ws, wc) /\ k \in Peers
    BY DEF Core
  <1>3. Token(f) => NoToken(wc) /\ MayTurn(s, "server", k)
    BY TurnAlone DEF Keeps
  <1>4. Named(f) => Up(s, "server")
    BY DEF Named, Keeps, Saying, LinkSaid, Up
  <1>5. f.body = "attach" => ~Up(s, "server")
    BY DEF Keeps
  <1>6. Way(Append(wc, f), z, "server", b, c, "client", bc)
    BY <1>1, <1>2, <1>3, <1>4, <1>5, WayMore
  <1>7. Way(ws, c, "client", bc, z, "server", b)
    BY <1>2, WayKept
  <1>8. Numbers(c, z, bc, b, ws, Append(wc, f))
    <2>1. IsStream(wc)
      BY Between
    <2> QED
      BY <1>2, <2>1, NumbersServerSays DEF Keeps
  <1>9. Turns(c, "client", z, "server", ws, Append(wc, f), k)
    <2>1. Turns(z, "server", c, "client", Append(wc, f), ws, k)
      BY <1>1, <1>2, <1>3, <1>5, Between, TurnsSaid
    <2> QED
      BY <2>1, TurnsSwap
  <1>10. SessionShape(z, "server") /\ StageShape(z, "server", b)
    BY DEF Saying
  <1> QED
    BY <1>2, <1>6, <1>7, <1>8, <1>9, <1>10, ServerSaysGrants, ServerSaysTables DEF Core

-----------------------------------------------------------------------------
(* What the client hears. *)

\* A grant gives the client its credit, and nothing else does.
Granted(c, z, f, wc, g) ==
    /\ ~Grant(f) /\ Up(c, "client") =>
           Count(z, "client") = Count(c, "client") /\ Credit(z, "client") = Credit(c, "client")
    /\ Grant(f) => /\ Seen(c, "client")
                   /\ Owed(wc, Count(c, "client"), Credit(c, "client"), g)
                   /\ Count(z, "client") = Count(c, "client")
                   /\ Credit(z, "client") = f.credit
                   /\ f.count = Count(c, "client")

\* The grants, when the client hears a frame.
LEMMA ClientHearsGrants ==
    ASSUME NEW c, NEW s, NEW bc, NEW bs, NEW ws, NEW wc, wc # <<>>, NEW g, NEW k,
           Core(c, s, bc, bs, ws, wc, g, k),
           NEW z, Hearing(c, z, "client", Head(wc), bc)
    PROVE  Granting(z, s, ws, Tail(wc), g, k) /\ Granted(c, z, Head(wc), wc, g)
  <1> DEFINE f == Head(wc)
             l == LinkIn(c, "client")
             m == LinkIn(z, "client")
             v == Tail(wc)
  <1>1. /\ IsStream(ws) /\ IsStream(wc)
        /\ Attended(wc, c, "client")
        /\ Granting(c, s, ws, wc, g, k)
        /\ k = "client" \/ k = "server"
        /\ Up(c, "client") => /\ Count(c, "client") \in Nat /\ Credit(c, "client") \in Nat
                              /\ l.position # Unset
    BY Between
  <1>2. /\ g \in Nat
        /\ ~NoGrant(wc) => Up(c, "client")
        /\ Up(c, "client") /\ (Up(s, "server") \/ k = "server") =>
               Owed(wc, Count(c, "client"), Credit(c, "client"), g)
        /\ k = "client" /\ Up(c, "client") /\ ~Up(s, "server") => Fresh(l)
        /\ Up(s, "server") => Reckoned(c, s, ws, g, k)
        /\ k = "client" /\ ~Up(s, "server") => NoName(ws)
    BY <1>1 DEF Granting
  <1>3. LinkHeard(m, l, "client", f)
    BY DEF Hearing
  <1>4. f.body # "transfer" /\ f.body \in Bodies
    BY FramedLess, Sides DEF Core, Way, IsFrameOf
  <1>5. NoGrant(wc) <=> NoGrant(v) /\ ~Grant(f)
    BY <1>1, StillLess
  <1>6. \A cc, cr : Owed(wc, cc, cr, g) =>
            /\ ~Grant(f) => Owed(v, cc, cr, g)
            /\ Grant(f) => Owed(v, cc, f.credit, g) /\ f.count = cc /\ f.credit \in Nat
    BY <1>1, OwedLess
  <1>7. Grant(f) => Seen(c, "client")
    BY <1>1, NamedFirst DEF Named
  <1> HIDE DEF v, f
  <1>8. (Up(z, "client") <=> Up(c, "client")) /\ (l.delivery = Unset => m.delivery = Unset)
    BY <1>3, <1>4, EffectIdle DEF LinkHeard, Up
  <1>9. CASE Grant(f)
    <2>1. Up(c, "client") /\ Seen(c, "client")
      BY <1>2, <1>5, <1>7, <1>9
    <2>2. Up(s, "server") \/ k = "server"
      BY <2>1, LetGo
    <2>3. Owed(wc, Count(c, "client"), Credit(c, "client"), g)
      BY <1>2, <2>1, <2>2
    <2>4. Owed(v, Count(c, "client"), f.credit, g) /\ f.count = Count(c, "client") /\ f.credit \in Nat
      BY <1>6, <1>9, <2>3
    <2>5. Count(z, "client") = Count(c, "client") /\ Credit(z, "client") = f.credit
      <3>1. GrantHeard(m, l, f)
        BY <1>3, <1>9 DEF LinkHeard, Grant
      <3>2. /\ m.position.count = l.position.count
            /\ m.position.credit = Minus(f.count + f.credit, l.position.count)
        BY <1>1, <2>1, <3>1 DEF GrantHeard
      <3>3. Count(c, "client") \in Nat /\ f.credit \in Nat /\ f.count = l.position.count
        BY <1>1, <2>1, <2>4 DEF Count
      <3>4. Minus(f.count + f.credit, l.position.count) = f.credit
        BY <3>3 DEF Minus, Count
      <3> QED
        BY <3>2, <3>4 DEF Count, Credit
    <2>6. k = "client" => Up(s, "server")
      BY <2>2
    <2>7. Reckoned(c, s, ws, g, k) => Reckoned(z, s, ws, g, k)
      BY <1>8, <2>1, <2>5 DEF Reckoned, Reckons
    <2> QED
      BY <1>2, <1>8, <1>9, <2>1, <2>3, <2>4, <2>5, <2>6, <2>7 DEF Granting, Granted, v, f
  <1>10. CASE ~Grant(f)
    <2>1. Up(c, "client") => m.position = l.position
      BY <1>1, <1>3, <1>4, <1>10 DEF LinkHeard, Grant, Bodies
    <2>2. Up(c, "client") => /\ Count(z, "client") = Count(c, "client")
                             /\ Credit(z, "client") = Credit(c, "client")
                             /\ (Fresh(l) => Fresh(m))
      BY <1>8, <2>1 DEF Count, Credit, Fresh
    <2>3. Reckoned(c, s, ws, g, k) => Reckoned(z, s, ws, g, k)
      BY <1>8, <2>2 DEF Reckoned, Reckons
    <2> QED
      BY <1>2, <1>5, <1>6, <1>8, <1>10, <2>2, <2>3 DEF Granting, Granted, v, f
  <1> QED
    BY <1>9, <1>10

\* The tables, when the client hears a frame.
LEMMA ClientHearsTables ==
    ASSUME NEW c, NEW s, NEW bc, NEW bs, NEW ws, NEW wc, wc # <<>>, NEW g, NEW k,
           Core(c, s, bc, bs, ws, wc, g, k),
           NEW z, Hearing(c, z, "client", Head(wc), bc)
    PROVE  Tabled(z, s, ws, Tail(wc), g)
  <1> DEFINE f == Head(wc)
             l == LinkIn(c, "client")
             m == LinkIn(z, "client")
             v == Tail(wc)
             ts == TableOf(s, "server")
  <1>1. /\ IsStream(ws) /\ IsStream(wc) /\ Tabled(c, s, ws, wc, g)
        /\ Told(wc, s, "server", c, "client")
    BY Between
  <1>2. /\ Table(m) = Effect(Table(l), f) /\ (Up(z, "client") <=> Up(c, "client"))
    BY DEF Hearing, LinkHeard, Up
  <1>3. f.body # "transfer"
    BY FramedLess, Sides DEF Core, Way, IsFrameOf
  <1>4. /\ Still(wc) => Tracked(ws, ts, Table(l))
        /\ \A i \in Places(wc) : Moving(wc[i]) =>
               Quiet(ws) /\ ts = Effect(Table(l), wc[i]) /\ Idle(c, wc[i], g)
    BY <1>1 DEF Tabled, TableOf
  <1>5. /\ Still(wc) <=> Still(v) /\ ~Moving(f)
        /\ 1 \in Places(wc) /\ f = wc[1]
        /\ \A i \in Places(v) : i + 1 \in Places(wc) /\ v[i] = wc[i + 1] /\ i + 1 # 1
    BY <1>1, StillLess
  <1>6. /\ \A i, j \in Places(wc) : Token(wc[i]) /\ Token(wc[j]) => i = j
        /\ \A i \in Places(wc) : Token(wc[i]) => /\ wc[i].body = "attach" <=> Up(s, "server")
                                                 /\ Up(s, "server") <=> ~Seen(c, "client")
    BY <1>1 DEF Told
  <1>7. Granted(c, z, f, wc, g)
    BY ClientHearsGrants
  <1>8. /\ ~Grant(f) /\ Up(c, "client") =>
               Count(z, "client") = Count(c, "client") /\ Credit(z, "client") = Credit(c, "client")
        /\ Grant(f) => /\ Seen(c, "client")
                       /\ Owed(wc, Count(c, "client"), Credit(c, "client"), g)
                       /\ Count(z, "client") = Count(c, "client")
                       /\ Credit(z, "client") = f.credit
    BY <1>7 DEF Granted
  <1>9. \A i : Moving(wc[i]) => Token(wc[i])
    BY DEF Moving, Token
  <1> HIDE DEF v, f, ts
  <1>10. CASE Moving(f)
    <2>1. Quiet(ws) /\ ts = Table(m)
      BY <1>2, <1>4, <1>5, <1>10
    <2>2. \A i \in Places(v) : ~Moving(v[i])
      BY <1>5, <1>6, <1>9, <1>10
    <2>3. Tracked(ws, ts, Table(m))
      BY <1>1, <2>1, TrackedStands
    <2> QED
      BY <2>2, <2>3 DEF Tabled, TableOf, v, ts
  <1>11. CASE ~Moving(f)
    <2>1. Effect(Table(l), f) = Table(l)
      BY <1>3, <1>11 DEF Effect, Moving
    <2>2. Table(m) = Table(l)
      BY <1>2, <2>1
    <2>3. m.delivery = l.delivery
      BY <2>2, TableDelivery
    <2>4. ASSUME NEW i \in Places(v), Moving(v[i])
          PROVE  Quiet(ws) /\ ts = Effect(Table(m), v[i]) /\ Idle(z, v[i], g)
      <3>1. i + 1 \in Places(wc) /\ v[i] = wc[i + 1] /\ Token(wc[i + 1])
        BY <1>5, <1>9, <2>4
      <3>2. Quiet(ws) /\ ts = Effect(Table(l), v[i]) /\ Idle(c, v[i], g)
        BY <1>4, <2>4, <3>1
      <3>3. ASSUME Up(c, "client")
            PROVE  /\ Credit(z, "client") = 0
                   /\ v[i].body = "detach" => g = Count(z, "client")
        <4>1. /\ Credit(c, "client") = 0
              /\ v[i].body = "detach" => g = Count(c, "client")
          BY <3>2, <3>3 DEF Idle
        <4>2. CASE ~Grant(f)
          <5>1. Count(z, "client") = Count(c, "client") /\ Credit(z, "client") = Credit(c, "client")
            BY <1>8, <3>3, <4>2
          <5> QED
            BY <4>1, <5>1
        <4>3. CASE Grant(f)
          <5>1. v[i].body = "detach"
            BY <1>6, <1>8, <3>1, <4>3 DEF Token
          <5>2. g = Count(c, "client") /\ g \in Nat
            BY <1>8, <4>1, <4>3, <5>1 DEF Owed
          <5>3. f.credit = 0
            BY <1>5, <1>8, <4>3, <5>2, OwedSpent
          <5> QED
            BY <1>8, <4>3, <5>2, <5>3
        <4> QED
          BY <4>2, <4>3
      <3>4. Idle(z, v[i], g)
        BY <1>2, <2>3, <3>2, <3>3 DEF Idle
      <3> QED
        BY <2>2, <3>2, <3>4
    <2>5. Still(v) => Tracked(ws, ts, Table(m))
      BY <1>4, <1>5, <1>11, <2>2
    <2> QED
      BY <2>4, <2>5 DEF Tabled, TableOf, v, ts
  <1> QED
    BY <1>10, <1>11

\* The invariant, when the client hears a frame.
LEMMA ClientHears ==
    ASSUME Measured, NEW c, NEW s, NEW bc, NEW bs, NEW ws, NEW wc, wc # <<>>, NEW g, NEW k,
           Core(c, s, bc, bs, ws, wc, g, k),
           NEW z, Hearing(c, z, "client", Head(wc), bc)
    PROVE  Core(z, s, bc, bs, ws, Tail(wc), g, k)
  <1>1. /\ StageShape(c, "client", bc) /\ SessionShape(s, "server") /\ StageShape(s, "server", bs)
        /\ Way(ws, c, "client", bc, s, "server", bs) /\ Way(wc, s, "server", bs, c, "client", bc)
        /\ Numbers(c, s, bc, bs, ws, wc) /\ k \in Peers
    BY DEF Core
  <1>2. Way(Tail(wc), s, "server", bs, z, "client", bc)
    BY <1>1, WayLess
  <1>3. Way(ws, z, "client", bc, s, "server", bs)
    BY <1>1, WayKept
  <1>4. HeardIn(s, bs) <= SaidIn(c, bc) /\ IsStream(ws) /\ IsStream(wc)
    BY <1>1 DEF Way, Framed
  <1>5. Numbers(z, s, bc, bs, ws, Tail(wc))
    BY <1>1, <1>4, NumbersClientHears
  <1>6. Turns(z, "client", s, "server", ws, Tail(wc), k)
    BY <1>4, TurnsHeard DEF Core
  <1>7a. SessionShape(z, "client") /\ StageShape(z, "client", bc)
    BY DEF Hearing
  <1> QED
    BY <1>1, <1>2, <1>3, <1>5, <1>6, <1>7a, ClientHearsGrants, ClientHearsTables DEF Core

-----------------------------------------------------------------------------
(* What the server hears. *)

\* A transfer opens a delivery when none is in progress where it is heard.
LEMMA OpensHeard ==
    ASSUME NEW c, NEW s, NEW bc, NEW bs, NEW ws, NEW wc, ws # <<>>, NEW g, NEW k,
           Core(c, s, bc, bs, ws, wc, g, k), Head(ws).body = "transfer"
    PROVE  /\ Opens(Head(ws)) <=> LinkIn(s, "server").delivery = Unset
           /\ Accepts(TableOf(s, "server"), Head(ws))
  <1> DEFINE f == Head(ws)
             ts == TableOf(s, "server")
  <1>1. IsStream(ws) /\ Tabled(c, s, ws, wc, g)
    BY Between
  <1>2. ~Quiet(ws)
    BY <1>1, StillLess
  <1>3. Still(wc)
    BY <1>1, <1>2 DEF Tabled, Still
  <1>4. Tracked(ws, ts, TableOf(c, "client"))
    BY <1>1, <1>3 DEF Tabled
  <1>5. TableStep(f, ts, Effect(ts, f))
    BY <1>1, <1>4, TrackedLess
  <1>6. ts.delivery = LinkIn(s, "server").delivery
    BY TableDelivery DEF TableOf
  <1> HIDE DEF f, ts
  <1>7. Accepts(ts, f) /\ (f.deliveryId # Unset <=> ts.delivery = Unset)
    BY <1>5 DEF TableStep, f
  <1> QED
    BY <1>6, <1>7 DEF Opens, f, ts

\* The grants, when the server hears a frame.
LEMMA ServerHearsGrants ==
    ASSUME NEW c, NEW s, NEW bc, NEW bs, NEW ws, NEW wc, ws # <<>>, NEW g, NEW k,
           Core(c, s, bc, bs, ws, wc, g, k),
           NEW z, Hearing(s, z, "server", Head(ws), bs)
    PROVE  Granting(c, z, Tail(ws), wc, g, k)
  <1> DEFINE f == Head(ws)
             l == LinkIn(s, "server")
             m == LinkIn(z, "server")
             v == Tail(ws)
  <1>1. /\ IsStream(ws) /\ Granting(c, s, ws, wc, g, k)
        /\ Up(s, "server") => Count(s, "server") \in Nat /\ l.position # Unset
    BY Between
  <1>2. /\ g \in Nat
        /\ ~NoGrant(wc) => Up(c, "client")
        /\ Up(c, "client") /\ (Up(s, "server") \/ k = "server") =>
               Owed(wc, Count(c, "client"), Credit(c, "client"), g)
        /\ k = "client" /\ Up(c, "client") /\ ~Up(s, "server") => Fresh(LinkIn(c, "client"))
        /\ Up(s, "server") => Reckoned(c, s, ws, g, k)
        /\ k = "client" /\ ~Up(s, "server") => NoName(ws)
    BY <1>1 DEF Granting
  <1>3. LinkHeard(m, l, "server", f)
    BY DEF Hearing
  <1>4. f.body \in Bodies
    BY FramedLess DEF Core, Way, IsFrameOf
  <1>5. f.body = "transfer" => (Opens(f) <=> l.delivery = Unset)
    BY OpensHeard
  <1>6. NoName(ws) => NoName(v)
    BY <1>1, TokensLess
  <1>7. \A n : Counted(ws, Count(s, "server"), n) =>
               \E a : CountStep(f, Count(s, "server"), a) /\ Counted(v, a, n)
    BY <1>1, CountedLess
  <1> HIDE DEF v, f
  <1>8. Up(z, "server") <=> Up(s, "server")
    BY <1>3 DEF LinkHeard, Up
  <1>9. ASSUME Up(s, "server"), NEW a, CountStep(f, Count(s, "server"), a)
        PROVE  Count(z, "server") = a
    <2>1. l.position # Unset
      BY <1>1, <1>9
    <2>2. CASE f.body = "transfer"
      <3>1. Counts(m, l)
        BY <1>3, <2>2 DEF LinkHeard
      <3>2. /\ l.delivery # Unset => Count(z, "server") = Count(s, "server")
            /\ l.delivery = Unset => Count(z, "server") = Count(s, "server") + 1
        BY <2>1, <3>1 DEF Counts, Count
      <3> QED
        BY <1>5, <1>9, <2>2, <3>2 DEF CountStep
    <2>3. CASE Grant(f)
      <3>1. CountHeard(m, l, f)
        BY <1>3, <2>3 DEF LinkHeard, Grant
      <3>2. Count(z, "server") = f.count
        BY <2>1, <3>1 DEF CountHeard, Count
      <3>3. ~Opens(f)
        BY <2>3 DEF Opens, Grant
      <3> QED
        BY <1>9, <2>3, <3>2, <3>3 DEF CountStep
    <2>4. CASE f.body # "transfer" /\ ~Grant(f)
      <3>1. m.position = l.position
        BY <1>3, <1>4, <2>4 DEF LinkHeard, Grant, Bodies
      <3>2. Count(z, "server") = Count(s, "server")
        BY <3>1 DEF Count
      <3>3. ~Opens(f)
        BY <2>4 DEF Opens
      <3> QED
        BY <1>9, <3>2, <3>3 DEF CountStep
    <2> QED
      BY <2>2, <2>3, <2>4
  <1>10. ASSUME Up(s, "server")
         PROVE  Reckoned(c, z, v, g, k)
    <2>1. PICK n : Counted(ws, Count(s, "server"), n) /\ Reckons(c, n, g, k)
      BY <1>2, <1>10 DEF Reckoned
    <2>2. PICK a : CountStep(f, Count(s, "server"), a) /\ Counted(v, a, n)
      BY <1>7, <2>1
    <2>3. Count(z, "server") = a
      BY <1>9, <1>10, <2>2
    <2>4. Counted(v, Count(z, "server"), n)
      BY <2>2, <2>3
    <2> QED
      BY <2>1, <2>4 DEF Reckoned
  <1> QED
    BY <1>2, <1>6, <1>8, <1>10 DEF Granting, v

\* The tables, when the server hears a frame.
LEMMA ServerHearsTables ==
    ASSUME NEW c, NEW s, NEW bc, NEW bs, NEW ws, NEW wc, ws # <<>>, NEW g, NEW k,
           Core(c, s, bc, bs, ws, wc, g, k),
           NEW z, Hearing(s, z, "server", Head(ws), bs)
    PROVE  Tabled(c, z, Tail(ws), wc, g)
  <1> DEFINE f == Head(ws)
             v == Tail(ws)
             ts == TableOf(s, "server")
             tc == TableOf(c, "client")
  <1>1. IsStream(ws) /\ Tabled(c, s, ws, wc, g)
    BY Between
  <1>2. TableOf(z, "server") = Effect(ts, f)
    BY DEF Hearing, LinkHeard, TableOf
  <1>3. /\ Still(wc) => Tracked(ws, ts, tc)
        /\ \A i \in Places(wc) : Moving(wc[i]) =>
               Quiet(ws) /\ ts = Effect(tc, wc[i]) /\ Idle(c, wc[i], g)
    BY <1>1 DEF Tabled
  <1>4. Tracked(ws, ts, tc) => Tracked(v, Effect(ts, f), tc)
    BY <1>1, TrackedLess
  <1>5. Quiet(ws) => Quiet(v) /\ ~Token(f) /\ f.body # "transfer"
    BY <1>1, StillLess
  <1> HIDE DEF v, f, ts, tc
  <1>6. Quiet(ws) => Effect(ts, f) = ts
    BY <1>5, EffectPlain
  <1>7. \A i \in Places(wc) : Moving(wc[i]) =>
            Quiet(v) /\ Effect(ts, f) = Effect(tc, wc[i]) /\ Idle(c, wc[i], g)
    BY <1>3, <1>5, <1>6
  <1>8. Still(wc) => Tracked(v, Effect(ts, f), tc)
    BY <1>3, <1>4
  <1> QED
    BY <1>2, <1>7, <1>8 DEF Tabled, v, tc

\* The invariant, when the server hears a frame.
LEMMA ServerHears ==
    ASSUME Measured, NEW c, NEW s, NEW bc, NEW bs, NEW ws, NEW wc, ws # <<>>, NEW g, NEW k,
           Core(c, s, bc, bs, ws, wc, g, k),
           NEW z, Hearing(s, z, "server", Head(ws), bs)
    PROVE  Core(c, z, bc, bs, Tail(ws), wc, g, k)
  <1>1. /\ StageShape(c, "client", bc) /\ SessionShape(c, "client") /\ StageShape(s, "server", bs)
        /\ Way(ws, c, "client", bc, s, "server", bs) /\ Way(wc, s, "server", bs, c, "client", bc)
        /\ Numbers(c, s, bc, bs, ws, wc) /\ k \in Peers
    BY DEF Core
  <1>2. Way(Tail(ws), c, "client", bc, z, "server", bs)
    BY <1>1, WayLess
  <1>3. Way(wc, z, "server", bs, c, "client", bc)
    BY <1>1, WayKept
  <1>4. HeardIn(c, bc) <= SaidIn(s, bs) /\ IsStream(ws) /\ IsStream(wc)
    BY <1>1 DEF Way, Framed
  <1>5. Numbers(c, z, bc, bs, Tail(ws), wc)
    BY <1>1, <1>4, NumbersServerHears
  <1>6. Turns(c, "client", z, "server", Tail(ws), wc, k)
    <2>1. Turns(s, "server", c, "client", wc, ws, k)
      BY Between
    <2>2. Turns(z, "server", c, "client", wc, Tail(ws), k)
      BY <1>4, <2>1, TurnsHeard
    <2> QED
      BY <2>2, TurnsSwap
  <1>7. SessionShape(z, "server") /\ StageShape(z, "server", bs)
    BY DEF Hearing
  <1> QED
    BY <1>1, <1>2, <1>3, <1>5, <1>6, <1>7, ServerHearsGrants, ServerHearsTables DEF Core

-----------------------------------------------------------------------------
(* What is on its way is heard. *)

\* What stands first on a way finds its hearer ready for it.
LEMMA Arriving ==
    ASSUME NEW q \in Peers, NEW p, q = Other(p), NEW x, NEW a, NEW y, NEW b, NEW w, w # <<>>,
           StageShape(x, q, a), StageShape(y, p, b), Way(w, x, q, a, y, p, b),
           HeardIn(x, a) <= SaidIn(y, b)
    PROVE  /\ IsFrameOf(Head(w), q) /\ Head(w).channel = Channel(Other(p)) /\ Head(w).complete
           /\ Head(w).body = "begin" => HeardIn(y, b) = 0
           /\ Head(w).body # "begin" => HeardIn(y, b) = 1
           /\ Head(w).body = "end" => SaidIn(y, b) # 0
           /\ Head(w).body = "attach" => Head(w).handle <= DefaultHandleMax
           /\ Head(w).body = "detach" => Seen(y, p)
           /\ Named(Head(w)) => Seen(y, p)
  <1> DEFINE f == Head(w)
  <1>1. /\ Framed(w, q) /\ IsStream(w)
        /\ Ordered(w, SaidIn(x, a), HeardIn(y, b))
        /\ Told(w, x, q, y, p) /\ Attended(w, y, p)
    BY DEF Way, Framed
  <1>2. 1 \in Places(w) /\ f = w[1]
    BY <1>1, StillLess
  <1>3. /\ IsFrameOf(f, q)
        /\ f.body = "attach" => f.handle <= DefaultHandleMax
    BY <1>1, FramedLess
  <1>4. Named(f) => Seen(y, p)
    BY <1>1, NamedFirst
  <1> HIDE DEF f
  <1>5. /\ HeardIn(y, b) \in 0 .. 1
        /\ f.body = "begin" <=> HeardIn(y, b) = 0
        /\ f.body = "end" => SaidIn(x, a) = 2
    <2>1. HeardIn(y, b) \in 0 .. 2
      BY Stages
    <2> QED
      BY <1>1, <1>2, <2>1 DEF Ordered
  <1>6. SaidIn(x, a) = 2 => HeardIn(x, a) # 0
    <2>1. x.state \in {"UNMAPPED", "BEGIN_SENT", "BEGIN_RCVD", "MAPPED", "END_RCVD", "END_SENT"}
      BY DEF StageShape, SessionStates
    <2> QED
      BY <2>1, Stages
  <1>7. f.body = "end" => SaidIn(y, b) # 0
    BY <1>5, <1>6, Stages
  <1>8. f.body = "detach" => Seen(y, p)
    BY <1>1, <1>2 DEF Told, Token
  <1>9. f.channel = Channel(Other(p)) /\ f.complete
    BY <1>3 DEF IsFrameOf
  <1> QED
    BY <1>3, <1>4, <1>5, <1>7, <1>8, <1>9 DEF f

\* The client takes what stands first on its way.
LEMMA ClientHearing ==
    ASSUME NEW c, NEW s, NEW bc, NEW bs, NEW ws, NEW wc, wc # <<>>, NEW g, NEW k,
           Core(c, s, bc, bs, ws, wc, g, k)
    PROVE  \E z : Hearing(c, z, "client", Head(wc), bc)
  <1> DEFINE f == Head(wc)
  <1>1. "client" \in Peers /\ "server" \in Peers /\ "server" = Other("client")
    BY Sides DEF Peers
  <1>2. /\ SessionShape(c, "client") /\ StageShape(c, "client", bc) /\ StageShape(s, "server", bs)
        /\ Way(wc, s, "server", bs, c, "client", bc)
        /\ HeardIn(s, bs) <= SaidIn(c, bc)
    BY DEF Core, Way
  <1>3. /\ IsFrameOf(f, "server") /\ f.channel = Channel(Other("client")) /\ f.complete
        /\ f.body = "begin" => HeardIn(c, bc) = 0
        /\ f.body # "begin" => HeardIn(c, bc) = 1
        /\ f.body = "end" => SaidIn(c, bc) # 0
        /\ f.body = "attach" => f.handle <= DefaultHandleMax
        /\ f.body = "detach" => Seen(c, "client")
        /\ Named(f) => Seen(c, "client")
    BY <1>1, <1>2, Arriving
  <1>4. /\ IsStream(wc) /\ Granting(c, s, ws, wc, g, k) /\ (k = "client" \/ k = "server")
    BY Between
  <1>5. Grant(f) => ~NoGrant(wc)
    BY <1>4, StillLess
  <1>6. \A cc, cr : Owed(wc, cc, cr, g) /\ Grant(f) => f.count = cc
    BY <1>4, OwedLess
  <1> HIDE DEF f
  <1>7. Grant(f) => Seen(c, "client") /\ Up(c, "client") /\ f.count = Count(c, "client")
    <2>1. SUFFICES ASSUME Grant(f)
                   PROVE  Seen(c, "client") /\ Up(c, "client") /\ f.count = Count(c, "client")
      OBVIOUS
    <2>2. Seen(c, "client") /\ Up(c, "client")
      BY <1>3, <1>4, <1>5, <2>1 DEF Named, Granting
    <2>3. Up(s, "server") \/ k = "server"
      BY <2>2, LetGo
    <2>4. Owed(wc, Count(c, "client"), Credit(c, "client"), g)
      BY <1>4, <2>2, <2>3 DEF Granting
    <2> QED
      BY <1>6, <2>1, <2>2, <2>4
  <1>8. CASE f.body = "begin"
    BY <1>1, <1>2, <1>3, <1>8, BeginHeard DEF IsFrameOf, f
  <1>9. CASE f.body = "end"
    BY <1>1, <1>2, <1>3, <1>9, EndHeard DEF f
  <1>10. CASE f.body = "attach"
    BY <1>1, <1>2, <1>3, <1>10, AttachIsHeard DEF IsFrameOf, f
  <1>11. CASE f.body = "detach"
    BY <1>1, <1>2, <1>3, <1>11, DetachHeard DEF IsFrameOf, f
  <1>12. CASE f.body = "flow"
    <2>1. IsFlow(f, Other("client"))
      BY <1>1, <1>3, <1>12 DEF IsFrameOf
    <2>2. f.handle # Unset => Seen(c, "client") /\ Up(c, "client") /\ f.count = Count(c, "client")
      BY <1>7, <1>12 DEF Grant
    <2> QED
      BY <1>1, <1>2, <1>3, <1>12, <2>1, <2>2, FlowIsHeard DEF f
  <1> QED
    BY <1>3, <1>8, <1>9, <1>10, <1>11, <1>12, Sides DEF IsFrameOf, Bodies

\* The server takes what stands first on its way: its window is open, for
\* there is no more in flight than the client was told of.
LEMMA ServerHearing ==
    ASSUME Measured, NEW c, NEW s, NEW bc, NEW bs, NEW ws, NEW wc, ws # <<>>, NEW g, NEW k,
           Core(c, s, bc, bs, ws, wc, g, k)
    PROVE  \E z : Hearing(s, z, "server", Head(ws), bs)
  <1> DEFINE f == Head(ws)
  <1>1. "client" \in Peers /\ "server" \in Peers /\ "client" = Other("server")
    BY Sides DEF Peers
  <1>2. /\ SessionShape(s, "server") /\ StageShape(s, "server", bs) /\ StageShape(c, "client", bc)
        /\ Way(ws, c, "client", bc, s, "server", bs)
        /\ HeardIn(c, bc) <= SaidIn(s, bs)
        /\ Numbers(c, s, bc, bs, ws, wc)
    BY DEF Core, Way
  <1>3. /\ IsFrameOf(f, "client") /\ f.channel = Channel(Other("server")) /\ f.complete
        /\ f.body = "begin" => HeardIn(s, bs) = 0
        /\ f.body # "begin" => HeardIn(s, bs) = 1
        /\ f.body = "end" => SaidIn(s, bs) # 0
        /\ f.body = "attach" => f.handle <= DefaultHandleMax
        /\ f.body = "detach" => Seen(s, "server")
        /\ Named(f) => Seen(s, "server")
    BY <1>1, <1>2, Arriving
  <1>4. IsStream(ws) /\ Granting(c, s, ws, wc, g, k)
    BY Between
  <1>5. \A n : Counted(ws, Count(s, "server"), n) =>
            \E a : CountStep(f, Count(s, "server"), a) /\ Counted(Tail(ws), a, n)
    BY <1>4, CountedLess
  <1>6. f.body = "transfer" => Accepts(TableOf(s, "server"), f)
    BY OpensHeard
  <1>7. f.body = "transfer" => s.windows.incoming > 0
    BY <1>2, <1>3, TransferRoom
  <1> HIDE DEF f
  <1>8. Grant(f) /\ LinkIn(s, "server").position # Unset => f.count = Count(s, "server")
    <2>1. SUFFICES ASSUME Grant(f), LinkIn(s, "server").position # Unset
                   PROVE  f.count = Count(s, "server")
      OBVIOUS
    <2>2. Up(s, "server")
      BY <1>2, <2>1, Placing
    <2>3. PICK n : Counted(ws, Count(s, "server"), n)
      BY <1>4, <2>2 DEF Granting, Reckoned
    <2>4. PICK a : CountStep(f, Count(s, "server"), a)
      BY <1>5, <2>3
    <2> QED
      BY <2>1, <2>4 DEF CountStep
  <1>9. CASE f.body = "begin"
    BY <1>1, <1>2, <1>3, <1>9, BeginHeard DEF IsFrameOf, f
  <1>10. CASE f.body = "end"
    BY <1>1, <1>2, <1>3, <1>10, EndHeard DEF f
  <1>11. CASE f.body = "attach"
    BY <1>1, <1>2, <1>3, <1>11, AttachIsHeard DEF IsFrameOf, f
  <1>12. CASE f.body = "detach"
    BY <1>1, <1>2, <1>3, <1>12, DetachHeard DEF IsFrameOf, f
  <1>13. CASE f.body = "flow"
    <2>1. IsFlow(f, Other("server"))
      BY <1>1, <1>3, <1>13 DEF IsFrameOf
    <2>2. f.handle # Unset =>
              /\ Seen(s, "server")
              /\ LinkIn(s, "server").position # Unset => f.count = Count(s, "server")
      BY <1>3, <1>8, <1>13 DEF Grant, Named
    <2> QED
      BY <1>1, <1>2, <1>3, <1>13, <2>1, <2>2, FlowIsHeard DEF f
  <1>14. CASE f.body = "transfer"
    <2>1. IsTransfer(f) /\ Seen(s, "server") /\ Accepts(Table(LinkIn(s, "server")), f)
      BY <1>3, <1>6, <1>14 DEF IsFrameOf, Named, TableOf
    <2> QED
      BY <1>1, <1>2, <1>3, <1>7, <1>14, <2>1, TransferHeard DEF f
  <1> QED
    BY <1>3, <1>9, <1>10, <1>11, <1>12, <1>13, <1>14 DEF IsFrameOf, Bodies

-----------------------------------------------------------------------------
(* A session that ended with an error reads no more than its partner's end.    *)
(* Beside it stands what it would be, had it ended without one: x for r.       *)

\* r ended with an error where x did not.  It has read nothing since.
Apart(r, x, p) ==
    /\ IsSession(r) /\ r.windows \in Windows
    /\ \/ /\ r.state = "DISCARDING" /\ x.state = "END_SENT"
          /\ r.incoming = Channel(Other(p))
          /\ p = "client" => r.windows.nextOutgoing + r.windows.remoteIncoming = Room
       \/ r.state = "UNMAPPED" /\ x.state = "UNMAPPED" /\ ~r.peerBegun
    /\ p = "client" => r.windows.nextOutgoing = x.windows.nextOutgoing

\* x is what r is, or would be.
Mirrors(r, x, p, b) == r = x \/ (b = 1 /\ Apart(r, x, p))

\* What a session of the pair answers when it is told f.
Answer(r, f) == SessionStep(r, FALSE, f)

\* Nothing heard moves the ids of what is said.
LEMMA SameOutgoing ==
    ASSUME NEW w \in Windows, NEW f
    PROVE  /\ AfterReceivingFlow(w, f).nextOutgoing = w.nextOutgoing
           /\ AfterReceivingTransfer(w).nextOutgoing = w.nextOutgoing
  BY DEF AfterReceivingFlow, AfterReceivingTransfer, Windows

\* A session that has ended keeps its windows.
LEMMA UnmappedStands ==
    ASSUME NEW r, IsSession(r)
    PROVE  /\ IsSession(Unmapped(r)) /\ Unmapped(r).state = "UNMAPPED"
           /\ Unmapped(r).windows = r.windows /\ ~Unmapped(r).peerBegun
  <1> DEFINE y == Unmapped(r)
  <1>1. y = [r EXCEPT !.state = "UNMAPPED", !.outgoing = Unset, !.incoming = Unset,
                      !.peerBegun = FALSE]
    BY DEF Unmapped
  <1> HIDE DEF y
  <1>2. y.state = "UNMAPPED" /\ y.windows = r.windows /\ ~y.peerBegun
    BY <1>1 DEF IsSession
  <1>3. IsSession(y)
    BY <1>1 DEF IsSession
  <1> QED
    BY <1>2, <1>3 DEF y

\* r is x, after the end f.
EndsAs(x, f, r) == r = AfterEnd(x, TRUE, f)

\* An end that was taken from the application.
LEMMA EndSends ==
    ASSUME NEW x, NEW f, f.body = "end", NEW r, Sends(x, f, r)
    PROVE  EndsAs(x, f, r)
  <1>1. r = AfterEnd(x, TRUE, f)
    BY StepSends
  <1> QED
    BY <1>1 DEF EndsAs

\* An end, with an error or without, is mirrored by one without.
LEMMA MirrorsSent ==
    ASSUME NEW p \in Peers, NEW x, SessionShape(x, p), NEW b, StageShape(x, p, b), b = 1,
           x.state \in {"MAPPED", "END_RCVD"},
           p = "client" => x.windows.nextOutgoing + x.windows.remoteIncoming = Room,
           NEW f, f.error \in BOOLEAN, NEW r, EndsAs(x, f, r),
           NEW z, EndsPlainly(x, z)
    PROVE  Mirrors(r, z, p, b)
  <1>1. z = AfterEnd(x, TRUE, PlainEnd) /\ ~PlainEnd.error
    BY DEF EndsPlainly, PlainEnd
  <1>2. IsSession(x) /\ x.windows \in Windows
    BY DEF SessionShape
  <1>3. CASE x.state = "END_RCVD"
    <2>1. r = Unmapped(x) /\ z = Unmapped(x)
      BY <1>1, <1>3 DEF AfterEnd, EndsAs
    <2> QED
      BY <2>1 DEF Mirrors
  <1>4. CASE x.state = "MAPPED" /\ ~f.error
    <2>1. /\ r = [x EXCEPT !.state = "END_SENT", !.outgoing = Unset]
          /\ z = [x EXCEPT !.state = "END_SENT", !.outgoing = Unset]
      BY <1>1, <1>4 DEF AfterEnd, EndsAs
    <2> QED
      BY <2>1 DEF Mirrors
  <1>5. CASE x.state = "MAPPED" /\ f.error
    <2>1. /\ r = [x EXCEPT !.state = "DISCARDING", !.outgoing = Unset]
          /\ z = [x EXCEPT !.state = "END_SENT", !.outgoing = Unset]
      BY <1>1, <1>5 DEF AfterEnd, EndsAs
    <2>2. /\ IsSession(r) /\ r.state = "DISCARDING" /\ z.state = "END_SENT"
          /\ r.incoming = x.incoming /\ r.windows = x.windows /\ z.windows = x.windows
      BY <1>2, <2>1 DEF IsSession
    <2>3. x.incoming = Channel(Other(p))
      <3>1. HeardIn(x, b) = 1
        BY <1>5 DEF HeardIn
      <3> QED
        BY <3>1, Reads
    <2> QED
      BY <1>2, <2>2, <2>3 DEF Mirrors, Apart
  <1> QED
    BY <1>3, <1>4, <1>5

\* Whatever its partner sends, a session and what stands beside it take.
LEMMA MirrorsHeard ==
    ASSUME NEW p \in Peers, NEW x, SessionShape(x, p), NEW b, StageShape(x, p, b),
           NEW r, Mirrors(r, x, p, b),
           NEW f, IsFrameOf(f, Other(p)), NEW z, Hearing(x, z, p, f, b)
    PROVE  Answer(r, f).ok /\ Mirrors(Answer(r, f).session, z, p, b)
  <1>1. Answer(x, f) = Admitted(z)
    BY DEF Hearing, Hears, Answer
  <1>2. \A s : Admitted(s).ok /\ Admitted(s).session = s
    BY DEF Admitted
  <1>3. CASE r = x
    BY <1>1, <1>2, <1>3 DEF Mirrors
  <1>4. CASE b = 1 /\ Apart(r, x, p)
    <2>1. StageShape(z, p, b) /\ SaidIn(z, b) = SaidIn(x, b) /\ HeardIn(x, b) # 2
      BY DEF Hearing
    <2>2. x.state # "UNMAPPED"
      BY <1>4, <2>1 DEF HeardIn
    <2>3. /\ IsSession(r) /\ r.windows \in Windows
          /\ r.state = "DISCARDING" /\ x.state = "END_SENT"
          /\ r.incoming = Channel(Other(p))
          /\ p = "client" => r.windows.nextOutgoing + r.windows.remoteIncoming = Room
          /\ p = "client" => r.windows.nextOutgoing = x.windows.nextOutgoing
      BY <1>4, <2>2 DEF Apart
    <2>4. SaidIn(z, b) = 2 /\ f.body # "begin"
      BY <2>1, <2>3 DEF SaidIn, HeardIn, Hearing
    <2>5. p = "client" => z.windows.nextOutgoing = x.windows.nextOutgoing
      <3>1. WindowsHeard(z.windows, x.windows, f) /\ x.windows \in Windows
        BY DEF Hearing, SessionShape
      <3> QED
        BY <2>4, <3>1, SameOutgoing DEF WindowsHeard
    <2>6. CASE f.body = "end"
      <3>1. z.state = "UNMAPPED"
        <4>1. HeardIn(z, b) = 2
          BY <2>6 DEF Hearing
        <4> QED
          BY <2>1, <2>4, <4>1, Stages
      <3>2. Answer(r, f) = Admitted(Unmapped(r))
        <4>1. /\ ~FrameDiscarded(r, FALSE, f) /\ OnChannel(r, FALSE, f) /\ Permitted(r, FALSE, f)
              /\ f.complete
          BY <2>3, <2>6 DEF FrameDiscarded, OnChannel, Permitted, MayReceive, IsFrameOf
        <4>2. AfterEnd(r, FALSE, f) = Unmapped(r)
          BY <2>3 DEF AfterEnd
        <4> QED
          BY <2>6, <4>1, <4>2 DEF Answer, SessionStep
      <3>3. /\ IsSession(Unmapped(r)) /\ Unmapped(r).state = "UNMAPPED"
            /\ ~Unmapped(r).peerBegun /\ Unmapped(r).windows = r.windows
        BY <2>3, UnmappedStands
      <3>4. Apart(Unmapped(r), z, p)
        BY <2>3, <2>5, <3>1, <3>3 DEF Apart
      <3> QED
        BY <1>2, <1>4, <3>2, <3>4 DEF Mirrors
    <2>7. CASE f.body # "end"
      <3>1. z.state = "END_SENT"
        <4>1. HeardIn(z, b) = 1
          BY <2>4, <2>7 DEF Hearing
        <4> QED
          BY <2>1, <2>4, <4>1, Stages
      <3>2. Answer(r, f) = Admitted(r)
        BY <2>3, <2>7 DEF Answer, SessionStep, FrameDiscarded
      <3>3. Apart(r, z, p)
        BY <2>3, <2>5, <3>1 DEF Apart
      <3> QED
        BY <1>2, <1>4, <3>2, <3>3 DEF Mirrors
    <2> QED
      BY <2>6, <2>7
  <1> QED
    BY <1>3, <1>4 DEF Mirrors

-----------------------------------------------------------------------------
(* What the application may send, and what it does to the session. *)

\* The begins said of a session, with f said.
BeginsAfter(b, f) == IF f.body = "begin" THEN 1 ELSE b

\* What the pair says of its own session, and of session[p].
LEMMA Locals ==
    ASSUME NEW p
    PROVE  /\ Link(p) = LinkIn(session[p], p)
           /\ Local(p) = "attached" <=> Up(session[p], p)
           /\ Remote(p) = "attached" <=> Seen(session[p], p)
           /\ Gone(Remote(p)) => ~Seen(session[p], p)
           /\ Continued(Link(p)) <=> LinkIn(session[p], p).delivery # Unset
           /\ LinkIn(session[p], p).position # Unset =>
                  /\ Position(p).count = Count(session[p], p)
                  /\ Position(p).credit = Credit(session[p], p)
  BY DEF Link, LinkIn, Local, Remote, Up, Seen, Gone, Continued, Position, Given, Count, Credit

\* Disciplined, a frame at a time.
LEMMA Rules ==
    ASSUME NEW p, NEW f, Disciplined(p, f)
    PROVE  /\ f.body = "begin" => ~begun[p]
           /\ f.body = "end" => session[p].state \in {"MAPPED", "END_RCVD"}
           /\ f.body = "attach" => /\ Local(p) # "attached"
                                   /\ (p = leader) <=> (Remote(p) # "attached")
           /\ f.body = "detach" => Local(p) = "attached"
           /\ f.body = "detach" /\ p = leader =>
                  /\ Remote(p) = "attached"
                  /\ p = "client" => Position(p).credit > 0
                  /\ p = "server" /\ f.error => Outstanding = 0 /\ ~Continued(Link(p))
           /\ f.body = "detach" /\ p # leader => Gone(Remote(p))
           /\ f.body = "flow" =>
                  /\ session[p].peerBegun
                  /\ f.handle # Unset => Local(p) = "attached" /\ Remote(p) = "attached"
                  /\ f.credit # Unset => Eager \/ Outstanding = 0
  <1>1. f.body = "begin" => ~begun[p]
    BY DEF Disciplined
  <1>2. f.body = "end" => session[p].state \in {"MAPPED", "END_RCVD"}
    BY DEF Disciplined
  <1>3. f.body = "attach" => Local(p) # "attached" /\ ((p = leader) <=> (Remote(p) # "attached"))
    BY DEF Disciplined
  <1>4. /\ f.body = "detach" => Local(p) = "attached"
        /\ f.body = "detach" /\ p = leader =>
               /\ Remote(p) = "attached"
               /\ p = "client" => Position(p).credit > 0
               /\ p = "server" /\ f.error => Outstanding = 0 /\ ~Continued(Link(p))
        /\ f.body = "detach" /\ p # leader => Gone(Remote(p))
    BY DEF Disciplined
  <1>5. f.body = "flow" =>
            /\ session[p].peerBegun
            /\ f.handle # Unset => Local(p) = "attached" /\ Remote(p) = "attached"
            /\ f.credit # Unset => Eager \/ Outstanding = 0
    BY DEF Disciplined
  <1> QED
    BY <1>1, <1>2, <1>3, <1>4, <1>5

\* Whatever a session lets its application say is said.
LEMMA Submitting ==
    ASSUME NEW p \in Peers, InitialCount = 0,
           NEW x, x = session[p], SessionShape(x, p), NEW b, StageShape(x, p, b),
           b = 0 <=> ~begun[p],
           p = "client" /\ SaidIn(x, b) # 0 /\ HeardIn(x, b) # 0 =>
               x.windows.nextOutgoing + x.windows.remoteIncoming = Room,
           NEW f \in Composed(p), Disciplined(p, f), NEW r, Sends(x, f, r)
    PROVE  \E z : /\ Saying(x, z, p, f, b, BeginsAfter(b, f))
                  /\ Mirrors(r, z, p, BeginsAfter(b, f))
                  /\ f.body = "attach" => f.handle <= DefaultHandleMax
  <1>1. IsFrameOf(f, p) /\ (f \in Ends(p) <=> f.body = "end")
    BY Composing
  <1>2. Mirrors(r, r, p, BeginsAfter(b, f))
    BY DEF Mirrors
  <1>3. f.body # "begin" => BeginsAfter(b, f) = b
    BY DEF BeginsAfter
  <1>4. CASE f.body = "begin"
    <2>1. b = 0
      BY <1>4, Rules
    <2>2. Saying(x, r, p, f, b, 1)
      BY <1>1, <1>4, <2>1, BeginSaid DEF IsFrameOf
    <2> QED
      BY <1>2, <1>4, <2>2 DEF BeginsAfter
  <1>5. CASE f.body = "end"
    <2>1. x.state \in {"MAPPED", "END_RCVD"} /\ EndsAs(x, f, r)
      <3>1. session[p].state \in {"MAPPED", "END_RCVD"}
        BY <1>5, Rules
      <3>2. EndsAs(x, f, r)
        BY <1>5, EndSends
      <3> QED
        BY <3>1, <3>2
    <2>2. f.error \in BOOLEAN
      BY <1>1, <1>5, EndFrames
    <2>3. PICK z : EndsPlainly(x, z)
      BY DEF EndsPlainly
    <2>4. Saying(x, z, p, f, b, b)
      BY <1>5, <2>1, <2>3, EndSaid
    <2>5. SaidIn(x, b) = 1 /\ HeardIn(x, b) # 0
      BY <2>1 DEF SaidIn, HeardIn
    <2>6. b = 1
      BY <2>5 DEF StageShape
    <2>7. Mirrors(r, z, p, b)
      <3>1. p = "client" => x.windows.nextOutgoing + x.windows.remoteIncoming = Room
        BY <2>5
      <3> QED
        BY <2>1, <2>2, <2>3, <2>6, <3>1, MirrorsSent
    <2> QED
      BY <1>3, <1>5, <2>4, <2>7
  <1>6. CASE f.body = "attach"
    <2>1. Saying(x, r, p, f, b, b) /\ f.handle <= DefaultHandleMax
      BY <1>1, <1>6, AttachSaid DEF IsFrameOf
    <2> QED
      BY <1>2, <1>3, <1>6, <2>1
  <1>7. CASE f.body = "detach"
    <2>1. Up(x, p)
      BY <1>7, Rules, Locals
    <2>2. Saying(x, r, p, f, b, b)
      BY <1>1, <1>7, <2>1, DetachSaid DEF IsFrameOf
    <2> QED
      BY <1>2, <1>3, <1>7, <2>2
  <1>8. CASE f.body = "flow"
    <2>1. Saying(x, r, p, f, b, b)
      BY <1>8, FlowSaid
    <2> QED
      BY <1>2, <1>3, <1>8, <2>1
  <1>9. CASE f.body = "transfer"
    <2>1. p = "client" /\ IsTransfer(f)
      BY <1>1, <1>9 DEF IsFrameOf
    <2>2. Saying(x, r, p, f, b, b)
      BY <1>9, <2>1, TransferSaid
    <2> QED
      BY <1>2, <1>3, <1>9, <2>2
  <1> QED
    BY <1>1, <1>4, <1>5, <1>6, <1>7, <1>8, <1>9 DEF IsFrameOf, Bodies

\* What the application is assumed to do is what the exchange needs of it.
LEMMA Keeping ==
    ASSUME NEW p \in Peers, ~Eager, granted \in Nat,
           NEW x, x = session[p], SessionShape(x, p), NEW b, StageShape(x, p, b),
           NEW f, IsFrameOf(f, p), Disciplined(p, f)
    PROVE  Keeps(x, p, b, leader, granted, f)
  <1>1. Token(f) => MayTurn(x, p, leader)
    <2>1. f.body = "attach" => MayTurn(x, p, leader)
      BY Rules, Locals DEF MayTurn
    <2>2. f.body = "detach" => MayTurn(x, p, leader)
      BY Rules, Locals DEF MayTurn
    <2> QED
      BY <2>1, <2>2 DEF Token
  <1>2. f.body = "attach" => ~Up(x, p)
    BY Rules, Locals
  <1>3. f.body = "detach" => Up(x, p)
    BY Rules, Locals
  <1>4. Up(x, p) => Count(x, p) \in Nat /\ LinkIn(x, p).position # Unset
    <2>1. Up(x, p) => LinkIn(x, p).position \in Positions
      BY Placing
    <2> QED
      BY <2>1, NotUnset DEF Count, Positions
  <1>5. f.body = "detach" /\ p = leader /\ p = "client" => Credit(x, p) > 0
    BY <1>3, <1>4, Rules, Locals
  <1>6. Up(x, p) /\ p = "server" /\ Outstanding = 0 => granted = Count(x, p)
    <2>1. Up(x, p) /\ p = "server" /\ Outstanding = 0 => granted - Count(x, p) = 0
      BY <1>4, Locals DEF Outstanding
    <2> QED
      BY <1>4, <2>1
  <1>7. f.body = "detach" /\ p = leader /\ p = "server" /\ f.error =>
            granted = Count(x, p) /\ LinkIn(x, p).delivery = Unset
    BY <1>3, <1>6, Rules, Locals
  <1>8. f.body = "flow" => HeardIn(x, b) # 0
    BY Rules DEF StageShape
  <1>9. Grant(f) => Up(x, p) /\ Seen(x, p) /\ (p = "server" => granted = Count(x, p))
    <2>1. Grant(f) => Up(x, p) /\ Seen(x, p)
      BY Rules, Locals DEF Grant
    <2>2. Grant(f) /\ p = "server" => f.credit # Unset
      BY NotUnset DEF Grant, IsFrameOf, IsFlow, IsLinkFlow
    <2>3. Grant(f) /\ p = "server" => Outstanding = 0
      BY <2>2, Rules DEF Grant
    <2> QED
      BY <1>6, <2>1, <2>3
  <1> QED
    BY <1>1, <1>2, <1>3, <1>5, <1>7, <1>8, <1>9 DEF Keeps

-----------------------------------------------------------------------------
(* The inductive invariant. *)

\* The begins p has said.
Sessions(p) == IF begun[p] THEN 1 ELSE 0

\* A value for each end.
IsPair(v) == v = [p \in Peers |-> v[p]]

\* The invariant: each end is mirrored by a session, and the two sessions and
\* what is in flight between them agree.
Joined(c, s) ==
    /\ Mirrors(session["client"], c, "client", Sessions("client"))
    /\ Mirrors(session["server"], s, "server", Sessions("server"))
    /\ Core(c, s, Sessions("client"), Sessions("server"),
            wire["server"], wire["client"], granted, leader)

PairInv ==
    /\ IsPair(session) /\ IsPair(wire) /\ begun \in [Peers -> BOOLEAN]
    /\ \E c, s : Joined(c, s)

\* The session a pair starts with.
LEMMA StartShape ==
    ASSUME NEW p \in Peers
    PROVE  /\ SessionShape(StartSession, p) /\ StageShape(StartSession, p, 0)
           /\ LinkIn(StartSession, p) = BlankLink
           /\ SaidIn(StartSession, 0) = 0 /\ HeardIn(StartSession, 0) = 0
  <1> DEFINE x == StartSession
  <1>1. /\ IsSession(x) /\ x.state = "UNMAPPED" /\ x.outgoing = Unset /\ x.incoming = Unset
        /\ x.handleMax = DefaultHandleMax /\ x.peerHandleMax = DefaultHandleMax
        /\ x.windows = StartWindows /\ DOMAIN x.links = {}
        /\ DOMAIN x.localHandles = {} /\ DOMAIN x.remoteHandles = {}
    BY EmptySeq DEF StartSession, IsSession
  <1>2. ~x.peerBegun
    BY DEF StartSession
  <1> HIDE DEF x
  <1>3. LinkIn(x, p) = BlankLink
    BY <1>1 DEF LinkIn, LinkOrBlank
  <1>4. ~Up(x, p) /\ ~Seen(x, p)
    BY <1>3 DEF Up, Seen, BlankLink
  <1>5. StartWindows \in Windows
    BY SessionAssumption DEF StartWindows, Windows
  <1>6. SessionShape(x, p)
    BY <1>1, <1>3, <1>4, <1>5, BlankShape DEF SessionShape, Binds
  <1>7. SaidIn(x, 0) = 0 /\ HeardIn(x, 0) = 0
    BY <1>1 DEF SaidIn, HeardIn
  <1>8. Untold(BlankLink)
    BY DEF Untold, BlankLink
  <1>9. StageShape(x, p, 0)
    BY <1>1, <1>2, <1>3, <1>7, <1>8 DEF StageShape, SessionStates
  <1> QED
    BY <1>3, <1>6, <1>7, <1>9 DEF x

\* The pair's invariant, at its start.
LEMMA StartCore ==
    ASSUME NEW k \in Peers
    PROVE  Core(StartSession, StartSession, 0, 0, <<>>, <<>>, 0, k)
  <1> DEFINE x == StartSession
             w == <<>>
  <1>1. \A p \in Peers : /\ SessionShape(x, p) /\ StageShape(x, p, 0)
                         /\ LinkIn(x, p) = BlankLink
                         /\ SaidIn(x, 0) = 0 /\ HeardIn(x, 0) = 0
    BY StartShape
  <1>2. x.windows = StartWindows
    BY DEF StartSession
  <1>w. w = <<>>
    OBVIOUS
  <1> HIDE DEF x, w
  <1>3. /\ IsStream(w) /\ NoName(w) /\ NoToken(w) /\ Quiet(w) /\ Places(w) = {}
    <2>1. IsStream(w) /\ NoName(w) /\ NoToken(w) /\ Quiet(w)
      BY <1>w, NothingSaid
    <2>2. Len(w) = 0
      BY <1>w, StreamEmpty
    <2> QED
      BY <2>1, <2>2 DEF Places
  <1>4. \A p \in Peers : ~Up(x, p) /\ ~Seen(x, p)
    BY <1>1 DEF Up, Seen, BlankLink
  <1>5. "client" \in Peers /\ "server" \in Peers
    BY DEF Peers
  <1>6. \A p, q \in Peers : Way(w, x, q, 0, x, p, 0)
    <2>1. \A q : Framed(w, q)
      BY <1>3 DEF Framed
    <2>2. Ordered(w, 0, 0)
      BY <1>3, <1>w DEF Ordered
    <2>3. \A p, q \in Peers : Told(w, x, q, x, p) /\ Attended(w, x, p)
      BY <1>3, <1>4 DEF Told, Attended
    <2> QED
      BY <1>1, <2>1, <2>2, <2>3 DEF Way
  <1>7. Numbers(x, x, 0, 0, w, w)
    <2>1. StartWindows \in Windows /\ StartWindows.nextOutgoing = 0
          /\ StartWindows.initialOutgoing = 0
      BY SessionAssumption DEF StartWindows, Windows
    <2>2. ClientNumbers(x.windows, 0, 0) /\ ServerNumbers(x.windows, 0, 0)
      BY <1>2, <2>1 DEF ClientNumbers, ServerNumbers
    <2> QED
      BY <1>1, <1>3, <1>5, <2>2 DEF Numbers, Prompted, Answering
  <1>8. Turns(x, "client", x, "server", w, w, k)
    BY <1>3 DEF Turns
  <1>9. Granting(x, x, w, w, 0, k)
    BY <1>3, <1>4, <1>5, Silent DEF Granting
  <1>10. Tabled(x, x, w, w, 0)
    <2>1. TableOf(x, "server") = TableOf(x, "client")
      BY <1>1, <1>5 DEF TableOf
    <2>2. Tracked(w, TableOf(x, "server"), TableOf(x, "client"))
      BY <1>3, <2>1, TrackedStands
    <2> QED
      BY <1>3, <2>2 DEF Tabled
  <1>11. Core(x, x, 0, 0, w, w, 0, k)
    BY <1>1, <1>5, <1>6, <1>7, <1>8, <1>9, <1>10 DEF Core
  <1> QED
    BY <1>11 DEF x, w

\* The invariant holds at the start.
LEMMA PairStarts == Init => PairInv
  <1>1. SUFFICES ASSUME Init PROVE PairInv
    OBVIOUS
  <1>2. /\ session = [p \in Peers |-> StartSession] /\ wire = [p \in Peers |-> <<>>]
        /\ leader \in Peers /\ begun = [p \in Peers |-> FALSE] /\ granted = 0
    BY <1>1 DEF Init
  <1>3. "client" \in Peers /\ "server" \in Peers
    BY DEF Peers
  <1>4. Core(StartSession, StartSession, 0, 0, <<>>, <<>>, 0, leader)
    BY <1>2, StartCore
  <1>5. Sessions("client") = 0 /\ Sessions("server") = 0
    BY <1>2, <1>3 DEF Sessions
  <1>6. /\ session["client"] = StartSession /\ session["server"] = StartSession
        /\ wire["client"] = <<>> /\ wire["server"] = <<>>
    BY <1>2, <1>3
  <1>7. Joined(StartSession, StartSession)
    BY <1>2, <1>4, <1>5, <1>6 DEF Joined, Mirrors
  <1>8. IsPair(session) /\ IsPair(wire) /\ begun \in [Peers -> BOOLEAN]
    BY <1>2 DEF IsPair
  <1> QED
    BY <1>7, <1>8 DEF PairInv

\* What a step of the pair changes.
Submits(p, f, r) ==
    /\ Disciplined(p, f)
    /\ Sends(session[p], f, r)
    /\ session' = [session EXCEPT ![p] = r]
    /\ wire' = [wire EXCEPT ![Other(p)] = Append(@, f)]
    /\ begun' = [begun EXCEPT ![p] = @ \/ f.body = "begin"]
    /\ granted' = IF p = "client" THEN granted
                  ELSE IF f.body = "attach" THEN 0
                  ELSE IF f.body = "flow" /\ f.credit # Unset THEN f.count + f.credit
                  ELSE granted
    /\ leader' = leader

\* A submission that was taken.
LEMMA Submission ==
    ASSUME NEW p, NEW f, Submit(p, f)
    PROVE  \E r : Submits(p, f, r)
  BY DEF Submit, Submits, Sends

\* The begins said, after a submission.
LEMMA BegunMoves ==
    ASSUME NEW p \in Peers, begun \in [Peers -> BOOLEAN], NEW f, NEW r, Submits(p, f, r)
    PROVE  /\ begun' \in [Peers -> BOOLEAN]
           /\ Sessions(p)' = BeginsAfter(Sessions(p), f)
           /\ \A q \in Peers : q # p => Sessions(q)' = Sessions(q)
  BY DEF Submits, Sessions, BeginsAfter

\* An end that says something is mirrored by itself.
LEMMA SpeakerStands ==
    ASSUME NEW p \in Peers, NEW x, Mirrors(session[p], x, p, Sessions(p)),
           NEW f, NEW r, Submits(p, f, r)
    PROVE  session[p] = x
  <1>1. SUFFICES ASSUME Sessions(p) = 1, Apart(session[p], x, p)
                 PROVE  FALSE
    BY DEF Mirrors
  <1>2. session[p].state \in {"DISCARDING", "UNMAPPED"}
    BY <1>1 DEF Apart
  <1>3. f.body # "begin" => session[p].state \in MaySend
    BY StepSends DEF Submits
  <1>4. f.body = "begin" => Sessions(p) = 0
    BY Rules DEF Submits, Sessions
  <1> QED
    BY <1>1, <1>2, <1>3, <1>4 DEF MaySend

-----------------------------------------------------------------------------
(* Begins and ends, as the handshake counts them. *)

\* The refinement mapping, in the terms of the invariant ...
LEMMA StagesIn ==
    ASSUME NEW p
    PROVE  /\ SaidBy(p) = SaidIn(session[p], Sessions(p))
           /\ HeardBy(p) = HeardIn(session[p], Sessions(p))
  BY DEF SaidBy, HeardBy, SaidIn, HeardIn, Sessions

\* ... and after a step.
LEMMA StagesNext ==
    ASSUME NEW p, NEW r, r = session'[p], NEW b, b = Sessions(p)'
    PROVE  /\ SaidBy(p)' = SaidIn(r, b)
           /\ HeardBy(p)' = HeardIn(r, b)
  BY DEF SaidBy, HeardBy, SaidIn, HeardIn, Sessions

\* A mirrored session has said and heard what the other has.
LEMMA MirrorsStages ==
    ASSUME NEW p, NEW r, NEW x, NEW b, Mirrors(r, x, p, b)
    PROVE  SaidIn(r, b) = SaidIn(x, b) /\ HeardIn(r, b) = HeardIn(x, b)
  BY DEF Mirrors, Apart, SaidIn, HeardIn

\* What a step of one end is in the handshake: it says its next stage, or hears
\* its partner's, or neither.
Speaks(p, q) ==
    /\ HeardBy(p)' = HeardBy(p) /\ SaidBy(q)' = SaidBy(q) /\ HeardBy(q)' = HeardBy(q)
    /\ \/ SaidBy(p)' = SaidBy(p)
       \/ SaidBy(p)' = SaidBy(p) + 1 /\ SaidBy(p) <= HeardBy(p) /\ SaidBy(p) < 3

Listens(p, q) ==
    /\ SaidBy(p)' = SaidBy(p) /\ SaidBy(q)' = SaidBy(q) /\ HeardBy(q)' = HeardBy(q)
    /\ \/ HeardBy(p)' = HeardBy(p)
       \/ HeardBy(p)' = HeardBy(p) + 1 /\ HeardBy(p) < SaidBy(q)

\* What is said moves the handshake by a stage, or not at all.
LEMMA StagesSaid ==
    ASSUME NEW p, NEW q, NEW x, NEW z, NEW r, NEW a, NEW f,
           Mirrors(session[p], x, p, Sessions(p)), StageShape(x, p, Sessions(p)),
           r = session'[p], Mirrors(r, z, p, a), a = Sessions(p)',
           session'[q] = session[q], Sessions(q)' = Sessions(q),
           Saying(x, z, p, f, Sessions(p), a)
    PROVE  Speaks(p, q)
  <1>1. /\ SaidBy(p) = SaidIn(x, Sessions(p)) /\ HeardBy(p) = HeardIn(x, Sessions(p))
    BY StagesIn, MirrorsStages
  <1>2. SaidBy(p)' = SaidIn(z, a) /\ HeardBy(p)' = HeardIn(z, a)
    BY StagesNext, MirrorsStages
  <1>3. SaidBy(q)' = SaidBy(q) /\ HeardBy(q)' = HeardBy(q)
    BY StagesIn, StagesNext
  <1>4. SaidIn(x, Sessions(p)) \in 0 .. 2 /\ HeardIn(x, Sessions(p)) \in 0 .. 2
    BY Stages
  <1>5. /\ HeardIn(z, a) = HeardIn(x, Sessions(p))
        /\ \/ SaidIn(z, a) = SaidIn(x, Sessions(p))
           \/ /\ SaidIn(z, a) = SaidIn(x, Sessions(p)) + 1
              /\ SaidIn(x, Sessions(p)) <= HeardIn(x, Sessions(p))
    BY <1>4 DEF Saying
  <1> QED
    BY <1>1, <1>2, <1>3, <1>4, <1>5 DEF Speaks

\* What is heard moves the handshake by a stage, or not at all.
LEMMA StagesHeard ==
    ASSUME NEW p, NEW q, NEW x, NEW y, NEW z, NEW r, NEW f,
           Mirrors(session[p], x, p, Sessions(p)), StageShape(x, p, Sessions(p)),
           Mirrors(session[q], y, q, Sessions(q)), StageShape(y, q, Sessions(q)),
           r = session'[p], Mirrors(r, z, p, Sessions(p)), Sessions(p)' = Sessions(p),
           session'[q] = session[q], Sessions(q)' = Sessions(q),
           Hearing(x, z, p, f, Sessions(p)),
           HeardIn(z, Sessions(p)) <= SaidIn(y, Sessions(q))
    PROVE  Listens(p, q)
  <1> DEFINE a == Sessions(p)
  <1>1. /\ SaidBy(p) = SaidIn(x, a) /\ HeardBy(p) = HeardIn(x, a)
        /\ SaidBy(q) = SaidIn(y, Sessions(q))
    BY StagesIn, MirrorsStages
  <1>2. SaidBy(p)' = SaidIn(z, a) /\ HeardBy(p)' = HeardIn(z, a)
    BY StagesNext, MirrorsStages
  <1>3. SaidBy(q)' = SaidBy(q) /\ HeardBy(q)' = HeardBy(q)
    BY StagesIn, StagesNext
  <1>4. HeardIn(x, a) \in 0 .. 2 /\ SaidIn(y, Sessions(q)) \in 0 .. 2
    BY Stages
  <1>5. /\ SaidIn(z, a) = SaidIn(x, a)
        /\ HeardIn(z, a) = HeardIn(x, a) \/ HeardIn(z, a) = HeardIn(x, a) + 1
    BY <1>4 DEF Hearing
  <1> QED
    BY <1>1, <1>2, <1>3, <1>4, <1>5 DEF Listens

\* Either is a step of the handshake, or none.
LEMMA StageMoves ==
    ASSUME NEW p \in Peers, NEW q, q = Other(p), Speaks(p, q) \/ Listens(p, q)
    PROVE  [H!Next]_(H!handshake)
  <1> DEFINE said == [x \in Peers |-> SaidBy(x)]
             heard == [x \in Peers |-> HeardBy(x)]
  <1>1. q \in Peers /\ q # p /\ \A x \in Peers : x = p \/ x = q
    BY DEF Peers, Other
  <1>2. said' = [x \in Peers |-> SaidBy(x)'] /\ heard' = [x \in Peers |-> HeardBy(x)']
    OBVIOUS
  <1>3. SaidBy(q)' = SaidBy(q) /\ HeardBy(q)' = HeardBy(q)
    BY DEF Speaks, Listens
  <1>4. CASE SaidBy(p)' = SaidBy(p) /\ HeardBy(p)' = HeardBy(p)
    <2>1. \A x \in Peers : SaidBy(x)' = SaidBy(x) /\ HeardBy(x)' = HeardBy(x)
      BY <1>1, <1>3, <1>4
    <2>2. said' = said /\ heard' = heard
      BY <2>1
    <2> QED
      BY <2>2 DEF H!handshake, SaidBy, HeardBy
  <1>5. CASE /\ SaidBy(p)' = SaidBy(p) + 1 /\ HeardBy(p)' = HeardBy(p)
             /\ SaidBy(p) <= HeardBy(p) /\ SaidBy(p) < 3
    <2>1. /\ said' = [said EXCEPT ![p] = @ + 1] /\ heard' = heard
          /\ said[p] <= heard[p] /\ said[p] < 3
      BY <1>1, <1>3, <1>5
    <2>2. H!Speak(p)
      BY <2>1 DEF H!Speak, SaidBy, HeardBy
    <2> QED
      BY <2>2 DEF H!Next, H!Peers, Peers
  <1>6. CASE /\ SaidBy(p)' = SaidBy(p) /\ HeardBy(p)' = HeardBy(p) + 1
             /\ HeardBy(p) < SaidBy(q)
    <2>1. /\ heard' = [heard EXCEPT ![p] = @ + 1] /\ said' = said
          /\ heard[p] < said[q]
      BY <1>1, <1>3, <1>6
    <2>2. H!Hear(p)
      BY <2>1 DEF H!Hear, H!Other, Other, SaidBy, HeardBy
    <2> QED
      BY <2>2 DEF H!Next, H!Peers, Peers
  <1> QED
    BY <1>4, <1>5, <1>6 DEF Speaks, Listens

\* The pair starts where the handshake does.
LEMMA PairSimulatesStart == Init => H!Init
  <1>1. SUFFICES ASSUME Init PROVE H!Init
    OBVIOUS
  <1>2. \A p \in Peers : session[p] = StartSession /\ ~begun[p]
    BY <1>1 DEF Init
  <1>3. StartSession.state = "UNMAPPED"
    BY DEF StartSession
  <1>4. \A p \in Peers : SaidBy(p) = 0 /\ HeardBy(p) = 0
    BY <1>2, <1>3 DEF SaidBy, HeardBy
  <1> QED
    BY <1>4 DEF H!Init, H!Peers, Peers

-----------------------------------------------------------------------------
(* The steps of the pair. *)

\* A submission of the client's.
LEMMA ClientSubmits ==
    ASSUME Measured, PairInv, NEW f \in Composed("client"), Submit("client", f)
    PROVE  PairInv' /\ [H!Next]_(H!handshake)
  <1> DEFINE p == "client"
             q == "server"
  <1>1. p \in Peers /\ q \in Peers /\ p # q /\ Other(p) = q
    BY Sides DEF Peers
  <1>2. PICK c, s : Joined(c, s)
    BY DEF PairInv
  <1>3. PICK r : Submits(p, f, r)
    BY Submission
  <1>4. /\ Mirrors(session[p], c, p, Sessions(p)) /\ Mirrors(session[q], s, q, Sessions(q))
        /\ Core(c, s, Sessions(p), Sessions(q), wire[q], wire[p], granted, leader)
    BY <1>2 DEF Joined
  <1>5. session[p] = c
    BY <1>1, <1>3, <1>4, SpeakerStands
  <1>6. /\ SessionShape(c, p) /\ StageShape(c, p, Sessions(p))
        /\ ClientNumbers(c.windows, SaidIn(c, Sessions(p)), HeardIn(c, Sessions(p)))
        /\ granted \in Nat
    BY <1>4 DEF Core, Numbers, Granting
  <1>7. Disciplined(p, f) /\ Sends(c, f, r)
    BY <1>3, <1>5 DEF Submits
  <1>8. IsFrameOf(f, p) /\ Tells(c, p, f)
    BY <1>1, <1>5, <1>6, <1>7, Composing DEF Measured
  <1>9. PICK z : /\ Saying(c, z, p, f, Sessions(p), BeginsAfter(Sessions(p), f))
                 /\ Mirrors(r, z, p, BeginsAfter(Sessions(p), f))
                 /\ f.body = "attach" => f.handle <= DefaultHandleMax
    <2>1. SaidIn(c, Sessions(p)) # 0 /\ HeardIn(c, Sessions(p)) # 0 =>
              c.windows.nextOutgoing + c.windows.remoteIncoming = Room
      BY <1>6 DEF ClientNumbers
    <2>2. Sessions(p) = 0 <=> ~begun[p]
      BY DEF Sessions
    <2> QED
      BY <1>1, <1>5, <1>6, <1>7, <2>1, <2>2, Submitting DEF Measured
  <1>10. Keeps(c, p, Sessions(p), leader, granted, f)
    BY <1>1, <1>5, <1>6, <1>7, <1>8, Keeping DEF Measured
  <1>11. Core(z, s, BeginsAfter(Sessions(p), f), Sessions(q), Append(wire[q], f), wire[p],
              granted, leader)
    BY <1>4, <1>8, <1>9, <1>10, ClientSays
  <1>12. /\ begun' \in [Peers -> BOOLEAN]
         /\ Sessions(p)' = BeginsAfter(Sessions(p), f) /\ Sessions(q)' = Sessions(q)
    BY <1>1, <1>3, BegunMoves DEF PairInv
  <1>13. /\ IsPair(session') /\ IsPair(wire')
         /\ session'[p] = r /\ session'[q] = session[q]
         /\ wire'[q] = Append(wire[q], f) /\ wire'[p] = wire[p]
         /\ granted' = granted /\ leader' = leader
    BY <1>1, <1>3 DEF Submits, PairInv, IsPair
  <1>14. Joined(z, s)'
    BY <1>4, <1>9, <1>11, <1>12, <1>13 DEF Joined
  <1>15. Speaks(p, q)
    BY <1>4, <1>6, <1>9, <1>12, <1>13, StagesSaid
  <1>16. [H!Next]_(H!handshake)
    BY <1>1, <1>15, StageMoves
  <1> QED
    BY <1>12, <1>13, <1>14, <1>16 DEF PairInv, IsPair

\* A submission of the server's.
LEMMA ServerSubmits ==
    ASSUME Measured, PairInv, NEW f \in Composed("server"), Submit("server", f)
    PROVE  PairInv' /\ [H!Next]_(H!handshake)
  <1> DEFINE p == "client"
             q == "server"
  <1>1. p \in Peers /\ q \in Peers /\ p # q /\ Other(q) = p
    BY Sides DEF Peers
  <1>2. PICK c, s : Joined(c, s)
    BY DEF PairInv
  <1>3. PICK r : Submits(q, f, r)
    BY Submission
  <1>4. /\ Mirrors(session[p], c, p, Sessions(p)) /\ Mirrors(session[q], s, q, Sessions(q))
        /\ Core(c, s, Sessions(p), Sessions(q), wire[q], wire[p], granted, leader)
    BY <1>2 DEF Joined
  <1>5. session[q] = s
    BY <1>1, <1>3, <1>4, SpeakerStands
  <1>6. SessionShape(s, q) /\ StageShape(s, q, Sessions(q)) /\ granted \in Nat
    BY <1>4 DEF Core, Granting
  <1>7. Disciplined(q, f) /\ Sends(s, f, r)
    BY <1>3, <1>5 DEF Submits
  <1>8. IsFrameOf(f, q) /\ Tells(s, q, f)
    BY <1>1, <1>5, <1>6, <1>7, Composing DEF Measured
  <1>9. PICK z : /\ Saying(s, z, q, f, Sessions(q), BeginsAfter(Sessions(q), f))
                 /\ Mirrors(r, z, q, BeginsAfter(Sessions(q), f))
                 /\ f.body = "attach" => f.handle <= DefaultHandleMax
    <2>1. Sessions(q) = 0 <=> ~begun[q]
      BY DEF Sessions
    <2> QED
      BY <1>1, <1>5, <1>6, <1>7, <2>1, Submitting DEF Measured
  <1>10. Keeps(s, q, Sessions(q), leader, granted, f)
    BY <1>1, <1>5, <1>6, <1>7, <1>8, Keeping DEF Measured
  <1>11. Core(c, z, Sessions(p), BeginsAfter(Sessions(q), f), wire[q], Append(wire[p], f),
              GrantedBy(granted, f), leader)
    BY <1>4, <1>8, <1>9, <1>10, ServerSays
  <1>12. /\ begun' \in [Peers -> BOOLEAN]
         /\ Sessions(q)' = BeginsAfter(Sessions(q), f) /\ Sessions(p)' = Sessions(p)
    BY <1>1, <1>3, BegunMoves DEF PairInv
  <1>13. /\ IsPair(session') /\ IsPair(wire')
         /\ session'[q] = r /\ session'[p] = session[p]
         /\ wire'[p] = Append(wire[p], f) /\ wire'[q] = wire[q]
         /\ leader' = leader
    BY <1>1, <1>3 DEF Submits, PairInv, IsPair
  <1>14. granted' = GrantedBy(granted, f)
    <2>1. granted' = IF f.body = "attach" THEN 0
                     ELSE IF f.body = "flow" /\ f.credit # Unset THEN f.count + f.credit
                     ELSE granted
      BY <1>1, <1>3 DEF Submits
    <2>2. f.body = "flow" => (f.credit # Unset <=> f.handle # Unset)
      BY <1>8, NotUnset DEF IsFrameOf, IsFlow, IsLinkFlow
    <2> QED
      BY <2>1, <2>2 DEF GrantedBy, Grant
  <1>15. Joined(c, z)'
    BY <1>4, <1>9, <1>11, <1>12, <1>13, <1>14 DEF Joined
  <1>16. Speaks(q, p)
    BY <1>4, <1>6, <1>9, <1>12, <1>13, StagesSaid
  <1>17. [H!Next]_(H!handshake)
    BY <1>1, <1>16, StageMoves
  <1> QED
    BY <1>12, <1>13, <1>15, <1>17 DEF PairInv, IsPair

\* A delivery to the client.
LEMMA ClientDelivers ==
    ASSUME Measured, PairInv, Deliver("client")
    PROVE  PairInv' /\ [H!Next]_(H!handshake)
  <1> DEFINE p == "client"
             q == "server"
             f == Head(wire[p])
  <1>1. p \in Peers /\ q \in Peers /\ p # q /\ Other(p) = q
    BY Sides DEF Peers
  <1>2. PICK c, s : Joined(c, s)
    BY DEF PairInv
  <1>3. /\ wire[p] # <<>>
        /\ session' = [session EXCEPT ![p] = Answer(session[p], f).session]
        /\ wire' = [wire EXCEPT ![p] = Tail(@)]
        /\ leader' = leader /\ begun' = begun /\ granted' = granted
    <2>1. /\ wire[p] # <<>>
          /\ session' = [session EXCEPT ![p] = SessionStep(@, FALSE, f).session]
          /\ wire' = [wire EXCEPT ![p] = Tail(@)]
          /\ leader' = leader /\ begun' = begun /\ granted' = granted
      BY DEF Deliver
    <2>2. session' = [session EXCEPT ![p] = SessionStep(session[p], FALSE, f).session]
      BY <1>1, <2>1 DEF PairInv, IsPair
    <2> QED
      BY <2>1, <2>2 DEF Answer
  <1>4. /\ Mirrors(session[p], c, p, Sessions(p)) /\ Mirrors(session[q], s, q, Sessions(q))
        /\ Core(c, s, Sessions(p), Sessions(q), wire[q], wire[p], granted, leader)
    BY <1>2 DEF Joined
  <1>5. PICK z : Hearing(c, z, p, f, Sessions(p))
    BY <1>3, <1>4, ClientHearing
  <1>6. /\ SessionShape(c, p) /\ StageShape(c, p, Sessions(p)) /\ IsFrameOf(f, Other(p))
    BY <1>1, <1>3, <1>4, FramedLess DEF Core, Way
  <1>7. Mirrors(Answer(session[p], f).session, z, p, Sessions(p))
    BY <1>1, <1>4, <1>5, <1>6, MirrorsHeard
  <1>8. Core(z, s, Sessions(p), Sessions(q), wire[q], Tail(wire[p]), granted, leader)
    BY <1>3, <1>4, <1>5, ClientHears
  <1>9. /\ IsPair(session') /\ IsPair(wire')
        /\ session'[p] = Answer(session[p], f).session /\ session'[q] = session[q]
        /\ wire'[p] = Tail(wire[p]) /\ wire'[q] = wire[q]
    BY <1>1, <1>3 DEF PairInv, IsPair
  <1>10. Sessions(p)' = Sessions(p) /\ Sessions(q)' = Sessions(q) /\ begun' \in [Peers -> BOOLEAN]
    BY <1>3 DEF Sessions, PairInv
  <1>11. Joined(z, s)'
    BY <1>3, <1>4, <1>7, <1>8, <1>9, <1>10 DEF Joined
  <1>12. Listens(p, q)
    <2>1. HeardIn(z, Sessions(p)) <= SaidIn(s, Sessions(q))
      BY <1>8 DEF Core, Way
    <2>2. StageShape(s, q, Sessions(q))
      BY <1>4 DEF Core
    <2> QED
      BY <1>4, <1>5, <1>6, <1>7, <1>9, <1>10, <2>1, <2>2, StagesHeard
  <1>13. [H!Next]_(H!handshake)
    BY <1>1, <1>12, StageMoves
  <1> QED
    BY <1>9, <1>10, <1>11, <1>13 DEF PairInv, IsPair

\* A delivery to the server.
LEMMA ServerDelivers ==
    ASSUME Measured, PairInv, Deliver("server")
    PROVE  PairInv' /\ [H!Next]_(H!handshake)
  <1> DEFINE p == "client"
             q == "server"
             f == Head(wire[q])
  <1>1. p \in Peers /\ q \in Peers /\ p # q /\ Other(q) = p
    BY Sides DEF Peers
  <1>2. PICK c, s : Joined(c, s)
    BY DEF PairInv
  <1>3. /\ wire[q] # <<>>
        /\ session' = [session EXCEPT ![q] = Answer(session[q], f).session]
        /\ wire' = [wire EXCEPT ![q] = Tail(@)]
        /\ leader' = leader /\ begun' = begun /\ granted' = granted
    <2>1. /\ wire[q] # <<>>
          /\ session' = [session EXCEPT ![q] = SessionStep(@, FALSE, f).session]
          /\ wire' = [wire EXCEPT ![q] = Tail(@)]
          /\ leader' = leader /\ begun' = begun /\ granted' = granted
      BY DEF Deliver
    <2>2. session' = [session EXCEPT ![q] = SessionStep(session[q], FALSE, f).session]
      BY <1>1, <2>1 DEF PairInv, IsPair
    <2> QED
      BY <2>1, <2>2 DEF Answer
  <1>4. /\ Mirrors(session[p], c, p, Sessions(p)) /\ Mirrors(session[q], s, q, Sessions(q))
        /\ Core(c, s, Sessions(p), Sessions(q), wire[q], wire[p], granted, leader)
    BY <1>2 DEF Joined
  <1>5. PICK z : Hearing(s, z, q, f, Sessions(q))
    BY <1>3, <1>4, ServerHearing
  <1>6. /\ SessionShape(s, q) /\ StageShape(s, q, Sessions(q)) /\ IsFrameOf(f, Other(q))
    BY <1>1, <1>3, <1>4, FramedLess DEF Core, Way
  <1>7. Mirrors(Answer(session[q], f).session, z, q, Sessions(q))
    BY <1>1, <1>4, <1>5, <1>6, MirrorsHeard
  <1>8. Core(c, z, Sessions(p), Sessions(q), Tail(wire[q]), wire[p], granted, leader)
    BY <1>3, <1>4, <1>5, ServerHears
  <1>9. /\ IsPair(session') /\ IsPair(wire')
        /\ session'[q] = Answer(session[q], f).session /\ session'[p] = session[p]
        /\ wire'[q] = Tail(wire[q]) /\ wire'[p] = wire[p]
    BY <1>1, <1>3 DEF PairInv, IsPair
  <1>10. Sessions(p)' = Sessions(p) /\ Sessions(q)' = Sessions(q) /\ begun' \in [Peers -> BOOLEAN]
    BY <1>3 DEF Sessions, PairInv
  <1>11. Joined(c, z)'
    BY <1>3, <1>4, <1>7, <1>8, <1>9, <1>10 DEF Joined
  <1>12. Listens(q, p)
    <2>1. HeardIn(z, Sessions(q)) <= SaidIn(c, Sessions(p))
      BY <1>8 DEF Core, Way
    <2>2. StageShape(c, p, Sessions(p))
      BY <1>4 DEF Core
    <2> QED
      BY <1>4, <1>5, <1>6, <1>7, <1>9, <1>10, <2>1, <2>2, StagesHeard
  <1>13. [H!Next]_(H!handshake)
    BY <1>1, <1>12, StageMoves
  <1> QED
    BY <1>9, <1>10, <1>11, <1>13 DEF PairInv, IsPair

\* Every step of the pair keeps the invariant, and is one of the handshake.
LEMMA PairSteps ==
    ASSUME Measured, PairInv, [Next]_vars
    PROVE  PairInv' /\ [H!Next]_(H!handshake)
  <1>1. ASSUME NEW p \in Peers, Deliver(p)
        PROVE  PairInv' /\ [H!Next]_(H!handshake)
    <2>1. CASE p = "client"
      BY <1>1, <2>1, ClientDelivers
    <2>2. CASE p = "server"
      BY <1>1, <2>2, ServerDelivers
    <2> QED
      BY <2>1, <2>2 DEF Peers
  <1>2. ASSUME NEW p \in Peers, NEW f \in Composed(p), Submit(p, f)
        PROVE  PairInv' /\ [H!Next]_(H!handshake)
    <2>1. CASE p = "client"
      BY <1>2, <2>1, ClientSubmits
    <2>2. CASE p = "server"
      BY <1>2, <2>2, ServerSubmits
    <2> QED
      BY <2>1, <2>2 DEF Peers
  <1>3. CASE UNCHANGED vars
    <2>1. PairInv'
      BY <1>3 DEF vars, PairInv, Joined, Sessions, IsPair
    <2>2. \A p \in Peers : SaidBy(p)' = SaidBy(p) /\ HeardBy(p)' = HeardBy(p)
      BY <1>3 DEF vars, SaidBy, HeardBy
    <2>3. [H!Next]_(H!handshake)
      BY <2>2 DEF H!handshake
    <2> QED
      BY <2>1, <2>3
  <1> QED
    BY <1>1, <1>2, <1>3 DEF Next

\* What stands first on either way is taken.
LEMMA TakesWhatIsSent ==
    ASSUME Measured, PairInv
    PROVE  NothingRefused
  <1>1. PICK c, s : Joined(c, s)
    BY DEF PairInv
  <1>2. /\ Mirrors(session["client"], c, "client", Sessions("client"))
        /\ Mirrors(session["server"], s, "server", Sessions("server"))
        /\ Core(c, s, Sessions("client"), Sessions("server"),
                wire["server"], wire["client"], granted, leader)
    BY <1>1 DEF Joined
  <1>3. /\ Other("client") = "server" /\ Other("server") = "client"
        /\ "client" \in Peers /\ "server" \in Peers
    BY Sides DEF Peers
  <1>4. ASSUME wire["client"] # <<>>
        PROVE  Answer(session["client"], Head(wire["client"])).ok
    <2>1. PICK z : Hearing(c, z, "client", Head(wire["client"]), Sessions("client"))
      BY <1>2, <1>4, ClientHearing
    <2>2. /\ SessionShape(c, "client") /\ StageShape(c, "client", Sessions("client"))
          /\ IsFrameOf(Head(wire["client"]), Other("client"))
      BY <1>2, <1>3, <1>4, FramedLess DEF Core, Way
    <2> QED
      BY <1>2, <1>3, <2>1, <2>2, MirrorsHeard
  <1>5. ASSUME wire["server"] # <<>>
        PROVE  Answer(session["server"], Head(wire["server"])).ok
    <2>1. PICK z : Hearing(s, z, "server", Head(wire["server"]), Sessions("server"))
      BY <1>2, <1>5, ServerHearing
    <2>2. /\ SessionShape(s, "server") /\ StageShape(s, "server", Sessions("server"))
          /\ IsFrameOf(Head(wire["server"]), Other("server"))
      BY <1>2, <1>3, <1>5, FramedLess DEF Core, Way
    <2> QED
      BY <1>2, <1>3, <2>1, <2>2, MirrorsHeard
  <1>6. \A p \in Peers : wire[p] # <<>> => Answer(session[p], Head(wire[p])).ok
    BY <1>4, <1>5 DEF Peers
  <1> QED
    BY <1>6 DEF NothingRefused, Answer

\* The windows agree, for each transfer in flight is counted by one end and
\* to be counted by the other.
LEMMA NumbersMeet ==
    ASSUME Measured, PairInv
    PROVE  WindowsAgree
  <1> DEFINE r == session["client"]
             t == session["server"]
             bc == Sessions("client")
             bs == Sessions("server")
             n == TransfersTo("server")
  <1>1. SUFFICES ASSUME t.state \in {"MAPPED", "END_SENT", "END_RCVD"}
                 PROVE  /\ r.peerBegun => r.windows.remoteIncoming + n = t.windows.incoming
                        /\ begun["client"] /\ t.peerBegun =>
                               (t.windows.nextIncoming + n) % SerialModulus
                                   = r.windows.nextOutgoing
    BY DEF WindowsAgree
  <1>2. PICK c, s : Joined(c, s)
    BY DEF PairInv
  <1>3. /\ Mirrors(r, c, "client", bc) /\ Mirrors(t, s, "server", bs)
        /\ Core(c, s, bc, bs, wire["server"], wire["client"], granted, leader)
    BY <1>2 DEF Joined
  <1> HIDE DEF r, t, bc, bs, n
  <1>4. t = s
    BY <1>1, <1>3 DEF Mirrors, Apart
  <1>5. /\ StageShape(c, "client", bc) /\ StageShape(s, "server", bs)
        /\ HeardIn(s, bs) <= SaidIn(c, bc) /\ IsStream(wire["server"])
    BY <1>3, Between DEF Core, Way
  <1>6. SaidIn(s, bs) # 0 /\ HeardIn(s, bs) # 0 /\ HeardIn(s, bs) \in 0 .. 2
    BY <1>1, <1>4, <1>5, Stages DEF SaidIn, HeardIn
  <1>7. /\ SaidIn(c, bc) \in 1 .. 2 /\ HeardIn(c, bc) \in 0 .. 2
        /\ (SaidIn(c, bc) = 2 => HeardIn(c, bc) # 0)
    <2>1. SaidIn(c, bc) \in 0 .. 2 /\ HeardIn(c, bc) \in 0 .. 2
      BY <1>5, Stages
    <2>2. SaidIn(c, bc) = 2 => HeardIn(c, bc) # 0
      BY DEF SaidIn, HeardIn
    <2> QED
      BY <1>5, <1>6, <2>1, <2>2
  <1>8. /\ ClientNumbers(c.windows, SaidIn(c, bc), HeardIn(c, bc))
        /\ ServerNumbers(s.windows, SaidIn(s, bs), HeardIn(s, bs))
        /\ Numbered(wire["server"], s.windows.nextIncoming, c.windows.nextOutgoing)
    BY <1>3, <1>6, <1>7 DEF Core, Numbers, Expected
  <1>9. /\ n \in Nat /\ s.windows.nextIncoming \in Nat
        /\ c.windows.nextOutgoing = s.windows.nextIncoming + n
    BY <1>5, <1>8, NumberedSum DEF n, TransfersTo
  <1>10. /\ s.windows.nextIncoming + s.windows.incoming = Room
         /\ s.windows.incoming \in Nat
    BY <1>6, <1>8 DEF ServerNumbers, Windows
  <1>11. /\ HeardIn(c, bc) # 0 => c.windows.nextOutgoing + c.windows.remoteIncoming = Room
         /\ HeardIn(c, bc) = 0 => c.windows.nextOutgoing = FirstId
         /\ c.windows.remoteIncoming \in Nat /\ c.windows.nextOutgoing \in Nat
    BY <1>7, <1>8 DEF ClientNumbers, Windows
  <1>12. /\ r.peerBegun => r.windows.nextOutgoing + r.windows.remoteIncoming = Room
         /\ r.windows.nextOutgoing = c.windows.nextOutgoing
         /\ r.windows.remoteIncoming \in Nat
    <2>1. CASE r = c
      <3>1. c.peerBegun => HeardIn(c, bc) # 0
        BY <1>5 DEF StageShape
      <3> QED
        BY <1>11, <2>1, <3>1
    <2>2. CASE Apart(r, c, "client")
      <3>1. r.windows.remoteIncoming \in Nat
        BY <2>2 DEF Apart, Windows
      <3> QED
        BY <2>2, <3>1 DEF Apart
    <2> QED
      BY <1>3, <2>1, <2>2 DEF Mirrors
  <1>13. r.peerBegun => r.windows.remoteIncoming + n = s.windows.incoming
    BY <1>9, <1>10, <1>11, <1>12, Small
  <1>14. (s.windows.nextIncoming + n) % SerialModulus = r.windows.nextOutgoing
    <2>1. c.windows.nextOutgoing <= Room
      BY <1>11, Small
    <2> QED
      BY <1>9, <1>11, <1>12, <2>1, Small
  <1> QED
    BY <1>4, <1>13, <1>14 DEF r, t, n

\* Two sessions that have settled are mirrored by themselves.
LEMMA SettledSessions ==
    ASSUME PairInv, Settled, session["client"].state = "MAPPED", session["server"].state = "MAPPED"
    PROVE  Joined(session["client"], session["server"])
  <1>1. PICK c, s : Joined(c, s)
    BY DEF PairInv
  <1>2. session["client"] = c /\ session["server"] = s
    BY <1>1 DEF Joined, Mirrors, Apart
  <1> QED
    BY <1>1, <1>2

\* The links of two sessions that have settled.
LEMMA SettledLinks ==
    ASSUME PairInv, Settled, session["client"].state = "MAPPED", session["server"].state = "MAPPED"
    PROVE  \A p \in Peers : /\ SessionShape(session[p], p)
                            /\ Up(session[p], p) /\ LinkIn(session[p], p).position # Unset
                            /\ Count(session[p], p) \in Nat /\ Credit(session[p], p) \in Nat
                            /\ Position(p).count = Count(session[p], p)
                            /\ Position(p).credit = Credit(session[p], p)
                            /\ wire[p] = <<>>
  <1>1. Joined(session["client"], session["server"])
    BY SettledSessions
  <1>2. \A p \in Peers : SessionShape(session[p], p)
    BY <1>1 DEF Joined, Core, Peers
  <1> SUFFICES ASSUME NEW p \in Peers
               PROVE  /\ SessionShape(session[p], p)
                      /\ Up(session[p], p) /\ LinkIn(session[p], p).position # Unset
                      /\ Count(session[p], p) \in Nat /\ Credit(session[p], p) \in Nat
                      /\ Position(p).count = Count(session[p], p)
                      /\ Position(p).credit = Credit(session[p], p)
                      /\ wire[p] = <<>>
    OBVIOUS
  <1>3. wire[p] = <<>> /\ Up(session[p], p)
    BY Locals DEF Settled
  <1>4. LinkIn(session[p], p).position \in Positions
    BY <1>2, <1>3, Placing
  <1>5. LinkIn(session[p], p).position # Unset
    BY <1>4, NotUnset DEF Positions
  <1>6. Count(session[p], p) \in Nat /\ Credit(session[p], p) \in Nat
    BY <1>4 DEF Count, Credit, Positions
  <1> QED
    BY <1>2, <1>3, <1>5, <1>6, Locals

\* The counts agree, when nothing is in flight.
LEMMA CountsMeet ==
    ASSUME PairInv
    PROVE  CountsAgree
  <1> DEFINE c == session["client"]
             s == session["server"]
             w == <<>>
  <1>1. SUFFICES ASSUME Settled, c.state = "MAPPED", s.state = "MAPPED"
                 PROVE  /\ Position("client").count = Position("server").count
                        /\ Position("client").credit = Outstanding
    BY DEF CountsAgree
  <1>2. "client" \in Peers /\ "server" \in Peers
    BY DEF Peers
  <1>w. w = <<>>
    OBVIOUS
  <1>3. \A p \in Peers : /\ Up(session[p], p)
                         /\ Count(session[p], p) \in Nat /\ Credit(session[p], p) \in Nat
                         /\ Position(p).count = Count(session[p], p)
                         /\ Position(p).credit = Credit(session[p], p)
                         /\ wire[p] = w
    BY <1>1, SettledLinks
  <1>4. Granting(c, s, wire["server"], wire["client"], granted, leader)
    BY <1>1, SettledSessions DEF Joined, Core
  <1> HIDE DEF w
  <1>5. IsStream(w) /\ NoName(w) /\ NoGrant(w)
    <2>1. IsStream(w) /\ NoName(w)
      BY <1>w, NothingSaid
    <2> QED
      BY <2>1 DEF NoName, NoGrant, Named
  <1>6. Granting(c, s, w, w, granted, leader)
    BY <1>2, <1>3, <1>4
  <1>7. Count(c, "client") + Credit(c, "client") = granted /\ granted \in Nat
    BY <1>2, <1>3, <1>5, <1>6 DEF Granting, Owed
  <1>8. Count(c, "client") = Count(s, "server")
    <2>1. PICK n : Counted(w, Count(s, "server"), n) /\ Reckons(c, n, granted, leader)
      BY <1>2, <1>3, <1>6 DEF Granting, Reckoned
    <2>2. n = Count(s, "server")
      BY <1>2, <1>3, <1>5, <2>1, CountedStands
    <2> QED
      BY <1>2, <1>3, <2>1, <2>2 DEF Reckons
  <1> QED
    BY <1>2, <1>3, <1>7, <1>8 DEF Outstanding

\* The tables agree, when nothing is in flight.
LEMMA TablesMeet ==
    ASSUME PairInv
    PROVE  DeliveriesAgree
  <1> DEFINE c == session["client"]
             s == session["server"]
             w == <<>>
             ours == Link("client")
             theirs == Link("server")
  <1>1. SUFFICES ASSUME Settled, c.state = "MAPPED", s.state = "MAPPED"
                 PROVE  /\ ours.unsettled = theirs.unsettled
                        /\ ours.delivery = theirs.delivery /\ ours.tag = theirs.tag
                        /\ ours.settledMode = theirs.settledMode
                        /\ ours.unsettledMode = theirs.unsettledMode
    BY DEF DeliveriesAgree
  <1>w. w = <<>>
    OBVIOUS
  <1>2. wire["client"] = w /\ wire["server"] = w
    BY <1>1 DEF Settled, Peers
  <1>3. Tabled(c, s, wire["server"], wire["client"], granted)
    BY <1>1, SettledSessions DEF Joined, Core
  <1> HIDE DEF w
  <1>4. IsStream(w) /\ Quiet(w) /\ Still(w)
    <2>1. IsStream(w) /\ Quiet(w) /\ NoToken(w)
      BY <1>w, NothingSaid
    <2> QED
      BY <2>1 DEF NoToken, Still, Token, Moving
  <1>5. Tracked(w, TableOf(s, "server"), TableOf(c, "client"))
    BY <1>2, <1>3, <1>4 DEF Tabled
  <1>6. TableOf(c, "client") = TableOf(s, "server")
    BY <1>4, <1>5, TrackedStands
  <1>7. ours = LinkIn(c, "client") /\ theirs = LinkIn(s, "server")
    BY Locals
  <1>8. Table(ours) = Table(theirs)
    BY <1>6, <1>7 DEF TableOf
  <1> HIDE DEF ours, theirs
  <1>9. /\ ours.unsettled = theirs.unsettled
        /\ ours.delivery = theirs.delivery /\ ours.tag = theirs.tag
        /\ ours.settledMode = theirs.settledMode
        /\ ours.unsettledMode = theirs.unsettledMode
    BY <1>8 DEF Table
  <1> QED
    BY <1>9

-----------------------------------------------------------------------------
(* The theorems. *)

\* The invariant holds of every state: each end stands, but for what an end with
\* an error leaves behind, as the frames between the two will bring it to its
\* partner's.
THEOREM PairInvariant ==
    ASSUME Measured
    PROVE  Spec => []PairInv
  <1>1. PairInv /\ [Next]_vars => PairInv'
    BY PairSteps
  <1> QED
    BY PairStarts, <1>1, PTL DEF Spec

\* What one session lets its application send, its partner's takes: attaches,
\* flows, transfers, detaches and ends may cross as they will.
THEOREM PairRefusesNothing ==
    ASSUME Measured
    PROVE  Spec => []NothingRefused
  <1>1. PairInv => NothingRefused
    BY TakesWhatIsSent
  <1> QED
    BY PairInvariant, <1>1, PTL

\* The client's room is the server's less the transfers in flight, and the id
\* the server expects is that of the first of them, whatever flows crossed.
THEOREM PairWindowsAgree ==
    ASSUME Measured
    PROVE  Spec => []WindowsAgree
  <1>1. PairInv => WindowsAgree
    BY NumbersMeet
  <1> QED
    BY PairInvariant, <1>1, PTL

\* When nothing is in flight, the two ends of an attached link have counted the
\* same deliveries, and the sender's credit is what the receiver has granted
\* and not seen used.
THEOREM PairCountsAgree ==
    ASSUME Measured
    PROVE  Spec => []CountsAgree
  <1>1. PairInv => CountsAgree
    BY CountsMeet
  <1> QED
    BY PairInvariant, <1>1, PTL

\* When nothing is in flight, the two ends hold the same deliveries unsettled,
\* and agree on the one in progress.
THEOREM PairDeliveriesAgree ==
    ASSUME Measured
    PROVE  Spec => []DeliveriesAgree
  <1>1. PairInv => DeliveriesAgree
    BY TablesMeet
  <1> QED
    BY PairInvariant, <1>1, PTL

\* Begins and ends implement the first two stages of the handshake.
THEOREM PairSimulatesHandshake ==
    ASSUME Measured
    PROVE  Spec => ImplementsHandshake
  <1>1. PairInv /\ [Next]_vars => [H!Next]_(H!handshake)
    BY PairSteps
  <1> QED
    BY PairInvariant, PairSimulatesStart, <1>1, PTL DEF Spec, ImplementsHandshake
=============================================================================
