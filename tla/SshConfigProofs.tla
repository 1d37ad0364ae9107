-------------------------- MODULE SshConfigProofs ---------------------------
(***************************************************************************)
(* Proofs about SshConfig for every file, repository, key and line of the  *)
(* user's, and for any number of calls that overlap.  A block is written   *)
(* whatever else happens; the user's lines, the other blocks and the keys  *)
(* in them survive but for what an overtaken call puts back.               *)
(***************************************************************************)
EXTENDS SshConfig, FiniteSetTheorems, SequenceTheorems, TLAPS

Text == Seq(Lines)
Host(r, k) == [kind |-> "host", repo |-> r, key |-> k]

(* Every marker stands in a complete block of its repository.              *)
ShapedAt(text, i) ==
  /\ text[i].kind = "begin" =>
       i + 2 <= Len(text) /\ text[i + 1].kind = "host"
         /\ text[i + 1].repo = text[i].repo /\ text[i + 2] = End(text[i].repo)
  /\ text[i].kind = "host" => i > 1 /\ text[i - 1] = Begin(text[i].repo)
  /\ text[i].kind = "end" =>
       i > 1 /\ text[i - 1].kind = "host" /\ text[i - 1].repo = text[i].repo

Shaped(text) == \A i \in DOMAIN text : ShapedAt(text, i)

(* No other id starts with that of the repository; it starts with another. *)
Lonely(r) == \A s \in Repos \ {r} : ~StartsWith(s, r)
Stub(r) == \E s \in Repos \ {r} : StartsWith(r, s)

(* The block that begins here is the only one of its repository: that is   *)
(* so on a server, and where its marker is found in no other.              *)
Single(line, place) == line.kind = "begin" /\ (place = "server" \/ Lonely(line.repo))

(* No repository has two blocks, and nothing is left of a marker, except   *)
(* where a marker was found in another.                                    *)
Distinct(text, place) ==
  /\ \A i \in DOMAIN text : text[i].kind = "rest" => place # "server" /\ Stub(text[i].repo)
  /\ \A i, j \in DOMAIN text : Single(text[i], place) /\ text[i] = text[j] => i = j

(* The first block of the repository names the key.                        *)
HasKey(text, r, k) ==
  \E i \in DOMAIN text :
    /\ i + 1 \in DOMAIN text /\ text[i] = Begin(r) /\ text[i + 1] = Host(r, k)
    /\ \A j \in 1..(i - 1) : text[j] # Begin(r)

(* Between the lines i and i + 1 no block is cut.                          *)
Between(text, i) ==
  i \in 0..Len(text) /\ (i < Len(text) => text[i + 1].kind \notin {"host", "end"})

(* The lines begin as the new block does, with its marker in front only.   *)
Fresh(mid, r, k) ==
  /\ 2 \in DOMAIN mid /\ mid[1] = Begin(r) /\ mid[2] = Host(r, k)
  /\ \A i \in DOMAIN mid : mid[i].kind # "user" /\ (mid[i].kind = "begin" => i = 1)

(* The new block in place of one of repository q.                          *)
Given(mid, r, k, q) ==
  IF q = r THEN mid = Block(r, k) ELSE mid = Block(r, k) \o <<Rest(q)>>

(* n lines behind line lo have given way to the lines mid.                 *)
Splice(new, text, lo, n, mid) ==
  /\ new \in Text
  /\ Len(new) = Len(text) - n + Len(mid)
  /\ \A i \in 1..lo : new[i] = text[i]
  /\ \A i \in 1..Len(mid) : new[lo + i] = mid[i]
  /\ \A i \in (lo + n + 1)..Len(text) : new[i - n + Len(mid)] = text[i]
-----------------------------------------------------------------------------
LEMMA LineForms ==
  ASSUME NEW l \in Lines
  PROVE  /\ l.kind \in {"begin", "end", "host", "rest", "user"}
         /\ l.kind = "begin" => l.repo \in Repos /\ l = Begin(l.repo)
         /\ l.kind = "end" => l.repo \in Repos /\ l = End(l.repo)
         /\ l.kind = "host" => l.repo \in Repos /\ l.key \in Keys /\ l = Host(l.repo, l.key)
BY DEF Lines, Begin, End, Host

LEMMA BlockLines ==
  ASSUME NEW r \in Repos, NEW k \in Keys
  PROVE  /\ Begin(r) \in Lines /\ Begin(r).kind = "begin" /\ Begin(r).repo = r
         /\ End(r) \in Lines /\ End(r).kind = "end" /\ End(r).repo = r
         /\ Host(r, k) \in Lines /\ Host(r, k).kind = "host" /\ Host(r, k).repo = r
         /\ Host(r, k).key = k
         /\ Rest(r) \in Lines /\ Rest(r).kind = "rest" /\ Rest(r).repo = r
BY DEF Lines, Begin, End, Host, Rest

LEMMA BlockText ==
  ASSUME NEW r \in Repos, NEW k \in Keys
  PROVE  /\ Block(r, k) \in Text /\ Len(Block(r, k)) = 3
         /\ Block(r, k)[1] = Begin(r) /\ Block(r, k)[2] = Host(r, k) /\ Block(r, k)[3] = End(r)
BY BlockLines DEF Block, Text, Host

LEMMA Joined ==
  ASSUME NEW a \in Text, NEW b \in Text
  PROVE  /\ a \o b \in Text /\ Len(a \o b) = Len(a) + Len(b)
         /\ \A i \in 1..Len(a) : (a \o b)[i] = a[i]
         /\ \A i \in 1..Len(b) : (a \o b)[Len(a) + i] = b[i]
<1>1. a \o b \in Text /\ Len(a \o b) = Len(a) + Len(b) BY DEF Text
<1>2. \A i \in 1..Len(a) : (a \o b)[i] = a[i] BY DEF Text
<1>3. \A i \in 1..Len(b) : (a \o b)[Len(a) + i] = b[i] BY DEF Text
<1> QED BY <1>1, <1>2, <1>3

(* The lines of a spliced text, one by one.                                *)
LEMMA SplicedLines ==
  ASSUME NEW text \in Text, NEW lo \in Nat, NEW n \in Nat, lo + n <= Len(text), NEW mid \in Text
  PROVE  Splice(SubSeq(text, 1, lo) \o mid \o SubSeq(text, lo + n + 1, Len(text)),
                text, lo, n, mid)
<1> DEFINE a == SubSeq(text, 1, lo)
           c == SubSeq(text, lo + n + 1, Len(text))
           d == a \o mid
           new == d \o c
<1>1. a \in Text /\ Len(a) = lo /\ \A i \in 1..lo : a[i] = text[i] BY DEF Text
<1>2. c \in Text /\ Len(c) = Len(text) - lo - n /\ \A i \in 1..Len(c) : c[i] = text[lo + n + i]
  BY DEF Text
<1> HIDE DEF a, c
<1>4. /\ d \in Text /\ Len(d) = lo + Len(mid)
      /\ \A i \in 1..lo : d[i] = text[i]
      /\ \A i \in 1..Len(mid) : d[lo + i] = mid[i]
  BY <1>1, Joined
<1> HIDE DEF d
<1>5. /\ new \in Text /\ Len(new) = Len(d) + Len(c)
      /\ \A i \in 1..Len(d) : new[i] = d[i]
      /\ \A i \in 1..Len(c) : new[Len(d) + i] = c[i]
  <2>1. d \in Text /\ c \in Text BY <1>2, <1>4
  <2> QED BY <2>1, Joined
<1> HIDE DEF new
<1>6. Len(mid) \in Nat /\ Len(text) \in Nat BY DEF Text
<1>7. \A i \in 1..lo : new[i] = text[i]
  <2>1. \A i \in 1..lo : i \in 1..Len(d) BY <1>4, <1>6
  <2> QED BY <1>4, <1>5, <2>1
<1>8. \A i \in 1..Len(mid) : new[lo + i] = mid[i]
  <2>1. \A i \in 1..Len(mid) : lo + i \in 1..Len(d) BY <1>4, <1>6
  <2> QED BY <1>4, <1>5, <2>1
<1>9. \A i \in (lo + n + 1)..Len(text) : new[i - n + Len(mid)] = text[i]
  <2> TAKE i \in (lo + n + 1)..Len(text)
  <2>1. i - lo - n \in 1..Len(c) /\ Len(d) + (i - lo - n) = i - n + Len(mid)
        /\ lo + n + (i - lo - n) = i
    BY <1>2, <1>4, <1>6
  <2> QED BY ZenonT(60), <1>2, <1>5, <2>1
<1>10. Len(new) = Len(text) - n + Len(mid) BY <1>2, <1>4, <1>5, <1>6
<1>11. Splice(new, text, lo, n, mid) BY <1>5, <1>7, <1>8, <1>9, <1>10 DEF Splice
<1> QED BY <1>11 DEF new, d, a, c

(* A line stands as well in another text if its neighbours came along.     *)
LEMMA StandsAsWell ==
  ASSUME NEW text \in Text, NEW new \in Text, NEW i \in DOMAIN text, NEW j \in DOMAIN new,
         ShapedAt(text, i), new[j] = text[i],
         text[i].kind = "begin" =>
           j + 2 <= Len(new) /\ new[j + 1] = text[i + 1] /\ new[j + 2] = text[i + 2],
         text[i].kind \in {"host", "end"} => j > 1 /\ new[j - 1] = text[i - 1]
  PROVE  ShapedAt(new, j)
BY DEF ShapedAt

(* Complete blocks put between the blocks of a text in exchange for others *)
(* leave its blocks complete.                                              *)
LEMMA SpliceShaped ==
  ASSUME NEW text \in Text, NEW lo \in Nat, NEW n \in Nat, lo + n <= Len(text), NEW mid \in Text,
         NEW new, Splice(new, text, lo, n, mid),
         Shaped(text), Shaped(mid), Between(text, lo), Between(text, lo + n)
  PROVE  Shaped(new)
<1> DEFINE m == Len(mid)
           L == Len(text)
<1>0. /\ new \in Text
      /\ Len(new) = L - n + m
      /\ \A i \in 1..lo : new[i] = text[i]
      /\ \A i \in 1..m : new[lo + i] = mid[i]
      /\ \A i \in (lo + n + 1)..L : new[i - n + m] = text[i]
  BY DEF Splice
<1>1. m \in Nat /\ L \in Nat /\ DOMAIN text = 1..L /\ DOMAIN mid = 1..m
      /\ DOMAIN new = 1..(L - n + m) /\ lo + n <= L
  BY <1>0 DEF Text
<1> HIDE DEF m, L
<1>2. \A r : End(r).kind = "end" BY DEF End
<1> SUFFICES ASSUME NEW j \in DOMAIN new PROVE ShapedAt(new, j) BY DEF Shaped
<1>3. CASE j <= lo
  <2>1. j \in DOMAIN text /\ j \in 1..lo /\ new[j] = text[j] BY <1>0, <1>1, <1>3
  <2>2. ShapedAt(text, j) BY <2>1 DEF Shaped
  <2>3. ASSUME text[j].kind = "begin"
        PROVE  j + 2 <= Len(new) /\ new[j + 1] = text[j + 1] /\ new[j + 2] = text[j + 2]
    <3>1. j + 2 <= L /\ text[j + 1].kind = "host" /\ text[j + 2].kind = "end"
      BY <1>1, <1>2, <2>2, <2>3 DEF ShapedAt, L
    <3>2. lo < L => text[lo + 1].kind \notin {"host", "end"} BY <1>1 DEF Between, L
    <3>3. j + 1 # lo + 1 BY <1>1, <3>1, <3>2
    <3>4. j + 2 # lo + 1 BY <1>1, <3>1, <3>2
    <3>5. j + 1 \in 1..lo /\ j + 2 \in 1..lo /\ j + 2 <= L - n + m BY <1>1, <1>3, <3>3, <3>4
    <3> QED BY <1>0, <3>5
  <2>4. ASSUME text[j].kind \in {"host", "end"} PROVE j > 1 /\ new[j - 1] = text[j - 1]
    <3>1. j > 1 BY <2>2, <2>4 DEF ShapedAt
    <3>2. j - 1 \in 1..lo BY <1>1, <1>3, <3>1
    <3> QED BY <1>0, <3>1, <3>2
  <2> QED BY <1>0, <2>1, <2>2, <2>3, <2>4, StandsAsWell
<1>4. CASE lo < j /\ j <= lo + m
  <2> DEFINE p == j - lo
  <2>1. p \in 1..m /\ p \in DOMAIN mid /\ new[j] = mid[p] /\ j = lo + p BY <1>0, <1>1, <1>4
  <2>2. ShapedAt(mid, p) BY <2>1 DEF Shaped
  <2> HIDE DEF p
  <2>3. ASSUME mid[p].kind = "begin"
        PROVE  j + 2 <= Len(new) /\ new[j + 1] = mid[p + 1] /\ new[j + 2] = mid[p + 2]
    <3>1. p + 2 <= m BY <2>2, <2>3 DEF ShapedAt, m
    <3>2. p + 1 \in 1..m /\ p + 2 \in 1..m /\ j + 1 = lo + (p + 1) /\ j + 2 = lo + (p + 2)
          /\ j + 2 <= L - n + m
      BY <1>1, <1>4, <2>1, <3>1
    <3> QED BY <1>0, <3>2
  <2>4. ASSUME mid[p].kind \in {"host", "end"} PROVE j > 1 /\ new[j - 1] = mid[p - 1]
    <3>1. p > 1 BY <2>2, <2>4 DEF ShapedAt
    <3>2. p - 1 \in 1..m /\ j - 1 = lo + (p - 1) /\ j > 1 BY <1>1, <2>1, <3>1
    <3> QED BY <1>0, <3>2
  <2> QED BY <1>0, <2>1, <2>2, <2>3, <2>4, StandsAsWell
<1>5. CASE j > lo + m
  <2> DEFINE p == j + n - m
  <2>1. p \in Nat /\ lo + n + 1 <= p /\ p <= L /\ p \in DOMAIN text /\ j = p - n + m BY <1>1, <1>5
  <2> HIDE DEF p
  <2>2. ShapedAt(text, p) /\ new[j] = text[p] BY <1>0, <2>1 DEF Shaped
  <2>3. ASSUME text[p].kind = "begin"
        PROVE  j + 2 <= Len(new) /\ new[j + 1] = text[p + 1] /\ new[j + 2] = text[p + 2]
    <3>1. p + 2 <= L BY <2>2, <2>3 DEF ShapedAt, L
    <3>2. p + 1 \in (lo + n + 1)..L /\ p + 2 \in (lo + n + 1)..L
          /\ j + 1 = (p + 1) - n + m /\ j + 2 = (p + 2) - n + m /\ j + 2 <= L - n + m
      BY <1>1, <1>5, <2>1, <3>1
    <3>3. new[(p + 1) - n + m] = text[p + 1] BY <1>0, <3>2
    <3>4. new[(p + 2) - n + m] = text[p + 2] BY <1>0, <3>2
    <3> QED BY <1>0, <3>2, <3>3, <3>4
  <2>4. ASSUME text[p].kind \in {"host", "end"} PROVE j > 1 /\ new[j - 1] = text[p - 1]
    <3>1. lo + n < L => text[lo + n + 1].kind \notin {"host", "end"} BY <1>1 DEF Between, L
    <3>3. p # lo + n + 1 BY <1>1, <2>1, <2>4, <3>1
    <3>2. p - 1 \in (lo + n + 1)..L /\ j - 1 = (p - 1) - n + m /\ j > 1
      BY <1>1, <1>5, <2>1, <3>3
    <3> QED BY <1>0, <3>2
  <2> QED BY <1>0, <2>1, <2>2, <2>3, <2>4, StandsAsWell
<1> QED BY <1>1, <1>3, <1>4, <1>5

(* Where a line of the new text comes from.                                *)
LEMMA Origin ==
  ASSUME NEW text \in Text, NEW lo \in Nat, NEW n \in Nat, lo + n <= Len(text), NEW mid \in Text,
         NEW new, Splice(new, text, lo, n, mid), NEW j \in DOMAIN new
  PROVE  \/ j \in 1..lo /\ new[j] = text[j]
         \/ j - lo \in 1..Len(mid) /\ new[j] = mid[j - lo]
         \/ /\ j + n - Len(mid) \in (lo + n + 1)..Len(text)
            /\ new[j] = text[j + n - Len(mid)]
<1>1. /\ Len(text) \in Nat /\ Len(mid) \in Nat /\ DOMAIN new = 1..Len(new)
      /\ Len(new) = Len(text) - n + Len(mid)
  BY DEF Splice, Text
<1>2. j \in Nat /\ 1 <= j /\ j <= Len(text) - n + Len(mid) BY <1>1
<1>3. CASE j <= lo BY <1>2, <1>3 DEF Splice
<1>4. CASE lo < j /\ j <= lo + Len(mid)
  <2>1. j - lo \in 1..Len(mid) /\ lo + (j - lo) = j BY <1>1, <1>2, <1>4
  <2>2. new[lo + (j - lo)] = mid[j - lo] BY <2>1 DEF Splice
  <2> QED BY <2>1, <2>2
<1>5. CASE lo + Len(mid) < j
  <2> DEFINE p == j + n - Len(mid)
  <2>1. p \in (lo + n + 1)..Len(text) /\ p - n + Len(mid) = j BY <1>1, <1>2, <1>5
  <2>2. new[p - n + Len(mid)] = text[p] BY <2>1 DEF Splice
  <2> QED BY <2>1, <2>2
<1> QED BY <1>1, <1>2, <1>3, <1>4, <1>5

LEMMA SpliceDistinct ==
  ASSUME NEW text \in Text, NEW lo \in Nat, NEW n \in Nat, lo + n <= Len(text), NEW mid \in Text,
         NEW new, Splice(new, text, lo, n, mid), NEW s, Distinct(text, s), Distinct(mid, s),
         \A p \in DOMAIN mid, i \in DOMAIN text :
           Single(mid[p], s) /\ text[i] = mid[p] => i \in (lo + 1)..(lo + n)
  PROVE  Distinct(new, s)
<1> DEFINE m == Len(mid)
           L == Len(text)
           Left(j) == j \in 1..lo /\ new[j] = text[j]
           Put(j) == j - lo \in 1..m /\ new[j] = mid[j - lo]
           Right(j) == j + n - m \in (lo + n + 1)..L /\ new[j] = text[j + n - m]
<1>1. /\ m \in Nat /\ L \in Nat /\ DOMAIN text = 1..L /\ DOMAIN mid = 1..m /\ lo + n <= L
      /\ DOMAIN new \subseteq Nat
  BY DEF Splice, Text
<1>2. ASSUME NEW j \in DOMAIN new PROVE Left(j) \/ Put(j) \/ Right(j)
  <2>1. \/ j \in 1..lo /\ new[j] = text[j]
        \/ j - lo \in 1..Len(mid) /\ new[j] = mid[j - lo]
        \/ /\ j + n - Len(mid) \in (lo + n + 1)..Len(text)
           /\ new[j] = text[j + n - Len(mid)]
    BY Origin
  <2> QED BY <2>1
<1>3. \A j \in DOMAIN new : new[j].kind = "rest" => s # "server" /\ Stub(new[j].repo)
  <2> TAKE j \in DOMAIN new
  <2> QED BY <1>1, <1>2 DEF Distinct
<1>4. ASSUME NEW i \in DOMAIN new, NEW j \in DOMAIN new, Single(new[i], s), new[i] = new[j]
      PROVE  i = j
  <2>1. i \in Nat /\ j \in Nat BY <1>1
  <2>2. ASSUME NEW a \in DOMAIN new, NEW b \in DOMAIN new, Single(new[a], s), new[a] = new[b],
               Put(a), ~Put(b)
        PROVE  FALSE
    <3> Left(b) \/ Right(b) BY <1>2, <2>2
    <3>4. 1..lo \subseteq DOMAIN text /\ (lo + n + 1)..L \subseteq DOMAIN text BY <1>1
    <3>1. \/ b \in 1..lo /\ text[b] = mid[a - lo] /\ b \in DOMAIN text
          \/ /\ b + n - m \in (lo + n + 1)..L /\ text[b + n - m] = mid[a - lo]
             /\ b + n - m \in DOMAIN text
      BY <2>2, <3>4
    <3>2. Single(mid[a - lo], s) /\ a - lo \in DOMAIN mid BY <1>1, <2>2
    <3>3. \/ b \in (lo + 1)..(lo + n) /\ b \in 1..lo
          \/ b + n - m \in (lo + 1)..(lo + n) /\ b + n - m \in (lo + n + 1)..L
      BY <3>1, <3>2
    <3> QED BY <1>1, <3>3
  <2>3. CASE Put(i) /\ Put(j)
    <3>1. i - lo = j - lo BY <1>1, <1>4, <2>3 DEF Distinct
    <3> QED BY <2>1, <3>1
  <2>4. CASE ~Put(i) /\ ~Put(j)
    <3>1. Left(i) \/ Right(i) BY <1>2, <2>4
    <3>2. Left(j) \/ Right(j) BY <1>2, <2>4
    <3>3. ASSUME NEW p \in DOMAIN text, NEW q \in DOMAIN text, text[p] = text[q],
                 Single(text[p], s)
          PROVE  p = q
      BY <3>3 DEF Distinct
    <3>8. 1..lo \subseteq DOMAIN text /\ (lo + n + 1)..L \subseteq DOMAIN text BY <1>1
    <3>4. CASE Left(i) /\ Left(j) BY <1>4, <3>3, <3>4, <3>8
    <3>5. CASE Left(i) /\ Right(j)
      <4>1. i = j + n - m BY <1>4, <3>3, <3>5, <3>8
      <4> QED BY <1>1, <3>5, <4>1
    <3>6. CASE Right(i) /\ Left(j)
      <4>1. i + n - m = j BY <1>4, <3>3, <3>6, <3>8
      <4> QED BY <1>1, <3>6, <4>1
    <3>7. CASE Right(i) /\ Right(j)
      <4>1. i + n - m = j + n - m BY <1>4, <3>3, <3>7, <3>8
      <4> QED BY <1>1, <2>1, <4>1
    <3> QED BY <3>1, <3>2, <3>4, <3>5, <3>6, <3>7
  <2> QED BY <1>4, <2>2, <2>3, <2>4
<1> QED BY <1>3, <1>4 DEF Distinct

(* Lines behind a splice of n lines for m, and the ones after them.        *)
LEMMA BehindSplice ==
  ASSUME NEW len \in Nat, NEW m \in Nat, NEW lo \in Nat, NEW n \in Nat, NEW i \in Nat,
         lo + n < i, i + 1 <= len
  PROVE  /\ i \in (lo + n + 1)..len /\ i + 1 \in (lo + n + 1)..len
         /\ (i + 1) - n + m = (i - n + m) + 1
         /\ i - n + m \in 1..(len - n + m) /\ (i - n + m) + 1 \in 1..(len - n + m)
  OBVIOUS

(* A block that is not taken out is still there, and still the first.      *)
LEMMA SpliceKeys ==
  ASSUME NEW text \in Text, NEW lo \in Nat, NEW n \in Nat, lo + n <= Len(text), NEW mid \in Text,
         NEW new, Splice(new, text, lo, n, mid), Between(text, lo), Between(text, lo + n),
         NEW r, NEW k, HasKey(text, r, k),
         \A i \in (lo + 1)..(lo + n) : text[i] # Begin(r),
         \A p \in DOMAIN mid : mid[p] # Begin(r)
  PROVE  HasKey(new, r, k)
<1>1. /\ Len(text) \in Nat /\ Len(mid) \in Nat /\ DOMAIN new = 1..Len(new)
      /\ Len(new) = Len(text) - n + Len(mid) /\ DOMAIN text = 1..Len(text)
      /\ DOMAIN mid = 1..Len(mid)
  BY DEF Splice, Text
<1>2. PICK i \in DOMAIN text :
        /\ i + 1 \in DOMAIN text /\ text[i] = Begin(r) /\ text[i + 1] = Host(r, k)
        /\ \A j \in 1..(i - 1) : text[j] # Begin(r)
  BY DEF HasKey
<1>3. i \in Nat /\ 1 <= i /\ i + 1 <= Len(text) /\ i \notin (lo + 1)..(lo + n) BY <1>1, <1>2
<1>4. text[i + 1].kind = "host" BY <1>2 DEF Host
<1>5. CASE i <= lo
  <2>1. lo < Len(text) => text[lo + 1].kind # "host" BY DEF Between
  <2>2. i + 1 # lo + 1 BY <1>1, <1>3, <1>4, <2>1
  <2>3. i \in 1..lo /\ i + 1 \in 1..lo /\ i \in 1..Len(new) /\ i + 1 \in 1..Len(new)
    BY <1>1, <1>3, <1>5, <2>2
  <2>4. new[i] = text[i] /\ new[i + 1] = text[i + 1] BY <2>3 DEF Splice
  <2>5. \A j \in 1..(i - 1) : new[j] # Begin(r)
    <3> TAKE j \in 1..(i - 1)
    <3>1. j \in 1..lo BY <1>3, <1>5
    <3>2. new[j] = text[j] BY <3>1 DEF Splice
    <3> QED BY <1>2, <3>2
  <2> QED BY <1>1, <1>2, <2>3, <2>4, <2>5 DEF HasKey
<1>6. CASE i > lo + n
  <2> DEFINE j == i - n + Len(mid)
  <2>1. /\ i \in (lo + n + 1)..Len(text) /\ i + 1 \in (lo + n + 1)..Len(text)
        /\ (i + 1) - n + Len(mid) = j + 1 /\ j \in 1..Len(new) /\ j + 1 \in 1..Len(new)
    <3> DEFINE l == Len(text)
               m == Len(mid)
    <3>1. /\ l \in Nat /\ m \in Nat /\ Len(new) = l - n + m
          /\ i \in Nat /\ lo + n < i /\ i + 1 <= l
      BY <1>1, <1>3, <1>6
    <3> HIDE DEF l, m
    <3>2. /\ i \in (lo + n + 1)..l /\ i + 1 \in (lo + n + 1)..l
          /\ (i + 1) - n + m = (i - n + m) + 1
          /\ i - n + m \in 1..(l - n + m) /\ (i - n + m) + 1 \in 1..(l - n + m)
      BY <3>1, BehindSplice
    <3> QED BY <3>1, <3>2 DEF l, m
  <2>2. new[j] = text[i] BY <2>1 DEF Splice
  <2>3. new[(i + 1) - n + Len(mid)] = text[i + 1] BY <2>1 DEF Splice
  <2>4. new[j + 1] = text[i + 1] BY <2>1, <2>3
  <2>6. j = i - n + Len(mid) OBVIOUS
  <2> HIDE DEF j
  <2>5. \A x \in 1..(j - 1) : new[x] # Begin(r)
    <3> TAKE x \in 1..(j - 1)
    <3>1. x \in DOMAIN new /\ x \in Nat /\ x >= 1 /\ x < i - n + Len(mid)
      <4>1. /\ j \in 1..Len(new) /\ Len(new) \in Nat /\ DOMAIN new = 1..Len(new)
            /\ x \in 1..(j - 1)
        BY <1>1, <1>3, <2>1
      <4>2. x \in 1..Len(new) /\ x < j BY <4>1
      <4> QED BY <2>6, <4>1, <4>2
    <3>2. \/ x \in 1..lo /\ new[x] = text[x]
          \/ x - lo \in 1..Len(mid) /\ new[x] = mid[x - lo]
          \/ /\ x + n - Len(mid) \in (lo + n + 1)..Len(text)
             /\ new[x] = text[x + n - Len(mid)]
      BY <3>1, Origin
    <3>3. CASE x \in 1..lo /\ new[x] = text[x]
      <4>1. x \in 1..(i - 1) BY <1>3, <1>6, <3>3
      <4> QED BY <1>2, <3>3, <4>1
    <3>4. CASE x - lo \in 1..Len(mid) /\ new[x] = mid[x - lo] BY <1>1, <3>4
    <3>5. CASE /\ x + n - Len(mid) \in (lo + n + 1)..Len(text)
               /\ new[x] = text[x + n - Len(mid)]
      <4>1. x + n - Len(mid) \in 1..(i - 1) BY <1>1, <1>3, <3>1, <3>5
      <4> QED BY <1>2, <3>5, <4>1
    <3> QED BY <3>2, <3>3, <3>4, <3>5
  <2> QED BY <1>1, <1>2, <2>1, <2>2, <2>4, <2>5 DEF HasKey
<1> QED BY <1>3, <1>5, <1>6

(* The user's lines keep their order and number when no line of theirs is  *)
(* taken out or put in.                                                    *)
LEMMA SpliceUsers ==
  ASSUME NEW text \in Text, NEW lo \in Nat, NEW n \in Nat, lo + n <= Len(text), NEW mid \in Text,
         NEW new, Splice(new, text, lo, n, mid),
         \A i \in DOMAIN mid : mid[i].kind # "user",
         \A i \in (lo + 1)..(lo + n) : text[i].kind # "user"
  PROVE  UserLines(new) = UserLines(text)
<1> DEFINE f(i) == IF i <= lo THEN i ELSE i - n + Len(mid)
<1>1. /\ Len(text) \in Nat /\ Len(mid) \in Nat /\ DOMAIN new = 1..Len(new)
      /\ Len(new) = Len(text) - n + Len(mid) /\ DOMAIN text = 1..Len(text)
      /\ DOMAIN mid = 1..Len(mid)
  BY DEF Splice, Text
<1>2. ASSUME NEW i \in OwnAt(text)
      PROVE  /\ i \in Nat /\ 1 <= i /\ (i <= lo \/ i > lo + n)
             /\ f(i) \in OwnAt(new) /\ new[f(i)] = text[i]
  <2>1. i \in Nat /\ 1 <= i /\ i <= Len(text) /\ text[i].kind = "user" BY <1>1 DEF OwnAt
  <2>2. i <= lo \/ i > lo + n BY <2>1
  <2>3. CASE i <= lo
    <3>1. i \in 1..lo /\ i \in 1..Len(new) /\ f(i) = i BY <1>1, <2>1, <2>3
    <3>2. new[i] = text[i] BY <3>1 DEF Splice
    <3> QED BY <1>1, <2>1, <2>2, <3>1, <3>2 DEF OwnAt
  <2>4. CASE i > lo + n
    <3>1. /\ i \in (lo + n + 1)..Len(text) /\ i - n + Len(mid) \in 1..Len(new)
          /\ f(i) = i - n + Len(mid)
      BY <1>1, <2>1, <2>4
    <3>2. new[i - n + Len(mid)] = text[i] BY <3>1 DEF Splice
    <3> HIDE DEF f
    <3> QED BY <1>1, <2>1, <2>2, <3>1, <3>2 DEF OwnAt
  <2> QED BY <2>2, <2>3, <2>4
<1>3. ASSUME NEW j \in OwnAt(new) PROVE \E i \in OwnAt(text) : j = f(i)
  <2>1. j \in DOMAIN new /\ j \in Nat /\ new[j].kind = "user" BY <1>1 DEF OwnAt
  <2>2. \/ j \in 1..lo /\ new[j] = text[j]
        \/ j - lo \in 1..Len(mid) /\ new[j] = mid[j - lo]
        \/ /\ j + n - Len(mid) \in (lo + n + 1)..Len(text)
           /\ new[j] = text[j + n - Len(mid)]
    BY <2>1, Origin
  <2>3. CASE j \in 1..lo /\ new[j] = text[j]
    <3>1. j \in OwnAt(text) /\ f(j) = j BY <1>1, <2>1, <2>3 DEF OwnAt
    <3> QED BY <3>1
  <2>4. CASE /\ j + n - Len(mid) \in (lo + n + 1)..Len(text)
             /\ new[j] = text[j + n - Len(mid)]
    <3> DEFINE p == j + n - Len(mid)
    <3>1. p \in OwnAt(text) BY <1>1, <2>1, <2>4 DEF OwnAt
    <3>2. f(p) = j BY <1>1, <2>1, <2>4
    <3> QED BY <3>1, <3>2
  <2> QED BY <1>1, <2>1, <2>2, <2>3, <2>4
<1>4. \A i, p \in OwnAt(text) : f(i) <= f(p) <=> i <= p
  <2> TAKE i, p \in OwnAt(text)
  <2>1. i \in Nat /\ 1 <= i /\ (i <= lo \/ i > lo + n) BY <1>2
  <2>2. p \in Nat /\ 1 <= p /\ (p <= lo \/ p > lo + n) BY <1>2
  <2> QED BY <1>1, <2>1, <2>2
<1>5. \A i \in OwnAt(text) : f(i) \in Nat /\ 1 <= f(i)
  <2> TAKE i \in OwnAt(text)
  <2>1. f(i) \in DOMAIN new BY <1>2 DEF OwnAt
  <2> QED BY <1>1, <2>1
<1>6. \A i \in OwnAt(text) :
        f(i) \in OwnAt(new) /\ new[f(i)] = text[i] /\ i \in Nat /\ 1 <= i
  BY <1>2
<1> HIDE DEF f
<1>7. ASSUME NEW i \in OwnAt(text)
      PROVE  Cardinality(OwnAt(new) \cap 1..f(i)) = Cardinality(OwnAt(text) \cap 1..i)
  <2> DEFINE S == OwnAt(text) \cap 1..i
             T == OwnAt(new) \cap 1..f(i)
             g == [p \in S |-> f(p)]
  <2>1. IsFiniteSet(S)
    <3>1. i \in Int /\ 1 \in Int BY <1>6
    <3>2. IsFiniteSet(1..i) BY <3>1, FS_Interval
    <3>3. S \in SUBSET (1..i) OBVIOUS
    <3> QED BY <3>2, <3>3, FS_Subset
  <2>2. \A p \in S : f(p) \in T
    <3> TAKE p \in S
    <3>1. f(p) <= f(i) /\ f(p) \in Nat /\ f(i) \in Nat /\ 1 <= f(p) /\ f(p) \in OwnAt(new)
      BY <1>4, <1>5, <1>6
    <3> QED BY <3>1
  <2>3. \A j \in T : \E p \in S : g[p] = j
    <3> TAKE j \in T
    <3>1. PICK p \in OwnAt(text) : j = f(p) BY <1>3
    <3>2. f(p) <= f(i) /\ p \in Nat /\ 1 <= p /\ i \in Nat BY <1>5, <1>6, <3>1
    <3>3. p <= i BY <1>4, <3>2
    <3>4. p \in S BY <3>2, <3>3
    <3> QED BY <3>1, <3>4
  <2>4. \A p, q \in S : g[p] = g[q] => p = q
    <3> TAKE p, q \in S
    <3> HAVE g[p] = g[q]
    <3>1. p \in OwnAt(text) /\ q \in OwnAt(text) /\ f(p) = f(q) OBVIOUS
    <3>2. f(p) <= f(q) /\ f(q) <= f(p) BY <1>5, <3>1
    <3>3. p <= q /\ q <= p BY <1>4, <3>1, <3>2
    <3> QED BY <1>6, <3>1, <3>3
  <2>5. g \in [S -> T] BY <2>2
  <2>6. g \in Bijection(S, T)
    <3> HIDE DEF g, S, T
    <3> QED BY <2>3, <2>4, <2>5 DEF Bijection, Injection, Surjection, IsInjective
  <2>7. ExistsBijection(S, T) BY <2>6 DEF ExistsBijection
  <2> HIDE DEF S, T
  <2>8. Cardinality(T) = Cardinality(S) BY <2>1, <2>7, FS_Bijection
  <2> QED BY <2>8 DEF S, T
<1>8. ASSUME NEW x \in UserLines(text) PROVE x \in UserLines(new)
  <2>1. PICK i \in OwnAt(text) : x = <<Cardinality(OwnAt(text) \cap 1..i), text[i]>>
    BY DEF UserLines
  <2>2. x = <<Cardinality(OwnAt(new) \cap 1..f(i)), new[f(i)]>> /\ f(i) \in OwnAt(new)
    BY <1>6, <1>7, <2>1
  <2> QED BY <2>2 DEF UserLines
<1>9. ASSUME NEW x \in UserLines(new) PROVE x \in UserLines(text)
  <2>1. PICK j \in OwnAt(new) : x = <<Cardinality(OwnAt(new) \cap 1..j), new[j]>>
    BY DEF UserLines
  <2>2. PICK i \in OwnAt(text) : j = f(i) BY <1>3
  <2>3. x = <<Cardinality(OwnAt(text) \cap 1..i), text[i]>> BY <1>6, <1>7, <2>1, <2>2
  <2> QED BY <2>3 DEF UserLines
<1> QED BY <1>8, <1>9
-----------------------------------------------------------------------------
(* The new block stands for itself, whatever is left on its last line.     *)
LEMMA BlockStands ==
  ASSUME NEW r \in Repos, NEW k \in Keys
  PROVE  /\ Shaped(Block(r, k)) /\ \A s : Distinct(Block(r, k), s)
         /\ Fresh(Block(r, k), r, k)
<1> DEFINE m == Block(r, k)
<1>1. m \in Text /\ Len(m) = 3 /\ m[1] = Begin(r) /\ m[2] = Host(r, k) /\ m[3] = End(r)
      /\ DOMAIN m = 1..3
  BY BlockText DEF Text
<1> HIDE DEF m
<1>2. \A i \in DOMAIN m : i = 1 \/ i = 2 \/ i = 3 BY <1>1
<1>3. m[1].kind = "begin" /\ m[1].repo = r /\ m[2].kind = "host" /\ m[2].repo = r
      /\ m[3].kind = "end" /\ m[3].repo = r
  BY <1>1, BlockLines
<1>4. ShapedAt(m, 1) /\ ShapedAt(m, 2) /\ ShapedAt(m, 3) BY <1>1, <1>3 DEF ShapedAt
<1>5. Shaped(m) BY <1>2, <1>4 DEF Shaped
<1>6. \A i \in DOMAIN m : m[i].kind = "begin" => i = 1 BY <1>2, <1>3
<1>7. \A s : Distinct(m, s) BY <1>2, <1>3, <1>6 DEF Distinct, Single
<1>8. \A i \in DOMAIN m : m[i].kind # "user" BY <1>2, <1>3
<1>9. Fresh(m, r, k) BY <1>1, <1>6, <1>8 DEF Fresh
<1> QED BY <1>5, <1>7, <1>9 DEF m

LEMMA RestStands ==
  ASSUME NEW r \in Repos, NEW k \in Keys, NEW q \in Repos,
         NEW mid, mid = Block(r, k) \o <<Rest(q)>>
  PROVE  /\ Shaped(mid) /\ Fresh(mid, r, k)
         /\ Stub(q) => Distinct(mid, "here")
<1>1. <<Rest(q)>> \in Text /\ Len(<<Rest(q)>>) = 1 /\ <<Rest(q)>>[1] = Rest(q)
  BY BlockLines DEF Text
<1>2. Block(r, k) \in Text /\ Len(Block(r, k)) = 3 /\ Block(r, k)[1] = Begin(r)
      /\ Block(r, k)[2] = Host(r, k) /\ Block(r, k)[3] = End(r)
  BY BlockText
<1>3. mid \in Text /\ Len(mid) = 4 /\ mid[1] = Begin(r) /\ mid[2] = Host(r, k) /\ mid[3] = End(r)
      /\ mid[4] = Rest(q)
  <2>1. /\ mid \in Text /\ Len(mid) = Len(Block(r, k)) + Len(<<Rest(q)>>)
        /\ \A i \in 1..Len(Block(r, k)) : mid[i] = Block(r, k)[i]
        /\ \A i \in 1..Len(<<Rest(q)>>) : mid[Len(Block(r, k)) + i] = <<Rest(q)>>[i]
    BY <1>1, <1>2, Joined
  <2> QED BY <1>1, <1>2, <2>1
<1>4. DOMAIN mid = 1..4 BY <1>3 DEF Text
<1>5. \A i \in DOMAIN mid : i = 1 \/ i = 2 \/ i = 3 \/ i = 4 BY <1>4
<1>6. mid[1].kind = "begin" /\ mid[1].repo = r /\ mid[2].kind = "host" /\ mid[2].repo = r
      /\ mid[3].kind = "end" /\ mid[3].repo = r /\ mid[4].kind = "rest" /\ mid[4].repo = q
  BY <1>3, BlockLines
<1>7. ShapedAt(mid, 1) /\ ShapedAt(mid, 2) /\ ShapedAt(mid, 3) /\ ShapedAt(mid, 4)
  BY <1>3, <1>6 DEF ShapedAt
<1>8. \A i \in DOMAIN mid : mid[i].kind = "begin" => i = 1 BY <1>5, <1>6
<1>9. Stub(q) => Distinct(mid, "here") BY <1>5, <1>6, <1>8 DEF Distinct, Single
<1>10. \A i \in DOMAIN mid : mid[i].kind # "user" BY <1>5, <1>6
<1>11. Fresh(mid, r, k) BY <1>3, <1>4, <1>8, <1>10 DEF Fresh
<1>12. Shaped(mid) BY <1>5, <1>7 DEF Shaped
<1> QED BY <1>9, <1>11, <1>12

LEMMA GivenStands ==
  ASSUME NEW r \in Repos, NEW k \in Keys, NEW q \in Repos, NEW mid, Given(mid, r, k, q)
  PROVE  /\ Shaped(mid) /\ Fresh(mid, r, k)
         /\ (q # r => Stub(q)) => Distinct(mid, "here")
<1>1. CASE q = r
  <2>1. mid = Block(r, k) BY <1>1 DEF Given
  <2> QED BY <2>1, BlockStands
<1>2. CASE q # r
  <2>1. mid = Block(r, k) \o <<Rest(q)>> BY <1>2 DEF Given
  <2> QED BY <1>2, <2>1, RestStands
<1> QED BY <1>1, <1>2

(* A block of the text can be taken out whole.                             *)
LEMMA BlockIsClean ==
  ASSUME NEW text \in Text, Shaped(text), NEW b \in DOMAIN text, text[b].kind = "begin"
  PROVE  /\ b \in Nat /\ b >= 1 /\ b + 2 <= Len(text)
         /\ text[b] = Begin(text[b].repo) /\ text[b].repo \in Repos
         /\ text[b + 2] = End(text[b].repo)
         /\ Between(text, b - 1) /\ Between(text, b + 2)
         /\ text[b + 1].kind = "host"
         /\ \A i \in b..(b + 2) : text[i].kind # "user" /\ (text[i].kind = "begin" => i = b)
<1>1. DOMAIN text = 1..Len(text) /\ Len(text) \in Nat /\ \A i \in DOMAIN text : text[i] \in Lines
  BY DEF Text
<1>2. b \in Nat /\ b >= 1 /\ b <= Len(text) BY <1>1
<1>3. b + 2 <= Len(text) /\ text[b + 1].kind = "host" /\ text[b + 2] = End(text[b].repo)
  BY DEF Shaped, ShapedAt
<1>4. text[b] = Begin(text[b].repo) /\ text[b].repo \in Repos BY <1>1, LineForms
<1>5. text[b + 2].kind = "end" BY <1>3 DEF End
<1>6. Between(text, b - 1) BY <1>1, <1>2 DEF Between
<1>7. Between(text, b + 2)
  <2> SUFFICES ASSUME b + 2 < Len(text) PROVE text[b + 3].kind \notin {"host", "end"}
    BY <1>2, <1>3, <1>1 DEF Between
  <2>1. b + 3 \in DOMAIN text /\ (b + 3) - 1 = b + 2 BY <1>1, <1>2
  <2>2. /\ text[b + 3].kind = "host" => text[b + 2] = Begin(text[b + 3].repo)
        /\ text[b + 3].kind = "end" => text[b + 2].kind = "host"
    BY <2>1 DEF Shaped, ShapedAt
  <2> QED BY <1>5, <2>2 DEF Begin
<1>8. \A i \in b..(b + 2) : i = b \/ i = b + 1 \/ i = b + 2 BY <1>2
<1>9. \A i \in b..(b + 2) : text[i].kind # "user" /\ (text[i].kind = "begin" => i = b)
  BY <1>3, <1>5, <1>8
<1> QED BY <1>2, <1>3, <1>4, <1>6, <1>7, <1>9

LEMMA AppendSplices ==
  ASSUME NEW text \in Text, NEW mid \in Text
  PROVE  /\ Splice(text \o mid, text, Len(text), 0, mid)
         /\ Between(text, Len(text)) /\ Len(text) \in Nat
<1>1. Len(text) \in Nat /\ Len(mid) \in Nat BY DEF Text
<1>2. /\ text \o mid \in Text /\ Len(text \o mid) = Len(text) + Len(mid)
      /\ \A i \in 1..Len(text) : (text \o mid)[i] = text[i]
      /\ \A i \in 1..Len(mid) : (text \o mid)[Len(text) + i] = mid[i]
  BY Joined
<1>3. Len(text) + Len(mid) = Len(text) - 0 + Len(mid) BY <1>1
<1>4. (Len(text) + 0 + 1)..Len(text) = {} BY <1>1
<1> QED BY <1>1, <1>2, <1>3, <1>4 DEF Splice, Between

(* replace_managed_block puts the block where the first one found began,   *)
(* and what was left of that one's last line behind it, or at the end.     *)
LEMMA ReplacedSplices ==
  ASSUME NEW text \in Text, Shaped(text), NEW r \in Repos, NEW k \in Keys
  PROVE  \/ First(Begins(text, r)) = {} /\ Replaced(text, r, k) = text \o Block(r, k)
         \/ \E b \in First(Begins(text, r)), mid \in Text :
              /\ Splice(Replaced(text, r, k), text, b - 1, 3, mid)
              /\ Given(mid, r, k, text[b].repo)
<1> DEFINE B == First(Begins(text, r))
           E == {i \in DOMAIN text : Marks(text[i], "end", r) /\ \A j \in B : j < i}
<1>1. Replaced(text, r, k) = ReplacedRange(text, r, k, B, First(E), 1)
  BY DEF Replaced, Begins
<1>2. CASE B = {} BY <1>1, <1>2 DEF ReplacedRange
<1>3. CASE B # {}
  <2>1. PICK b : b \in B BY <1>3
  <2>2. b \in DOMAIN text /\ text[b].kind = "begin" /\ StartsWith(text[b].repo, r)
    BY <2>1 DEF First, Begins, Marks
  <2>3. B = {b}
    <3>1. ASSUME NEW j \in B PROVE j = b
      <4>1. j \in DOMAIN text /\ j <= b /\ b <= j BY <2>1 DEF First, Begins
      <4>2. j \in Nat /\ b \in Nat BY <2>2, <4>1 DEF Text
      <4> QED BY <4>1, <4>2
    <3> QED BY <2>1, <3>1
  <2> HIDE DEF B
  <2>4. /\ b \in Nat /\ b >= 1 /\ b + 2 <= Len(text)
        /\ text[b].repo \in Repos /\ text[b + 2] = End(text[b].repo)
        /\ text[b + 1].kind = "host"
    BY <2>2, BlockIsClean
  <2>5. DOMAIN text = 1..Len(text) /\ Len(text) \in Nat BY DEF Text
  <2>6. text[b + 2].kind = "end" /\ text[b + 2].repo = text[b].repo BY <2>4, BlockLines DEF End
  <2>7. b + 2 \in E BY <2>2, <2>3, <2>4, <2>5, <2>6 DEF Marks
  <2>8. ASSUME NEW i \in E PROVE b + 2 <= i
    <3>1. i \in DOMAIN text /\ text[i].kind = "end" /\ b < i BY <2>3 DEF Marks
    <3>2. i # b + 1 BY <2>4, <3>1
    <3> QED BY <2>4, <2>5, <3>1, <3>2
  <2>9. First(E) = {b + 2}
    <3>1. b + 2 \in First(E) BY <2>7, <2>8 DEF First
    <3>2. ASSUME NEW i \in First(E) PROVE i = b + 2
      <4>1. i <= b + 2 /\ b + 2 <= i /\ i \in DOMAIN text BY <2>7, <2>8 DEF First
      <4> QED BY <2>4, <2>5, <4>1
    <3> QED BY <3>1, <3>2
  <2> HIDE DEF E
  <2> DEFINE x == IF text[b].repo = r THEN <<>> ELSE <<Rest(text[b].repo)>>
             a == SubSeq(text, 1, b - 1)
             c == SubSeq(text, b + 3, Len(text))
             mid == Block(r, k) \o x
  <2>10. Replaced(text, r, k) = a \o Block(r, k) \o x \o c
    <3>1. (CHOOSE i \in B : TRUE) = b BY <2>3
    <3>2. (CHOOSE i \in First(E) : TRUE) = b + 2 BY <2>9
    <3>3. (b + 2) + 1 = b + 3 BY <2>4
    <3>4. B # {} /\ First(E) # {} BY <2>3, <2>9
    <3> HIDE DEF B
    <3> QED BY <1>1, <2>6, <3>1, <3>2, <3>3, <3>4 DEF ReplacedRange
  <2>11. a \in Text /\ c \in Text BY <2>4, <2>5 DEF Text
  <2>12. x \in Text BY <2>4, BlockLines DEF Text
  <2>13. Block(r, k) \in Text BY BlockText
  <2> HIDE DEF a, c, x
  <2>14. (a \o Block(r, k)) \o x = a \o mid
    <3>1. a \in Seq(Lines) /\ Block(r, k) \in Seq(Lines) /\ x \in Seq(Lines)
      BY <2>11, <2>12, <2>13 DEF Text
    <3>2. \A p, q, t \in Seq(Lines) : (p \o q) \o t = p \o (q \o t) BY ConcatAssociative
    <3>3. (a \o Block(r, k)) \o x = a \o (Block(r, k) \o x) BY <3>1, <3>2, Zenon
    <3> QED BY <3>3
  <2>15. mid \in Text BY <2>12, <2>13, Joined
  <2>16. Replaced(text, r, k) = a \o mid \o c BY <2>10, <2>14
  <2> HIDE DEF mid
  <2>17. Splice(a \o mid \o c, text, b - 1, 3, mid)
    <3>1. b - 1 \in Nat /\ 3 \in Nat /\ (b - 1) + 3 <= Len(text) /\ (b - 1) + 3 + 1 = b + 3
      BY <2>4
    <3>2. Splice(SubSeq(text, 1, b - 1) \o mid \o SubSeq(text, (b - 1) + 3 + 1, Len(text)),
                 text, b - 1, 3, mid)
      BY <2>15, <3>1, SplicedLines
    <3> QED BY <3>1, <3>2 DEF a, c
  <2>18. Given(mid, r, k, text[b].repo)
    BY <2>13, ConcatEmptySeq DEF mid, x, Text, Given
  <2> QED BY <2>1, <2>15, <2>16, <2>17, <2>18 DEF B
<1> QED BY <1>2, <1>3

LEMMA SpliceHasKey ==
  ASSUME NEW text \in Text, NEW lo \in Nat, NEW n \in Nat, lo + n <= Len(text),
         NEW r \in Repos, NEW k \in Keys, NEW mid \in Text, 2 \in DOMAIN mid,
         mid[1] = Begin(r), mid[2] = Host(r, k), NEW new, Splice(new, text, lo, n, mid),
         \A i \in 1..lo : text[i] # Begin(r)
  PROVE  HasKey(new, r, k)
<1>1. Len(text) \in Nat /\ Len(mid) \in Nat /\ DOMAIN new = 1..Len(new)
      /\ Len(new) = Len(text) - n + Len(mid)
  BY DEF Splice, Text
<1>2. 1 \in 1..Len(mid) /\ 2 \in 1..Len(mid) BY <1>1
<1>3. new[lo + 1] = Begin(r) /\ new[lo + 2] = Host(r, k) BY <1>2 DEF Splice
<1>4. lo + 1 \in DOMAIN new /\ (lo + 1) + 1 \in DOMAIN new /\ (lo + 1) + 1 = lo + 2
      /\ (lo + 1) - 1 = lo
  BY <1>1
<1>5. \A j \in 1..lo : new[j] # Begin(r) BY DEF Splice
<1> QED BY <1>3, <1>4, <1>5 DEF HasKey

(* A block put behind the last line.                                       *)
LEMMA AppendKeeps ==
  ASSUME NEW text \in Text, Shaped(text), NEW r \in Repos, NEW k \in Keys
  PROVE  /\ text \o Block(r, k) \in Text
         /\ Shaped(text \o Block(r, k))
         /\ UserLines(text \o Block(r, k)) = UserLines(text)
<1> DEFINE new == text \o Block(r, k)
<1>1. Block(r, k) \in Text /\ Shaped(Block(r, k))
      /\ \A i \in DOMAIN Block(r, k) : Block(r, k)[i].kind # "user"
  BY BlockText, BlockStands DEF Fresh
<1>2. Len(text) \in Nat /\ 0 \in Nat /\ Len(text) + 0 <= Len(text) /\ Len(text) + 0 = Len(text)
  BY DEF Text
<1>3. Splice(new, text, Len(text), 0, Block(r, k)) /\ Between(text, Len(text))
  BY <1>1, AppendSplices
<1> HIDE DEF new
<1>4. Shaped(new) BY <1>1, <1>2, <1>3, SpliceShaped
<1>5. \A i \in (Len(text) + 1)..(Len(text) + 0) : text[i].kind # "user" BY <1>2
<1>6. UserLines(new) = UserLines(text) BY <1>1, <1>2, <1>3, <1>5, SpliceUsers
<1> QED BY <1>3, <1>4, <1>6 DEF Splice, new

LEMMA AppendConfigures ==
  ASSUME NEW text \in Text, Shaped(text), NEW s, Distinct(text, s),
         NEW r \in Repos, NEW k \in Keys,
         \A i \in DOMAIN text : text[i] # Begin(r)
  PROVE  /\ Distinct(text \o Block(r, k), s)
         /\ HasKey(text \o Block(r, k), r, k)
         /\ \A q, h : q # r /\ HasKey(text, q, h) => HasKey(text \o Block(r, k), q, h)
<1> DEFINE new == text \o Block(r, k)
<1>1. Block(r, k) \in Text /\ Distinct(Block(r, k), s) /\ Block(r, k)[1] = Begin(r)
      /\ 2 \in DOMAIN Block(r, k) /\ Block(r, k)[2] = Host(r, k)
      /\ \A i \in DOMAIN Block(r, k) : Block(r, k)[i].kind = "begin" => i = 1
  BY BlockText, BlockStands DEF Fresh
<1>2. Len(text) \in Nat /\ 0 \in Nat /\ Len(text) + 0 <= Len(text) /\ Len(text) + 0 = Len(text)
  BY DEF Text
<1>3. Splice(new, text, Len(text), 0, Block(r, k)) /\ Between(text, Len(text))
  BY <1>1, AppendSplices
<1> HIDE DEF new
<1>4. Distinct(new, s)
  <2>1. \A p \in DOMAIN Block(r, k), i \in DOMAIN text :
          Single(Block(r, k)[p], s) /\ text[i] = Block(r, k)[p]
            => i \in (Len(text) + 1)..(Len(text) + 0)
    BY <1>1 DEF Single
  <2> QED BY <1>1, <1>2, <1>3, <2>1, SpliceDistinct
<1>5. HasKey(new, r, k)
  <2>1. \A i \in 1..Len(text) : text[i] # Begin(r) BY DEF Text
  <2> QED BY <1>1, <1>2, <1>3, <2>1, SpliceHasKey
<1>6. ASSUME NEW q, NEW h, q # r, HasKey(text, q, h) PROVE HasKey(new, q, h)
  <2>1. \A i \in (Len(text) + 1)..(Len(text) + 0) : text[i] # Begin(q) BY <1>2
  <2>2. \A p \in DOMAIN Block(r, k) : Block(r, k)[p] # Begin(q)
    <3>1. Begin(q).kind = "begin" /\ Begin(q) # Begin(r) BY <1>6 DEF Begin
    <3> QED BY <1>1, <3>1
  <2> QED BY <1>1, <1>2, <1>3, <1>6, <2>1, <2>2, SpliceKeys
<1> QED BY <1>4, <1>5, <1>6 DEF new

(* Whatever the ids, replace_managed_block leaves blocks complete and the  *)
(* user's lines alone.                                                     *)
LEMMA ReplacedKeeps ==
  ASSUME NEW text \in Text, Shaped(text), NEW r \in Repos, NEW k \in Keys
  PROVE  /\ Replaced(text, r, k) \in Text
         /\ Shaped(Replaced(text, r, k))
         /\ UserLines(Replaced(text, r, k)) = UserLines(text)
<1> DEFINE new == Replaced(text, r, k)
<1>1. Block(r, k) \in Text /\ Shaped(Block(r, k))
      /\ \A i \in DOMAIN Block(r, k) : Block(r, k)[i].kind # "user"
  BY BlockText, BlockStands DEF Fresh
<1>2. Len(text) \in Nat /\ 0 \in Nat /\ Len(text) + 0 <= Len(text) /\ Len(text) + 0 = Len(text)
  BY DEF Text
<1>3. CASE new = text \o Block(r, k) BY <1>3, AppendKeeps
<1>4. ASSUME NEW b \in First(Begins(text, r)), NEW mid \in Text,
             Splice(new, text, b - 1, 3, mid),
             Given(mid, r, k, text[b].repo)
      PROVE  new \in Text /\ Shaped(new) /\ UserLines(new) = UserLines(text)
  <2>1. b \in DOMAIN text /\ text[b].kind = "begin" BY DEF First, Begins, Marks
  <2>2. /\ b \in Nat /\ b >= 1 /\ b + 2 <= Len(text) /\ text[b].repo \in Repos
        /\ Between(text, b - 1) /\ Between(text, b + 2)
        /\ \A i \in b..(b + 2) : text[i].kind # "user"
    BY <2>1, BlockIsClean
  <2>3. Shaped(mid) /\ \A i \in DOMAIN mid : mid[i].kind # "user"
    <3>1. PICK q \in Repos : q = text[b].repo BY <2>2
    <3>2. Given(mid, r, k, q) BY <1>4, <3>1
    <3>3. Shaped(mid) /\ Fresh(mid, r, k) BY <3>2, GivenStands
    <3> QED BY <3>3 DEF Fresh
  <2>4. /\ b - 1 \in Nat /\ 3 \in Nat /\ (b - 1) + 3 <= Len(text) /\ (b - 1) + 3 = b + 2
        /\ (b - 1) + 1 = b
    BY <1>2, <2>2
  <2> HIDE DEF new
  <2>5. Shaped(new) BY <1>4, <2>2, <2>3, <2>4, SpliceShaped
  <2>6. UserLines(new) = UserLines(text) BY <1>4, <2>2, <2>3, <2>4, SpliceUsers
  <2> QED BY <1>4, <2>5, <2>6 DEF Splice
<1> HIDE DEF new
<1>5. \/ new = text \o Block(r, k)
      \/ \E b \in First(Begins(text, r)), mid \in Text :
           /\ Splice(new, text, b - 1, 3, mid)
           /\ Given(mid, r, k, text[b].repo)
  BY ReplacedSplices DEF new
<1> QED BY <1>3, <1>4, <1>5 DEF new

LEMMA FirstExists ==
  ASSUME NEW S \in SUBSET Nat, S # {}
  PROVE  First(S) # {}
<1> DEFINE R == OpToRel(<, Nat)
<1>1. IsWellFoundedOn(R, Nat) BY NatLessThanWellFounded
<1> HIDE DEF R
<1>2. PICK x \in S : \A y \in S : <<y, x>> \notin R BY <1>1, WFMin
<1>3. \A y \in S : ~(y < x) BY <1>2 DEF R, OpToRel
<1>4. \A y \in S : x <= y BY <1>3
<1> QED BY <1>4 DEF First

(* The marker of a repository is found in its own blocks, and in those     *)
(* only if no other id starts with its id.                                 *)
LEMMA OwnBegins ==
  ASSUME NEW text \in Text, NEW r \in Repos, NEW i \in DOMAIN text
  PROVE  /\ text[i] = Begin(r) => i \in Begins(text, r)
         /\ i \in Begins(text, r) =>
              /\ text[i] = Begin(text[i].repo) /\ text[i].repo \in Repos
              /\ text[i].repo # r => ~Lonely(r) /\ Stub(text[i].repo)
<1>1. text[i] \in Lines BY DEF Text
<1>2. ASSUME text[i] = Begin(r) PROVE i \in Begins(text, r)
  <2>1. r \in Nat BY SshConfigAssumption
  <2>2. StartsWith(r, r) BY <2>1 DEF StartsWith
  <2> QED BY <1>2, <2>2 DEF Begins, Marks, Begin
<1>3. ASSUME i \in Begins(text, r)
      PROVE  /\ text[i] = Begin(text[i].repo) /\ text[i].repo \in Repos
             /\ text[i].repo # r => ~Lonely(r) /\ Stub(text[i].repo)
  <2>1. text[i].kind = "begin" /\ StartsWith(text[i].repo, r) BY <1>3 DEF Begins, Marks
  <2>2. text[i] = Begin(text[i].repo) /\ text[i].repo \in Repos BY <1>1, <2>1, LineForms
  <2> QED BY <2>1, <2>2 DEF Lonely, Stub
<1> QED BY <1>2, <1>3

(* The block of the repository gets its key, and the others keep theirs,   *)
(* but for the one whose marker was found first.                           *)
LEMMA ReplacedConfigures ==
  ASSUME NEW text \in Text, Shaped(text), Distinct(text, "here"), NEW r \in Repos, NEW k \in Keys
  PROVE  /\ Distinct(Replaced(text, r, k), "here")
         /\ HasKey(Replaced(text, r, k), r, k)
         /\ \A q, h : q \notin {text[i].repo : i \in First(Begins(text, r))} \cup {r}
                       /\ HasKey(text, q, h)
              => HasKey(Replaced(text, r, k), q, h)
<1> DEFINE new == Replaced(text, r, k)
           Found == {text[i].repo : i \in First(Begins(text, r))}
<1>1. /\ Block(r, k) \in Text /\ 2 \in DOMAIN Block(r, k) /\ Distinct(Block(r, k), "here")
      /\ Block(r, k)[1] = Begin(r) /\ Block(r, k)[2] = Host(r, k)
      /\ \A i \in DOMAIN Block(r, k) : Block(r, k)[i].kind = "begin" => i = 1
  BY BlockText, BlockStands DEF Fresh
<1>2. DOMAIN text = 1..Len(text) /\ Len(text) \in Nat /\ Begins(text, r) \subseteq Nat
  BY DEF Text, Begins
<1>3. \A q : Begin(q).kind = "begin" /\ Begin(q).repo = q BY DEF Begin
<1>4. ASSUME First(Begins(text, r)) = {}, new = text \o Block(r, k)
      PROVE  /\ Distinct(new, "here") /\ HasKey(new, r, k)
             /\ \A q, h : q \notin Found \cup {r} /\ HasKey(text, q, h) => HasKey(new, q, h)
  <2>1. Begins(text, r) = {} BY <1>2, <1>4, FirstExists
  <2>2. \A i \in DOMAIN text : text[i] # Begin(r) BY <2>1, OwnBegins
  <2> QED BY <1>4, <2>2, AppendConfigures
<1>5. ASSUME NEW b \in First(Begins(text, r)), NEW mid \in Text,
             Splice(new, text, b - 1, 3, mid),
             Given(mid, r, k, text[b].repo)
      PROVE  /\ Distinct(new, "here") /\ HasKey(new, r, k)
             /\ \A q, h : q \notin Found \cup {r} /\ HasKey(text, q, h) => HasKey(new, q, h)
  <2>1. b \in DOMAIN text /\ b \in Begins(text, r) BY DEF First, Begins
  <2>2. /\ text[b] = Begin(text[b].repo) /\ text[b].repo \in Repos /\ text[b].kind = "begin"
        /\ text[b].repo # r => ~Lonely(r) /\ Stub(text[b].repo)
    BY <1>3, <2>1, OwnBegins
  <2>3. /\ b \in Nat /\ b >= 1 /\ b + 2 <= Len(text)
        /\ Between(text, b - 1) /\ Between(text, b + 2)
        /\ \A i \in b..(b + 2) : text[i].kind = "begin" => i = b
    BY <2>1, <2>2, BlockIsClean
  <2>4. /\ b - 1 \in Nat /\ 3 \in Nat /\ (b - 1) + 3 <= Len(text) /\ (b - 1) + 3 = b + 2
        /\ (b - 1) + 1 = b /\ b \in b..(b + 2)
    BY <1>2, <2>3
  <2>5. /\ 2 \in DOMAIN mid /\ mid[1] = Begin(r) /\ mid[2] = Host(r, k) /\ Distinct(mid, "here")
        /\ \A i \in DOMAIN mid : mid[i].kind = "begin" => i = 1
    <3>1. PICK q \in Repos : q = text[b].repo BY <2>2
    <3>2. Given(mid, r, k, q) BY <1>5, <3>1
    <3>3. q # r => Stub(q) BY <2>2, <3>1
    <3>4. Distinct(mid, "here") /\ Fresh(mid, r, k) BY <3>2, <3>3, GivenStands
    <3> QED BY <3>4 DEF Fresh
  <2>6. \A i \in 1..(b - 1) : text[i] # Begin(r)
    <3> TAKE i \in 1..(b - 1)
    <3>1. i \in DOMAIN text /\ ~(b <= i) BY <1>2, <2>3
    <3>2. i \notin Begins(text, r) BY <3>1 DEF First
    <3> QED BY <3>1, <3>2, OwnBegins
  <2> HIDE DEF new
  <2>7. ASSUME NEW p \in DOMAIN mid, NEW i \in DOMAIN text, Single(mid[p], "here"), text[i] = mid[p]
        PROVE  i \in ((b - 1) + 1)..((b - 1) + 3)
    <3>1. p = 1 /\ mid[p] = Begin(r) /\ Lonely(r) BY <1>3, <2>5, <2>7 DEF Single
    <3>2. text[b] = Begin(r) BY <2>2, <3>1
    <3>3. Single(text[i], "here") /\ text[i] = text[b] BY <2>7, <3>1, <3>2
    <3>4. i = b BY <2>1, <3>3 DEF Distinct
    <3> QED BY <2>4, <3>4
  <2>8. Distinct(new, "here") BY <1>5, <2>4, <2>5, <2>7, SpliceDistinct
  <2>9. HasKey(new, r, k) BY <1>5, <2>4, <2>5, <2>6, SpliceHasKey
  <2>10. ASSUME NEW q, NEW h, q \notin Found \cup {r}, HasKey(text, q, h) PROVE HasKey(new, q, h)
    <3>1. q # r /\ q # text[b].repo BY <2>10
    <3>2. \A i \in ((b - 1) + 1)..((b - 1) + 3) : text[i] # Begin(q)
      BY <1>3, <2>2, <2>3, <2>4, <3>1
    <3>3. \A p \in DOMAIN mid : mid[p] # Begin(q) BY <1>3, <2>5, <3>1
    <3>4. PICK lo \in Nat : lo = b - 1 BY <2>4
    <3>5. /\ lo + 3 <= Len(text) /\ Splice(new, text, lo, 3, mid)
          /\ Between(text, lo) /\ Between(text, lo + 3)
          /\ \A i \in (lo + 1)..(lo + 3) : text[i] # Begin(q)
      BY <1>5, <2>3, <2>4, <3>2, <3>4
    <3> QED BY <2>4, <2>10, <3>3, <3>5, SpliceKeys
  <2> QED BY <2>8, <2>9, <2>10
<1> HIDE DEF new
<1>6. \/ First(Begins(text, r)) = {} /\ new = text \o Block(r, k)
      \/ \E b \in First(Begins(text, r)), mid \in Text :
           /\ Splice(new, text, b - 1, 3, mid)
           /\ Given(mid, r, k, text[b].repo)
  BY ReplacedSplices DEF new
<1> QED BY <1>4, <1>5, <1>6 DEF new
-----------------------------------------------------------------------------
(* What sed leaves of the text, line by line.                              *)
Kept(text, r) == DOMAIN text \ Deleted(text, r)
Before(text, r, i) == {j \in Kept(text, r) : j <= i}
SedText(text, r) ==
  [n \in 1..Cardinality(Kept(text, r)) |->
     text[CHOOSE i \in Kept(text, r) : Cardinality(Before(text, r, i)) = n]]

LEMMA ScriptedText ==
  ASSUME NEW text, NEW r, NEW k
  PROVE  Scripted(text, r, k) = SedText(text, r) \o Block(r, k)
BY DEF Scripted, SedText, Kept, Before

(* Without a block of the repository sed changes nothing.                  *)
LEMMA SedKeepsAll ==
  ASSUME NEW text \in Text, NEW r, \A i \in DOMAIN text : text[i] # Begin(r)
  PROVE  SedText(text, r) = text
<1>1. DOMAIN text = 1..Len(text) /\ Len(text) \in Nat /\ text = [i \in 1..Len(text) |-> text[i]]
  BY DEF Text
<1>2. Deleted(text, r) = {}
  <2> SUFFICES ASSUME NEW i \in Deleted(text, r) PROVE FALSE OBVIOUS
  <2>1. PICK b \in 1..i : text[b] = Begin(r) BY DEF Deleted
  <2>2. i \in DOMAIN text BY DEF Deleted
  <2>3. b \in DOMAIN text BY <1>1, <2>2
  <2> QED BY <2>1, <2>3
<1>3. Kept(text, r) = 1..Len(text) BY <1>1, <1>2 DEF Kept
<1>4. \A i \in 1..Len(text) : Cardinality(Before(text, r, i)) = i
  <2> TAKE i \in 1..Len(text)
  <2>1. Before(text, r, i) = 1..i BY <1>1, <1>3 DEF Before
  <2>2. 1 \in Int /\ i \in Int /\ i >= 1 BY <1>1
  <2>3. Cardinality(1..i) = IF 1 > i THEN 0 ELSE i - 1 + 1 BY <2>2, FS_Interval
  <2> QED BY <2>1, <2>2, <2>3
<1>5. Cardinality(Kept(text, r)) = Len(text)
  <2>1. 1 \in Int /\ Len(text) \in Int BY <1>1
  <2>2. Cardinality(1..Len(text)) = IF 1 > Len(text) THEN 0 ELSE Len(text) - 1 + 1
    BY <2>1, FS_Interval
  <2> QED BY <1>1, <1>3, <2>2
<1>6. \A n \in 1..Len(text) :
        (CHOOSE i \in Kept(text, r) : Cardinality(Before(text, r, i)) = n) = n
  BY <1>3, <1>4
<1> QED BY <1>1, <1>5, <1>6 DEF SedText

(* With its one block, sed takes out the three lines of it.                *)
LEMMA SedTakesBlock ==
  ASSUME NEW text \in Text, Shaped(text), Distinct(text, "server"),
         NEW r \in Repos, NEW b \in DOMAIN text, text[b] = Begin(r)
  PROVE  Splice(SedText(text, r), text, b - 1, 3, <<>>)
<1> DEFINE L == Len(text)
<1>1. DOMAIN text = 1..L /\ L \in Nat /\ \A i \in DOMAIN text : text[i] \in Lines BY DEF Text
<1>2. text[b].kind = "begin" /\ text[b].repo = r BY DEF Begin
<1>3. b \in Nat /\ b >= 1 /\ b + 2 <= L /\ text[b + 2] = End(r) /\ text[b + 1].kind = "host"
  BY <1>2, BlockIsClean
<1> HIDE DEF L
<1>4. Deleted(text, r) = {b, b + 1, b + 2}
  <2>1. ASSUME NEW i \in Deleted(text, r) PROVE i \in {b, b + 1, b + 2}
    <3>1. PICK c \in 1..i : text[c] = Begin(r) /\ \A j \in (c + 1)..(i - 1) : text[j] # End(r)
      BY DEF Deleted
    <3>2. i \in 1..L /\ c \in DOMAIN text BY <1>1 DEF Deleted
    <3>3. c = b BY <1>2, <3>1, <3>2 DEF Distinct, Single
    <3>4. b + 2 \notin (b + 1)..(i - 1) BY <1>3, <3>1, <3>3
    <3> QED BY <1>1, <1>3, <3>2, <3>3, <3>4
  <2>2. ASSUME NEW i \in {b, b + 1, b + 2} PROVE i \in Deleted(text, r)
    <3>1. i \in DOMAIN text /\ b \in 1..i BY <1>1, <1>3
    <3>2. \A j \in (b + 1)..(i - 1) : j = b + 1 BY <1>3
    <3>3. text[b + 1] # End(r) BY <1>3 DEF End
    <3>4. \A j \in (b + 1)..(i - 1) : text[j] # End(r) BY <3>2, <3>3
    <3> QED BY <3>1, <3>4 DEF Deleted
  <2> QED BY <2>1, <2>2
<1>5. Kept(text, r) = (1..L) \ {b, b + 1, b + 2} BY <1>1, <1>4 DEF Kept
<1>6. ASSUME NEW i \in Nat, i <= L
      PROVE  Cardinality(1..i) = i /\ IsFiniteSet(1..i)
             /\ (i >= b + 2 => Cardinality((1..i) \ {b, b + 1, b + 2}) = i - 3)
  <2> DEFINE S == 1..i
  <2>1. 1 \in Int /\ i \in Int OBVIOUS
  <2>2. IsFiniteSet(S) /\ Cardinality(S) = IF 1 > i THEN 0 ELSE i - 1 + 1 BY <2>1, FS_Interval
  <2>3. Cardinality(S) = i BY <2>2
  <2>4. ASSUME i >= b + 2 PROVE Cardinality((1..i) \ {b, b + 1, b + 2}) = i - 3
    <3>1. b \in S /\ b + 1 \in S \ {b} /\ b + 2 \in (S \ {b}) \ {b + 1} BY <1>3, <2>4
    <3> HIDE DEF S
    <3>2. IsFiniteSet(S \ {b}) /\ Cardinality(S \ {b}) = i - 1
      BY <2>2, <2>3, <3>1, FS_RemoveElement
    <3>3. IsFiniteSet((S \ {b}) \ {b + 1}) /\ Cardinality((S \ {b}) \ {b + 1}) = (i - 1) - 1
      BY <3>1, <3>2, FS_RemoveElement
    <3>4. Cardinality(((S \ {b}) \ {b + 1}) \ {b + 2}) = ((i - 1) - 1) - 1
      <4> DEFINE T == (S \ {b}) \ {b + 1}
      <4>1. IsFiniteSet(T) /\ Cardinality(T) = (i - 1) - 1 /\ b + 2 \in T BY <3>1, <3>3
      <4> HIDE DEF T
      <4>2. PICK c : c = b + 2 OBVIOUS
      <4>3. Cardinality(T \ {c}) = IF c \in T THEN Cardinality(T) - 1 ELSE Cardinality(T)
        BY <4>1, FS_RemoveElement
      <4>4. Cardinality(T \ {c}) = ((i - 1) - 1) - 1 BY <4>1, <4>2, <4>3
      <4> QED BY <4>2, <4>4 DEF T
    <3>5. ((S \ {b}) \ {b + 1}) \ {b + 2} = S \ {b, b + 1, b + 2} OBVIOUS
    <3>6. ((i - 1) - 1) - 1 = i - 3 OBVIOUS
    <3> QED BY <3>4, <3>5, <3>6 DEF S
  <2> QED BY <2>2, <2>3, <2>4
<1>7. Cardinality(Kept(text, r)) = L - 3 BY <1>1, <1>3, <1>5, <1>6
<1>8. ASSUME NEW i \in Kept(text, r)
      PROVE  /\ i \in 1..L /\ (i < b \/ i > b + 2)
             /\ Cardinality(Before(text, r, i)) = IF i < b THEN i ELSE i - 3
  <2>1. i \in Nat /\ i >= 1 /\ i <= L /\ (i < b \/ i > b + 2) BY <1>1, <1>3, <1>5
  <2>2. CASE i < b
    <3>1. Before(text, r, i) = 1..i BY <1>1, <1>3, <1>5, <2>1, <2>2 DEF Before
    <3> QED BY <1>1, <1>6, <2>1, <2>2, <3>1
  <2>3. CASE i > b + 2
    <3>1. Before(text, r, i) = (1..i) \ {b, b + 1, b + 2}
      BY <1>1, <1>3, <1>5, <2>1, <2>3 DEF Before
    <3>2. Cardinality(Before(text, r, i)) = i - 3 BY <1>3, <1>6, <2>1, <2>3, <3>1
    <3>3. ~(i < b) BY <1>3, <2>1, <2>3
    <3> QED BY <2>1, <3>2, <3>3
  <2> QED BY <2>1, <2>2, <2>3
<1> DEFINE nth(n) == CHOOSE i \in Kept(text, r) : Cardinality(Before(text, r, i)) = n
<1>9. ASSUME NEW n \in 1..(L - 3) PROVE nth(n) = IF n < b THEN n ELSE n + 3
  <2> DEFINE p == IF n < b THEN n ELSE n + 3
  <2>1. p \in Kept(text, r) /\ n \in Nat BY <1>1, <1>3, <1>5
  <2>2. (IF p < b THEN p ELSE p - 3) = n BY <1>3, <2>1
  <2>3. Cardinality(Before(text, r, p)) = n BY <1>8, <2>1, <2>2
  <2>4. ASSUME NEW i \in Kept(text, r), Cardinality(Before(text, r, i)) = n PROVE i = p
    <3>1. i \in 1..L /\ (i < b \/ i > b + 2) /\ n = IF i < b THEN i ELSE i - 3
      BY <1>8, <2>4
    <3> QED BY <1>1, <1>3, <2>1, <3>1
  <2> HIDE DEF p
  <2>5. nth(n) = p BY <2>1, <2>3, <2>4
  <2> QED BY <2>5 DEF p
<1> DEFINE new == SedText(text, r)
<1>10. new = [n \in 1..(L - 3) |-> text[IF n < b THEN n ELSE n + 3]]
  <2>1. new = [n \in 1..Cardinality(Kept(text, r)) |-> text[nth(n)]] BY DEF SedText
  <2>2. \A n \in 1..(L - 3) : nth(n) = IF n < b THEN n ELSE n + 3 BY <1>9
  <2> HIDE DEF nth, new
  <2>3. new = [n \in 1..(L - 3) |-> text[nth(n)]] BY <1>7, <2>1
  <2> QED BY <2>2, <2>3
<1> HIDE DEF new
<1>11. L - 3 \in Nat BY <1>1, <1>3
<1>12. \A n \in 1..(L - 3) : text[IF n < b THEN n ELSE n + 3] \in Lines
  <2> TAKE n \in 1..(L - 3)
  <2>1. (IF n < b THEN n ELSE n + 3) \in DOMAIN text BY <1>1, <1>3
  <2> QED BY <1>1, <2>1
<1>13. new \in Text /\ Len(new) = L - 3 BY <1>10, <1>11, <1>12 DEF Text
<1>14. \A i \in 1..(b - 1) : new[i] = text[i]
  <2> TAKE i \in 1..(b - 1)
  <2>1. i \in 1..(L - 3) /\ i < b BY <1>1, <1>3
  <2> QED BY <1>10, <2>1
<1>15. \A i \in (b - 1 + 3 + 1)..L : new[i - 3 + 0] = text[i]
  <2> TAKE i \in (b - 1 + 3 + 1)..L
  <2>1. i - 3 \in 1..(L - 3) /\ ~(i - 3 < b) /\ (i - 3) + 3 = i /\ i - 3 + 0 = i - 3
    BY <1>1, <1>3
  <2> QED BY <1>10, <2>1
<1>16. Len(<<>>) = 0 /\ 1..0 = {} /\ L - 3 = L - 3 + 0 BY <1>11
<1> QED BY <1>13, <1>14, <1>15, <1>16 DEF Splice, new, L

LEMMA SedKeeps ==
  ASSUME NEW text \in Text, Shaped(text), Distinct(text, "server"), NEW r \in Repos,
         NEW new, new = SedText(text, r)
  PROVE  /\ new \in Text /\ Shaped(new) /\ Distinct(new, "server")
         /\ UserLines(new) = UserLines(text)
         /\ \A i \in DOMAIN new : new[i] # Begin(r)
         /\ \A q, h : q # r /\ HasKey(text, q, h) => HasKey(new, q, h)
<1>1. CASE \A i \in DOMAIN text : text[i] # Begin(r) BY <1>1, SedKeepsAll
<1>2. ASSUME NEW b \in DOMAIN text, text[b] = Begin(r)
      PROVE  /\ new \in Text /\ Shaped(new) /\ Distinct(new, "server")
             /\ UserLines(new) = UserLines(text)
             /\ \A i \in DOMAIN new : new[i] # Begin(r)
             /\ \A q, h : q # r /\ HasKey(text, q, h) => HasKey(new, q, h)
  <2>1. text[b].kind = "begin" BY <1>2 DEF Begin
  <2>2. /\ b \in Nat /\ b >= 1 /\ b + 2 <= Len(text)
        /\ Between(text, b - 1) /\ Between(text, b + 2)
        /\ \A i \in b..(b + 2) : text[i].kind # "user" /\ (text[i].kind = "begin" => i = b)
    BY <2>1, BlockIsClean
  <2>3. /\ b - 1 \in Nat /\ 3 \in Nat /\ (b - 1) + 3 <= Len(text) /\ (b - 1) + 3 = b + 2
        /\ (b - 1) + 1 = b
    BY <2>2 DEF Text
  <2>4. Splice(new, text, b - 1, 3, <<>>) BY <1>2, SedTakesBlock
  <2>5. <<>> \in Text /\ DOMAIN <<>> = {} /\ Len(<<>>) = 0 BY DEF Text
  <2>6. Shaped(<<>>) /\ Distinct(<<>>, "server") BY <2>5 DEF Shaped, Distinct
  <2> DEFINE mid == <<>>
  <2>7. mid \in Text /\ DOMAIN mid = {} /\ Shaped(mid) /\ Distinct(mid, "server") /\ Len(mid) = 0
        /\ Splice(new, text, b - 1, 3, mid)
    BY <2>4, <2>5, <2>6
  <2> HIDE DEF mid
  <2>8. Shaped(new) BY <2>2, <2>3, <2>7, SpliceShaped
  <2>9. Distinct(new, "server")
    <3>1. \A p \in DOMAIN mid, i \in DOMAIN text :
            Single(mid[p], "server") /\ text[i] = mid[p] => i \in ((b - 1) + 1)..((b - 1) + 3)
      BY <2>7
    <3> QED BY <2>3, <2>7, <3>1, SpliceDistinct
  <2>10. UserLines(new) = UserLines(text)
    <3>1. PICK lo \in Nat : lo = b - 1 BY <2>3
    <3>2. lo + 3 <= Len(text) /\ Splice(new, text, lo, 3, mid) BY <2>3, <2>7, <3>1
    <3>3. \A i \in (lo + 1)..(lo + 3) : text[i].kind # "user" BY <2>2, <3>1
    <3>4. \A i \in DOMAIN mid : mid[i].kind # "user" BY <2>7
    <3>5. mid \in Text /\ 3 \in Nat BY <2>7
    <3> QED BY <3>2, <3>3, <3>4, <3>5, SpliceUsers
  <2>11. ASSUME NEW i \in DOMAIN new PROVE new[i] # Begin(r)
    <3>1. \/ i \in 1..(b - 1) /\ new[i] = text[i]
          \/ i - (b - 1) \in 1..Len(mid) /\ new[i] = mid[i - (b - 1)]
          \/ /\ i + 3 - Len(mid) \in ((b - 1) + 3 + 1)..Len(text)
             /\ new[i] = text[i + 3 - Len(mid)]
      BY <2>3, <2>7, Origin
    <3>2. PICK j \in DOMAIN text : new[i] = text[j] /\ j # b
      <4>1. DOMAIN text = 1..Len(text) /\ Len(text) \in Nat BY DEF Text
      <4>2. CASE i \in 1..(b - 1) /\ new[i] = text[i]
        <5>1. i \in DOMAIN text /\ i # b BY <2>2, <4>1, <4>2
        <5> QED BY <4>2, <5>1
      <4>3. CASE /\ i + 3 - Len(mid) \in ((b - 1) + 3 + 1)..Len(text)
                 /\ new[i] = text[i + 3 - Len(mid)]
        <5>1. i + 3 - Len(mid) \in DOMAIN text /\ i + 3 - Len(mid) # b BY <2>2, <4>1, <4>3
        <5> QED BY <4>3, <5>1
      <4>4. 1..Len(mid) = {} BY <2>7
      <4> QED BY <3>1, <4>2, <4>3, <4>4
    <3> QED BY <1>2, <2>1, <3>2 DEF Distinct, Single
  <2>12. ASSUME NEW q, NEW h, q # r, HasKey(text, q, h) PROVE HasKey(new, q, h)
    <3>1. \A i \in ((b - 1) + 1)..((b - 1) + 3) : text[i] # Begin(q)
      <4>1. \A i \in b..(b + 2) : text[i].kind = "begin" => text[i] = Begin(r) BY <1>2, <2>2
      <4>2. Begin(q).kind = "begin" /\ Begin(q) # Begin(r) BY <2>12 DEF Begin
      <4> QED BY <2>3, <4>1, <4>2
    <3>2. \A p \in DOMAIN mid : mid[p] # Begin(q) BY <2>7
    <3>4. PICK lo \in Nat : lo = b - 1 BY <2>3
    <3>5. /\ lo + 3 <= Len(text) /\ Splice(new, text, lo, 3, mid)
          /\ Between(text, lo) /\ Between(text, lo + 3)
          /\ \A i \in (lo + 1)..(lo + 3) : text[i] # Begin(q)
      BY <2>2, <2>3, <2>7, <3>1, <3>4
    <3>6. mid \in Text /\ 3 \in Nat BY <2>7
    <3> QED BY <2>12, <3>2, <3>5, <3>6, SpliceKeys
  <2> QED BY <2>7, <2>8, <2>9, <2>10, <2>11, <2>12 DEF Splice
<1> QED BY <1>1, <1>2

(* The script looks for whole lines, so the ids do not matter.             *)
LEMMA ScriptedKeeps ==
  ASSUME NEW text \in Text, Shaped(text), Distinct(text, "server"), NEW r \in Repos, NEW k \in Keys,
         NEW new, new = Scripted(text, r, k)
  PROVE  /\ new \in Text /\ Shaped(new) /\ Distinct(new, "server")
         /\ UserLines(new) = UserLines(text)
         /\ HasKey(new, r, k)
         /\ \A q, h : q # r /\ HasKey(text, q, h) => HasKey(new, q, h)
<1>1. PICK sed : sed = SedText(text, r) OBVIOUS
<1>2. /\ sed \in Text /\ Shaped(sed) /\ Distinct(sed, "server")
      /\ UserLines(sed) = UserLines(text)
      /\ \A i \in DOMAIN sed : sed[i] # Begin(r)
      /\ \A q, h : q # r /\ HasKey(text, q, h) => HasKey(sed, q, h)
  BY <1>1, SedKeeps
<1>3. new = sed \o Block(r, k) BY <1>1, ScriptedText
<1>4. new \in Text /\ Shaped(new) /\ UserLines(new) = UserLines(sed) BY <1>2, <1>3, AppendKeeps
<1>5. Distinct(new, "server") /\ HasKey(new, r, k) /\ \A q, h : q # r /\ HasKey(sed, q, h) => HasKey(new, q, h)
  BY <1>2, <1>3, AppendConfigures
<1> QED BY <1>2, <1>4, <1>5
-----------------------------------------------------------------------------
(* A line the user adds at the end, or deletes.                            *)
LEMMA UserAdds ==
  ASSUME NEW text \in Text, Shaped(text), NEW u \in Added, NEW s,
         NEW new, new = Append(text, UserLine(u))
  PROVE  /\ new \in Text /\ Shaped(new)
         /\ Distinct(text, s) => Distinct(new, s)
<1> DEFINE mid == <<UserLine(u)>>
<1>1. UserLine(u) \in Lines /\ UserLine(u).kind = "user" BY DEF UserLine, Lines
<1>2. mid \in Text /\ Len(mid) = 1 /\ mid[1] = UserLine(u) /\ DOMAIN mid = 1..1 BY <1>1 DEF Text
<1>3. new = text \o mid BY <1>1 DEF Text
<1> HIDE DEF mid
<1>4. \A i \in DOMAIN mid : mid[i].kind = "user" BY <1>1, <1>2
<1>5. Shaped(mid) BY <1>4 DEF Shaped, ShapedAt
<1>6. Distinct(mid, s) BY <1>4 DEF Distinct, Single
<1>7. Splice(new, text, Len(text), 0, mid) /\ Between(text, Len(text)) BY <1>2, <1>3, AppendSplices
<1>8. Len(text) \in Nat /\ 0 \in Nat /\ Len(text) + 0 <= Len(text) /\ Len(text) + 0 = Len(text)
  BY DEF Text
<1>9. Shaped(new) BY <1>2, <1>5, <1>7, <1>8, SpliceShaped
<1>10. Distinct(text, s) => Distinct(new, s)
  <2>1. \A p \in DOMAIN mid : ~Single(mid[p], s) BY <1>4 DEF Single
  <2> QED BY <1>2, <1>6, <1>7, <1>8, <2>1, SpliceDistinct
<1> QED BY <1>7, <1>9, <1>10 DEF Splice

LEMMA RemoveSplices ==
  ASSUME NEW text \in Text, NEW i \in DOMAIN text
  PROVE  /\ Splice(RemoveAt(text, i), text, i - 1, 1, <<>>) /\ <<>> \in Text
         /\ i \in Nat /\ i - 1 \in Nat /\ (i - 1) + 1 = i /\ i <= Len(text)
<1>1. i \in Nat /\ i - 1 \in Nat /\ i <= Len(text) /\ (i - 1) + 1 = i /\ (i - 1) + 1 + 1 = i + 1
      /\ 1 \in Nat /\ Len(text) \in Nat
  BY DEF Text
<1>2. <<>> \in Text BY DEF Text
<1> DEFINE a == SubSeq(text, 1, i - 1)
           c == SubSeq(text, i + 1, Len(text))
<1>3. Splice(a \o <<>> \o SubSeq(text, (i - 1) + 1 + 1, Len(text)), text, i - 1, 1, <<>>)
  BY <1>1, <1>2, SplicedLines
<1>4. a \in Seq(Lines) BY <1>1 DEF Text
<1>5. a \o <<>> = a BY <1>4, ConcatEmptySeq
<1>6. RemoveAt(text, i) = a \o c BY DEF RemoveAt
<1>7. Splice(RemoveAt(text, i), text, i - 1, 1, <<>>) BY <1>1, <1>3, <1>5, <1>6
<1> QED BY <1>1, <1>2, <1>7

LEMMA UserDeletes ==
  ASSUME NEW text \in Text, Shaped(text), NEW i \in DOMAIN text, NEW s,
         NEW new, new = RemoveAt(text, i)
  PROVE  /\ new \in Text
         /\ \/ UserLines(new) = UserLines(text)
            \/ Shaped(new) /\ (Distinct(text, s) => Distinct(new, s))
<1>1. PICK mid : mid = <<>> OBVIOUS
<1>2. PICK lo : lo = i - 1 OBVIOUS
<1>3. /\ Splice(new, text, lo, 1, mid) /\ mid \in Text /\ DOMAIN mid = {}
      /\ lo \in Nat /\ 1 \in Nat /\ lo + 1 = i /\ i <= Len(text) /\ i \in Nat
  BY <1>1, <1>2, RemoveSplices
<1>4. lo + 1 <= Len(text) /\ Len(text) \in Nat /\ DOMAIN text = 1..Len(text) BY <1>3 DEF Text
<1>5. \A j \in (lo + 1)..(lo + 1) : j = i BY <1>3
<1>6. Shaped(mid) /\ Distinct(mid, s) BY <1>3 DEF Shaped, Distinct
<1>7. CASE text[i].kind # "user"
  <2>1. \A j \in (lo + 1)..(lo + 1) : text[j].kind # "user" BY <1>5, <1>7
  <2>2. \A j \in DOMAIN mid : mid[j].kind # "user" BY <1>3
  <2>3. UserLines(new) = UserLines(text) BY <1>3, <1>4, <2>1, <2>2, SpliceUsers
  <2> QED BY <1>3, <2>3 DEF Splice
<1>8. CASE text[i].kind = "user"
  <2>1. Between(text, lo) BY <1>3, <1>4, <1>8 DEF Between
  <2>2. Between(text, lo + 1)
    <3> SUFFICES ASSUME i < Len(text) PROVE text[i + 1].kind \notin {"host", "end"}
      BY <1>3, <1>4 DEF Between
    <3>1. i + 1 \in DOMAIN text /\ (i + 1) - 1 = i BY <1>3, <1>4
    <3>2. /\ text[i + 1].kind = "host" => text[i] = Begin(text[i + 1].repo)
          /\ text[i + 1].kind = "end" => text[i].kind = "host"
      BY <3>1 DEF Shaped, ShapedAt
    <3> QED BY <1>8, <3>2 DEF Begin
  <2>3. Shaped(new) BY <1>3, <1>4, <1>6, <2>1, <2>2, SpliceShaped
  <2>4. Distinct(text, s) => Distinct(new, s) BY <1>3, <1>4, <1>6, SpliceDistinct
  <2> QED BY <1>3, <2>3, <2>4 DEF Splice
<1> QED BY <1>7, <1>8

(* What ssh finds among complete blocks.                                   *)
LEMMA KeyIsFound ==
  ASSUME NEW text \in Text, Shaped(text), NEW r \in Repos
  PROVE  /\ \A k : HasKey(text, r, k) => KeyIn(text, r) = k
         /\ KeyIn(text, r) # None => HasKey(text, r, KeyIn(text, r))
<1>1. DOMAIN text = 1..Len(text) /\ Len(text) \in Nat /\ \A i \in DOMAIN text : text[i] \in Lines
  BY DEF Text
<1>2. Begin(r).kind = "begin" /\ Begin(r).repo = r BY DEF Begin
<1>3. ASSUME NEW i \in DOMAIN text
      PROVE  /\ i \in Whole(text, r) <=> text[i] = Begin(r)
             /\ text[i] = Begin(r) => i + 1 \in DOMAIN text
                                      /\ text[i + 1] = Host(r, text[i + 1].key)
  <2>1. ASSUME text[i] = Begin(r)
        PROVE  /\ i + 2 <= Len(text) /\ text[i + 1].kind = "host" /\ text[i + 1].repo = r
               /\ text[i + 2] = End(r)
    BY <1>2, <2>1 DEF Shaped, ShapedAt
  <2>2. i \in Whole(text, r) <=> text[i] = Begin(r) BY <2>1 DEF Whole
  <2>3. ASSUME text[i] = Begin(r)
        PROVE  i + 1 \in DOMAIN text /\ text[i + 1] = Host(r, text[i + 1].key)
    <3>1. i + 1 \in DOMAIN text BY <1>1, <2>1, <2>3
    <3> QED BY <1>1, <2>1, <2>3, <3>1, LineForms
  <2> QED BY <2>2, <2>3
<1>4. Whole(text, r) \in SUBSET DOMAIN text BY DEF Whole
<1>5. ASSUME NEW i \in DOMAIN text, text[i] = Begin(r), \A j \in 1..(i - 1) : text[j] # Begin(r)
      PROVE  KeyIn(text, r) = text[i + 1].key
  <2>1. i \in Whole(text, r) BY <1>3, <1>5
  <2>2. ASSUME NEW j \in Whole(text, r) PROVE i <= j
    <3>1. j \in DOMAIN text /\ text[j] = Begin(r) BY <1>3, <1>4
    <3> QED BY <1>1, <1>5, <3>1
  <2>3. First(Whole(text, r)) = {i}
    <3>1. i \in First(Whole(text, r)) BY <2>1, <2>2 DEF First
    <3>2. ASSUME NEW j \in First(Whole(text, r)) PROVE j = i
      <4>1. j \in Whole(text, r) /\ j <= i BY <2>1 DEF First
      <4>2. i <= j /\ j \in DOMAIN text BY <1>4, <2>2, <4>1
      <4> QED BY <1>1, <4>1, <4>2
    <3> QED BY <3>1, <3>2
  <2>4. (CHOOSE j \in First(Whole(text, r)) : TRUE) = i BY <2>3
  <2> QED BY <2>1, <2>4 DEF KeyIn
<1>6. ASSUME NEW k, HasKey(text, r, k) PROVE KeyIn(text, r) = k
  <2>1. PICK i \in DOMAIN text : /\ text[i] = Begin(r) /\ text[i + 1] = Host(r, k)
                                 /\ \A j \in 1..(i - 1) : text[j] # Begin(r)
    BY <1>6 DEF HasKey
  <2>2. Host(r, k).key = k BY DEF Host
  <2> QED BY <1>5, <2>1, <2>2
<1>7. ASSUME KeyIn(text, r) # None PROVE HasKey(text, r, KeyIn(text, r))
  <2>1. Whole(text, r) # {} /\ Whole(text, r) \in SUBSET Nat BY <1>1, <1>4, <1>7 DEF KeyIn
  <2>2. PICK i : i \in First(Whole(text, r)) BY <2>1, FirstExists
  <2>3. i \in DOMAIN text /\ text[i] = Begin(r) BY <1>3, <1>4, <2>2 DEF First
  <2>4. \A j \in 1..(i - 1) : text[j] # Begin(r)
    <3> TAKE j \in 1..(i - 1)
    <3>1. j \in DOMAIN text /\ ~(i <= j) BY <1>1, <2>3
    <3>2. j \notin Whole(text, r) BY <2>2, <3>1 DEF First
    <3> QED BY <1>3, <3>1, <3>2
  <2>5. i + 1 \in DOMAIN text /\ text[i + 1] = Host(r, text[i + 1].key) BY <1>3, <2>3
  <2>6. KeyIn(text, r) = text[i + 1].key BY <1>5, <2>3, <2>4
  <2> QED BY <2>3, <2>4, <2>5, <2>6 DEF HasKey
<1> QED BY <1>6, <1>7
-----------------------------------------------------------------------------
(* The lines that sed keeps are numbered from one, without a gap.          *)
LEMMA SedNumbers ==
  ASSUME NEW text \in Text, NEW r
  PROVE  /\ Cardinality(Kept(text, r)) \in Nat
         /\ \A n \in 1..Cardinality(Kept(text, r)) :
              \E i \in Kept(text, r) : Cardinality(Before(text, r, i)) = n
<1> DEFINE K == Kept(text, r)
           rank(i) == Cardinality(Before(text, r, i))
           I == {rank(i) : i \in K}
           g == [i \in K |-> rank(i)]
<1>1. DOMAIN text = 1..Len(text) /\ Len(text) \in Nat BY DEF Text
<1>2. IsFiniteSet(1..Len(text)) BY <1>1, FS_Interval
<1>3. K \in SUBSET (1..Len(text)) /\ K \subseteq Nat BY <1>1 DEF Kept
<1>4. IsFiniteSet(K) BY <1>2, <1>3, FS_Subset
<1>5. Cardinality(K) \in Nat BY <1>4, FS_CardinalityType
<1>6. \A i \in K : Before(text, r, i) \in SUBSET K /\ i \in Before(text, r, i)
  BY <1>3 DEF Before
<1> HIDE DEF K
<1>7. ASSUME NEW i \in K PROVE rank(i) \in 1..Cardinality(K)
  <2> DEFINE B == Before(text, r, i)
  <2>1. B \in SUBSET K /\ i \in B BY <1>6
  <2> HIDE DEF B
  <2>2. IsFiniteSet(B) /\ Cardinality(B) <= Cardinality(K) BY <1>4, <2>1, FS_Subset
  <2>3. Cardinality(B) \in Nat BY <2>2, FS_CardinalityType
  <2>4. Cardinality(B) # 0 BY <2>1, <2>2, FS_EmptySet
  <2> QED BY <1>5, <2>2, <2>3, <2>4 DEF B
<1>8. ASSUME NEW i \in K, NEW j \in K, rank(i) = rank(j), i <= j PROVE i = j
  <2> DEFINE B == Before(text, r, i)
             C == Before(text, r, j)
  <2>1. C \in SUBSET K /\ j \in C /\ B \in SUBSET C
    <3>1. i \in Nat /\ j \in Nat BY <1>3
    <3>2. \A n \in K : n <= i => n <= j BY <1>3, <1>8, <3>1
    <3> QED BY <1>6, <3>2 DEF Before, K
  <2>2. Cardinality(B) = Cardinality(C) BY <1>8
  <2> HIDE DEF B, C
  <2>3. IsFiniteSet(C) BY <1>4, <2>1, FS_Subset
  <2>4. C = B BY <2>1, <2>2, <2>3, FS_Subset
  <2>5. j <= i BY <2>1, <2>4 DEF B, Before
  <2> QED BY <1>3, <1>8, <2>5
<1>9. \A i, j \in K : rank(i) = rank(j) => i = j
  <2> TAKE i, j \in K
  <2>1. i \in Nat /\ j \in Nat BY <1>3
  <2> QED BY <1>8, <2>1
<1> HIDE DEF rank
<1>10. g \in Bijection(K, I)
  <2>1. g \in [K -> I] OBVIOUS
  <2>2. \A i, j \in K : g[i] = g[j] => i = j BY <1>9
  <2>3. \A n \in I : \E i \in K : g[i] = n OBVIOUS
  <2> HIDE DEF g, I
  <2> QED BY <2>1, <2>2, <2>3 DEF Bijection, Injection, Surjection, IsInjective
<1>11. ExistsBijection(K, I) BY <1>10 DEF ExistsBijection
<1>12. I \in SUBSET (1..Cardinality(K)) BY <1>7
<1> HIDE DEF I
<1>13. Cardinality(I) = Cardinality(K) BY <1>4, <1>11, FS_Bijection
<1>14. /\ IsFiniteSet(1..Cardinality(K))
       /\ Cardinality(1..Cardinality(K)) = Cardinality(K)
  <2>1. 1 \in Int /\ Cardinality(K) \in Int BY <1>5
  <2>2. /\ IsFiniteSet(1..Cardinality(K))
        /\ Cardinality(1..Cardinality(K)) = IF 1 > Cardinality(K) THEN 0 ELSE Cardinality(K) - 1 + 1
    BY <2>1, FS_Interval
  <2> QED BY <1>5, <2>2
<1>15. 1..Cardinality(K) = I BY <1>12, <1>13, <1>14, FS_Subset
<1>16. \A n \in 1..Cardinality(K) : \E i \in K : rank(i) = n BY <1>15 DEF I
<1> QED BY <1>5, <1>16 DEF K, rank

LEMMA SedType ==
  ASSUME NEW text \in Text, NEW r
  PROVE  SedText(text, r) \in Text
<1> DEFINE N == Cardinality(Kept(text, r))
           nth(n) == CHOOSE i \in Kept(text, r) : Cardinality(Before(text, r, i)) = n
<1>1. N \in Nat /\ \A n \in 1..N : nth(n) \in Kept(text, r) BY SedNumbers
<1>2. Kept(text, r) \subseteq DOMAIN text BY DEF Kept
<1>3. \A i \in DOMAIN text : text[i] \in Lines BY DEF Text
<1> HIDE DEF nth, N
<1>4. \A n \in 1..N : text[nth(n)] \in Lines BY <1>1, <1>2, <1>3
<1>5. [n \in 1..N |-> text[nth(n)]] \in Text BY <1>1, <1>4 DEF Text
<1> QED BY <1>5 DEF SedText, N, nth

(* The block of repository r with key k stands complete in the text.       *)
Holds(text, r, k) ==
  \E i \in DOMAIN text :
    i + 2 <= Len(text) /\ text[i] = Begin(r) /\ text[i + 1] = Host(r, k) /\ text[i + 2] = End(r)

LEMMA BlockHolds ==
  ASSUME NEW a \in Text, NEW c \in Text, NEW r \in Repos, NEW k \in Keys
  PROVE  a \o Block(r, k) \o c \in Text /\ Holds(a \o Block(r, k) \o c, r, k)
<1> DEFINE m == Block(r, k)
           d == a \o m
           t == d \o c
<1>1. m \in Text /\ Len(m) = 3 /\ m[1] = Begin(r) /\ m[2] = Host(r, k) /\ m[3] = End(r)
  BY BlockText
<1> HIDE DEF m
<1>2. /\ d \in Text /\ Len(d) = Len(a) + 3
      /\ \A i \in 1..3 : d[Len(a) + i] = m[i]
  <2>1. /\ d \in Text /\ Len(d) = Len(a) + Len(m)
        /\ \A i \in 1..Len(m) : d[Len(a) + i] = m[i]
    BY <1>1, Joined
  <2> QED BY <1>1, <2>1
<1>3. Len(a) \in Nat /\ Len(c) \in Nat BY DEF Text
<1> HIDE DEF d
<1>4. t \in Text /\ Len(t) = Len(d) + Len(c) /\ \A i \in 1..Len(d) : t[i] = d[i] BY <1>2, Joined
<1> HIDE DEF t
<1>5. t[Len(a) + 1] = m[1] /\ t[Len(a) + 2] = m[2] /\ t[Len(a) + 3] = m[3]
  <2>1. Len(a) + 1 \in 1..Len(d) /\ Len(a) + 2 \in 1..Len(d) /\ Len(a) + 3 \in 1..Len(d)
    BY <1>2, <1>3
  <2>2. d[Len(a) + 1] = m[1] /\ d[Len(a) + 2] = m[2] /\ d[Len(a) + 3] = m[3] BY <1>2
  <2> QED BY <1>4, <2>1, <2>2
<1>6. PICK i : i = Len(a) + 1 OBVIOUS
<1>7. i + 1 = Len(a) + 2 /\ i + 2 = Len(a) + 3 /\ i \in 1..Len(t) /\ i + 2 <= Len(t)
  BY <1>2, <1>3, <1>4, <1>6
<1>8. i \in DOMAIN t BY <1>4, <1>7 DEF Text
<1>9. Holds(t, r, k) BY <1>1, <1>5, <1>6, <1>7, <1>8 DEF Holds
<1> QED BY <1>4, <1>9 DEF t, d, m

LEMMA HoldsInFront ==
  ASSUME NEW text \in Text, NEW c \in Text, NEW r, NEW k, Holds(text, r, k)
  PROVE  Holds(text \o c, r, k)
<1> DEFINE t == text \o c
<1>1. t \in Text /\ Len(t) = Len(text) + Len(c) /\ \A i \in 1..Len(text) : t[i] = text[i] BY Joined
<1>2. Len(text) \in Nat /\ Len(c) \in Nat /\ DOMAIN text = 1..Len(text) BY DEF Text
<1> HIDE DEF t
<1>3. PICK i \in DOMAIN text :
        i + 2 <= Len(text) /\ text[i] = Begin(r) /\ text[i + 1] = Host(r, k) /\ text[i + 2] = End(r)
  BY DEF Holds
<1>4. i \in 1..Len(text) /\ i + 1 \in 1..Len(text) /\ i + 2 \in 1..Len(text)
      /\ i \in 1..Len(t) /\ i + 2 <= Len(t)
  BY <1>1, <1>2, <1>3
<1>5. t[i] = text[i] /\ t[i + 1] = text[i + 1] /\ t[i + 2] = text[i + 2] BY <1>1, <1>4
<1>6. i \in DOMAIN t BY <1>1, <1>4 DEF Text
<1>7. Holds(t, r, k) BY <1>3, <1>4, <1>5, <1>6 DEF Holds
<1> QED BY <1>7 DEF t

(* However the file looks, the new text has the block.                     *)
LEMMA ReplacedHolds ==
  ASSUME NEW text \in Text, NEW r \in Repos, NEW k \in Keys
  PROVE  Replaced(text, r, k) \in Text /\ Holds(Replaced(text, r, k), r, k)
<1> DEFINE B == First(Begins(text, r))
           E == First({i \in DOMAIN text : Marks(text[i], "end", r) /\ \A j \in B : j < i})
<1>1. Replaced(text, r, k) = ReplacedRange(text, r, k, B, E, 1) BY DEF Replaced, Begins
<1>2. <<>> \in Text /\ Block(r, k) \in Text BY BlockText DEF Text
<1>3. CASE B = {} \/ E = {}
  <2>1. Replaced(text, r, k) = text \o Block(r, k) BY <1>1, <1>3 DEF ReplacedRange
  <2>2. text \o Block(r, k) \in Text BY <1>2, Joined
  <2>3. (text \o Block(r, k)) \o <<>> = text \o Block(r, k) BY <2>2, ConcatEmptySeq DEF Text
  <2>4. Holds(text \o Block(r, k) \o <<>>, r, k) BY <1>2, BlockHolds
  <2> QED BY <2>1, <2>2, <2>3, <2>4
<1>4. CASE B # {} /\ E # {}
  <2>1. PICK b : b = CHOOSE i \in B : TRUE OBVIOUS
  <2>2. PICK e : e = CHOOSE i \in E : TRUE OBVIOUS
  <2>3. b \in DOMAIN text BY <1>4, <2>1 DEF First, Begins
  <2>4. e \in DOMAIN text /\ text[e].kind = "end" BY <1>4, <2>2 DEF First, Marks
  <2> DEFINE x == IF text[e].repo = r THEN <<>> ELSE <<Rest(text[e].repo)>>
             a == SubSeq(text, 1, b - 1)
             c == SubSeq(text, e + 1, Len(text))
  <2>5. Replaced(text, r, k) = a \o Block(r, k) \o x \o c
    <3> HIDE DEF B, E
    <3> QED BY <1>1, <1>4, <2>1, <2>2 DEF ReplacedRange
  <2>6. text[e].repo \in Repos
    <3>1. text[e] \in Lines BY <2>4 DEF Text
    <3> QED BY <2>4, <3>1, LineForms
  <2>7. a \in Text /\ c \in Text BY <2>3, <2>4 DEF Text
  <2>8. x \in Text BY <1>2, <2>6, BlockLines DEF Text
  <2> HIDE DEF a, c, x
  <2>9. a \o Block(r, k) \o x \in Text /\ Holds(a \o Block(r, k) \o x, r, k)
    BY <2>7, <2>8, BlockHolds
  <2>10. PICK t : t = a \o Block(r, k) \o x OBVIOUS
  <2>11. t \o c \in Text /\ Holds(t \o c, r, k) BY <2>7, <2>9, <2>10, Joined, HoldsInFront
  <2> QED BY <2>5, <2>10, <2>11
<1> QED BY <1>3, <1>4

LEMMA ScriptedHolds ==
  ASSUME NEW text \in Text, NEW r \in Repos, NEW k \in Keys
  PROVE  Scripted(text, r, k) \in Text /\ Holds(Scripted(text, r, k), r, k)
<1>1. PICK sed : sed = SedText(text, r) OBVIOUS
<1>2. sed \in Text /\ Scripted(text, r, k) = sed \o Block(r, k) BY <1>1, SedType, ScriptedText
<1>3. <<>> \in Text /\ Block(r, k) \in Text BY BlockText DEF Text
<1>4. sed \o Block(r, k) \in Text BY <1>2, <1>3, Joined
<1>5. (sed \o Block(r, k)) \o <<>> = sed \o Block(r, k) BY <1>4, ConcatEmptySeq DEF Text
<1>6. Holds(sed \o Block(r, k) \o <<>>, r, k) BY <1>2, <1>3, BlockHolds
<1> QED BY <1>2, <1>4, <1>5, <1>6

LEMMA UserLinesType ==
  ASSUME NEW text \in Text
  PROVE  UserLines(text) \subseteq Nat \X Lines
<1> SUFFICES ASSUME NEW x \in UserLines(text) PROVE x \in Nat \X Lines OBVIOUS
<1>0. PICK i \in OwnAt(text) : x = <<Cardinality(OwnAt(text) \cap 1..i), text[i]>>
  BY DEF UserLines
<1>1. i \in DOMAIN text /\ i \in Int /\ 1 \in Int /\ text[i] \in Lines BY DEF OwnAt, Text
<1>2. IsFiniteSet(1..i) BY <1>1, FS_Interval
<1>3. OwnAt(text) \cap 1..i \in SUBSET (1..i) OBVIOUS
<1>4. IsFiniteSet(OwnAt(text) \cap 1..i) BY <1>2, <1>3, FS_Subset
<1>5. Cardinality(OwnAt(text) \cap 1..i) \in Nat BY <1>4, FS_CardinalityType
<1> QED BY <1>0, <1>1, <1>5

LEMMA KeyInType ==
  ASSUME NEW text \in Text, NEW r
  PROVE  KeyIn(text, r) \in Keys \cup {None}
<1>1. CASE Whole(text, r) = {} BY <1>1 DEF KeyIn
<1>2. CASE Whole(text, r) # {}
  <2>1. Whole(text, r) \in SUBSET Nat BY DEF Whole, Text
  <2>2. First(Whole(text, r)) # {} BY <1>2, <2>1, FirstExists
  <2>3. PICK i : i = CHOOSE j \in First(Whole(text, r)) : TRUE OBVIOUS
  <2>4. i \in Whole(text, r) BY <2>2, <2>3 DEF First
  <2>5. i + 1 \in DOMAIN text /\ text[i + 1].kind = "host" BY <2>4 DEF Whole, Text
  <2>6. text[i + 1] \in Lines BY <2>5 DEF Text
  <2>7. text[i + 1].key \in Keys BY <2>5, <2>6, LineForms
  <2> QED BY <1>2, <2>3, <2>7 DEF KeyIn
<1> QED BY <1>1, <1>2

LEMMA EditsType ==
  ASSUME NEW text \in Text, NEW new \in Edits(text)
  PROVE  new \in Text
<1>1. CASE \E u \in Added : new = Append(text, UserLine(u))
  <2>1. PICK u \in Added : new = Append(text, UserLine(u)) BY <1>1
  <2>2. UserLine(u) \in Lines BY DEF UserLine, Lines
  <2> QED BY <2>1, <2>2 DEF Text
<1>2. CASE \E i \in DOMAIN text : new = RemoveAt(text, i)
  BY <1>2, RemoveSplices DEF Splice
<1> QED BY <1>1, <1>2 DEF Edits
-----------------------------------------------------------------------------
(* The type invariant, and that what a call is about to write has its      *)
(* block.                                                                  *)
Writes(j) == j.pc \in {"open", "fill", "old", "mv"} => Holds(j.text, j.repo, j.key)
Typed == TypeOK /\ \A w \in Workers : Writes(job[w])

LEMMA TypedInit == Init => Typed
<1> SUFFICES ASSUME Init PROVE Typed OBVIOUS
<1>1. UserLine(Own) \in Lines BY DEF UserLine, Lines
<1>2. config \in Text
  <2>1. <<>> \in Text /\ <<UserLine(Own)>> \in Text BY <1>1 DEF Text
  <2> QED BY <2>1 DEF Init
<1>3. user \subseteq Nat \X Lines BY <1>2, UserLinesType DEF Init
<1>4. \A w \in Workers : Writes(job[w]) BY DEF Init, Writes, Idle
<1> QED BY <1>2, <1>3, <1>4 DEF Init, Typed, TypeOK, Text

(* A step of one call.                                                     *)
LEMMA TypedStep ==
  ASSUME Typed, NEW w \in Workers, NEW k, k \in Jobs \cup {Idle}, Becomes(w, k), Writes(k),
         onServer' = onServer, config' \in Text, editor' = editor, user' \subseteq Nat \X Lines,
         wanted' \in [Repos -> Keys \cup {None}], damaged' \in BOOLEAN
  PROVE  Typed'
<1>1. Jobs' = Jobs BY DEF Jobs
<1>2. job' \in [Workers -> Jobs \cup {Idle}] BY DEF Becomes, Typed, TypeOK
<1>3. \A v \in Workers : job'[v] = IF v = w THEN k ELSE job[v] BY DEF Becomes, Typed, TypeOK
<1>4. \A v \in Workers : Writes(job[v])' BY <1>3 DEF Writes, Typed
<1> QED BY <1>1, <1>2, <1>4 DEF Typed, TypeOK, Text

LEMMA JobForms ==
  ASSUME TypeOK, NEW w \in Workers, job[w].pc # "idle"
  PROVE  /\ job[w] \in Jobs /\ job[w].repo \in Repos /\ job[w].key \in Keys
         /\ job[w].base \in Text /\ job[w].text \in Text
         /\ job[w].pc = "mv" => onServer
         /\ job[w].pc = "fill" => ~onServer
         /\ job[w] = [pc |-> job[w].pc, repo |-> job[w].repo, key |-> job[w].key,
                      base |-> job[w].base, text |-> job[w].text]
<1>1. job[w] \in Jobs BY DEF TypeOK, Idle
<1> QED BY <1>1 DEF Jobs, Text

LEMMA JobMoves ==
  ASSUME TypeOK, NEW w \in Workers, job[w].pc # "idle", NEW p, NEW c, NEW t, NEW k,
         k = [job[w] EXCEPT !.pc = p, !.base = c, !.text = t]
  PROVE  k = [pc |-> p, repo |-> job[w].repo, key |-> job[w].key, base |-> c, text |-> t]
<1>1. PICK s, r, h, base, text :
        job[w] = [pc |-> s, repo |-> r, key |-> h, base |-> base, text |-> text]
  BY JobForms
<1>2. PICK j : j = job[w] OBVIOUS
<1>3. k = [pc |-> p, repo |-> j.repo, key |-> j.key, base |-> c, text |-> t] BY <1>1, <1>2
<1> QED BY <1>2, <1>3

LEMMA JobStays ==
  ASSUME TypeOK, NEW w \in Workers, job[w].pc # "idle", NEW p, NEW k,
         k = [job[w] EXCEPT !.pc = p]
  PROVE  k = [pc |-> p, repo |-> job[w].repo, key |-> job[w].key, base |-> job[w].base,
              text |-> job[w].text]
<1>1. PICK s, r, h, base, text :
        job[w] = [pc |-> s, repo |-> r, key |-> h, base |-> base, text |-> text]
  BY JobForms
<1>2. PICK j : j = job[w] OBVIOUS
<1>3. k = [pc |-> p, repo |-> j.repo, key |-> j.key, base |-> j.base, text |-> j.text]
  BY <1>1, <1>2
<1> QED BY <1>2, <1>3

(* What a write leaves of the histories.                                   *)
LEMMA ExpectedType ==
  ASSUME TypeOK, NEW w \in Workers, job[w].pc # "idle"
  PROVE  /\ Expected(w) \in [Repos -> Keys \cup {None}]
         /\ PutsBack(w) => user' \subseteq Nat \X Lines
<1>1. job[w].base \in Text BY JobForms
<1>2. wanted \in [Repos -> Keys \cup {None}] /\ user \subseteq Nat \X Lines BY DEF TypeOK
<1>3. \A r \in Repos : KeyIn(job[w].base, r) \in Keys \cup {None} BY <1>1, KeyInType
<1>4. Expected(w) \in [Repos -> Keys \cup {None}] BY <1>2, <1>3 DEF Expected
<1>5. UserLines(job[w].base) \subseteq Nat \X Lines BY <1>1, UserLinesType
<1> QED BY <1>2, <1>4, <1>5 DEF PutsBack

LEMMA EndsType ==
  ASSUME TypeOK, NEW w \in Workers, job[w].pc # "idle",
         NEW f \in [Repos -> Keys \cup {None}], Ends(w, f)
  PROVE  /\ wanted' \in [Repos -> Keys \cup {None}] /\ Becomes(w, Idle)
         /\ \A r \in Repos : IF r = job[w].repo THEN wanted'[r] \in {job[w].key, None}
                                                ELSE wanted'[r] = f[r]
<1>1. job[w].repo \in Repos /\ job[w].key \in Keys BY JobForms
<1>2. PICK k \in {job[w].key, None} : wanted' = [f EXCEPT ![job[w].repo] = k] BY DEF Ends
<1> QED BY <1>1, <1>2 DEF Ends

LEMMA TypedNext == Typed /\ [Next]_vars => Typed'
<1> SUFFICES ASSUME Typed, [Next]_vars PROVE Typed' OBVIOUS
<1>0. /\ config \in Text /\ (editor = <<None>> \/ editor \in Text)
      /\ wanted \in [Repos -> Keys \cup {None}] /\ user \subseteq Nat \X Lines
      /\ damaged \in BOOLEAN /\ TypeOK
      /\ Idle \in Jobs \cup {Idle} /\ Writes(Idle) /\ <<>> \in Text
  BY DEF Typed, TypeOK, Text, Writes, Idle
<1>1. CASE UNCHANGED vars BY <1>1 DEF vars, Typed, TypeOK, Jobs, Writes
<1>2. ASSUME NEW w \in Workers, Ensure(w) PROVE Typed'
  <2>1. PICK r \in Repos, key \in Keys :
          Becomes(w, [Idle EXCEPT !.pc = "read", !.repo = r, !.key = key])
    BY <1>2 DEF Ensure
  <2>2. PICK k : k = [Idle EXCEPT !.pc = "read", !.repo = r, !.key = key] OBVIOUS
  <2>3. k = [pc |-> "read", repo |-> r, key |-> key, base |-> <<>>, text |-> <<>>]
    BY <2>2 DEF Idle
  <2>4. k \in Jobs BY <1>0, <2>3 DEF Jobs, Text
  <2>5. Writes(k) BY <2>3 DEF Writes
  <2> QED BY <1>0, <1>2, <2>1, <2>2, <2>4, <2>5, TypedStep DEF Ensure
<1>3. ASSUME NEW w \in Workers, Read(w) PROVE Typed'
  <2>1. PICK text : text = Replaced(config, job[w].repo, job[w].key) OBVIOUS
  <2>2. PICK k : k = [job[w] EXCEPT !.pc = "open", !.base = config, !.text = text] OBVIOUS
  <2>3. Becomes(w, k) /\ job[w].pc = "read" /\ ~onServer BY <1>3, <2>1, <2>2 DEF Read
  <2>4. job[w].repo \in Repos /\ job[w].key \in Keys
        /\ k = [pc |-> "open", repo |-> job[w].repo, key |-> job[w].key, base |-> config,
                text |-> text]
    <3>1. TypeOK /\ job[w].pc # "idle" BY <1>0, <2>3
    <3>2. job[w].repo \in Repos /\ job[w].key \in Keys BY <3>1, JobForms
    <3> QED BY <2>2, <3>1, <3>2, JobMoves
  <2>5. text \in Text /\ Holds(text, job[w].repo, job[w].key)
    BY <1>0, <2>1, <2>4, ReplacedHolds
  <2>6. k \in Jobs BY <1>0, <2>3, <2>4, <2>5 DEF Jobs, Text
  <2>7. Writes(k) BY <2>4, <2>5 DEF Writes
  <2> QED BY <1>0, <1>3, <2>3, <2>6, <2>7, TypedStep DEF Read
<1>4. ASSUME NEW w \in Workers, Truncate(w) PROVE Typed'
  <2>1. PICK k : k = [job[w] EXCEPT !.pc = "fill"] OBVIOUS
  <2>2. Becomes(w, k) /\ job[w].pc = "open" BY <1>4, <2>1 DEF Truncate
  <2>3. job[w] \in Jobs /\ k = [pc |-> "fill", repo |-> job[w].repo, key |-> job[w].key,
                                base |-> job[w].base, text |-> job[w].text]
    BY <1>0, <2>1, <2>2, JobForms, JobStays
  <2>4. ~onServer BY <2>2, <2>3 DEF Jobs
  <2>5. k \in Jobs BY <2>3, <2>4 DEF Jobs
  <2>6. Writes(k) BY <2>2, <2>3 DEF Writes, Typed
  <2>7. wanted' \in [Repos -> Keys \cup {None}] /\ user' \subseteq Nat \X Lines
    BY <1>0, <1>4, <2>2, ExpectedType DEF Truncate
  <2>8. damaged' \in BOOLEAN BY <1>0, <1>4 DEF Truncate
  <2> QED BY <1>0, <1>4, <2>2, <2>5, <2>6, <2>7, <2>8, TypedStep DEF Truncate
<1>5. ASSUME NEW w \in Workers, Fill(w) \/ FillOld(w) PROVE Typed'
  <2>1. job[w].pc # "idle" /\ job[w].text \in Text BY <1>0, <1>5, JobForms DEF Fill, FillOld
  <2>2. SubSeq(config, Len(job[w].text) + 1, Len(config)) \in Text BY <1>0, <2>1 DEF Text
  <2>3. config' \in Text
    <3>1. CASE Fill(w) BY <2>1, <2>2, <3>1, Joined DEF Fill
    <3>2. CASE FillOld(w) BY <1>0, <3>2 DEF FillOld
    <3> QED BY <1>5, <3>1, <3>2
  <2>4. wanted' \in [Repos -> Keys \cup {None}] /\ Becomes(w, Idle)
    BY <1>0, <1>5, <2>1, EndsType DEF Fill, FillOld
  <2> QED BY <1>0, <1>5, <2>3, <2>4, TypedStep DEF Fill, FillOld
<1>6. ASSUME NEW w \in Workers, RunSed(w) PROVE Typed'
  <2>1. PICK text : text = Scripted(config, job[w].repo, job[w].key) OBVIOUS
  <2>2. PICK k : k = [job[w] EXCEPT !.pc = "mv", !.base = config, !.text = text] OBVIOUS
  <2>3. Becomes(w, k) /\ job[w].pc = "read" /\ onServer BY <1>6, <2>1, <2>2 DEF RunSed
  <2>4. job[w].repo \in Repos /\ job[w].key \in Keys
        /\ k = [pc |-> "mv", repo |-> job[w].repo, key |-> job[w].key, base |-> config,
                text |-> text]
    <3>1. TypeOK /\ job[w].pc # "idle" BY <1>0, <2>3
    <3>2. job[w].repo \in Repos /\ job[w].key \in Keys BY <3>1, JobForms
    <3> QED BY <2>2, <3>1, <3>2, JobMoves
  <2>5. text \in Text /\ Holds(text, job[w].repo, job[w].key)
    BY <1>0, <2>1, <2>4, ScriptedHolds
  <2>6. k \in Jobs BY <1>0, <2>3, <2>4, <2>5 DEF Jobs, Text
  <2>7. Writes(k) BY <2>4, <2>5 DEF Writes
  <2> QED BY <1>0, <1>6, <2>3, <2>6, <2>7, TypedStep DEF RunSed
<1>7. ASSUME NEW w \in Workers, Move(w) PROVE Typed'
  <2>1. job[w].pc = "mv" /\ config' = job[w].text BY <1>7 DEF Move
  <2>2. config' \in Text BY <1>0, <2>1, JobForms
  <2>3. Expected(w) \in [Repos -> Keys \cup {None}] /\ user' \subseteq Nat \X Lines
    BY <1>0, <1>7, <2>1, ExpectedType DEF Move
  <2>4. wanted' \in [Repos -> Keys \cup {None}] /\ Becomes(w, Idle)
    BY <1>0, <1>7, <2>1, <2>3, EndsType DEF Move
  <2> QED BY <1>0, <1>7, <2>2, <2>3, <2>4, TypedStep DEF Move
<1>8. ASSUME NEW w \in Workers, GiveUp(w) \/ DiskFull(w) PROVE Typed'
  BY <1>0, <1>8, TypedStep DEF GiveUp, DiskFull
<1>9. CASE Crash
  <2>1. job' = [w \in Workers |-> Idle] /\ editor' = <<None>>
        /\ UNCHANGED <<onServer, config, wanted, user>> /\ damaged' = (damaged \/ Torn)
    BY <1>9 DEF Crash
  <2>2. damaged' \in BOOLEAN BY <2>1
  <2>3. \A w \in Workers : Writes(job[w])' BY <2>1 DEF Writes, Idle
  <2>4. job' \in [Workers -> Jobs' \cup {Idle}] BY <2>1
  <2> QED BY <1>0, <2>1, <2>2, <2>3, <2>4 DEF Typed, TypeOK
<1>10. CASE OpenEditor
  <2>1. Jobs' = Jobs BY <1>10 DEF OpenEditor, Jobs
  <2>2. \A w \in Workers : Writes(job[w])' BY <1>10 DEF OpenEditor, Writes, Typed
  <2> QED BY <1>0, <1>10, <2>1, <2>2 DEF OpenEditor, Typed, TypeOK, Text
<1>11. CASE SaveEditor
  <2>1. PICK text \in Edits(editor) :
          /\ config' = text /\ user' = UserLines(text)
          /\ wanted' = [r \in Repos |-> KeyIn(text, r)]
          /\ damaged' = (damaged \/ UserLines(text) = UserLines(editor) \/ Torn)
    BY <1>11 DEF SaveEditor
  <2>2. /\ editor # <<None>> /\ editor' = <<None>> /\ UNCHANGED onServer
        /\ job' = [w \in Workers |-> IF job[w].pc = "fill" THEN [job[w] EXCEPT !.pc = "old"]
                                                           ELSE job[w]]
    BY <1>11 DEF SaveEditor
  <2>3. text \in Text BY <1>0, <2>2, EditsType
  <2>4. user' \subseteq Nat \X Lines BY <2>1, <2>3, UserLinesType
  <2>5. wanted' \in [Repos -> Keys \cup {None}] BY <2>1, <2>3, KeyInType
  <2>6. damaged' \in BOOLEAN BY <2>1
  <2>7. Jobs' = Jobs BY <2>2 DEF Jobs
  <2>8. ASSUME NEW w \in Workers PROVE job'[w] \in Jobs \cup {Idle} /\ Writes(job'[w])
    <3>1. CASE job[w].pc # "fill" BY <2>2, <3>1 DEF Typed, TypeOK
    <3>2. CASE job[w].pc = "fill"
      <4>1. PICK k : k = [job[w] EXCEPT !.pc = "old"] OBVIOUS
      <4>2. job[w] \in Jobs /\ ~onServer
            /\ k = [pc |-> "old", repo |-> job[w].repo, key |-> job[w].key,
                    base |-> job[w].base, text |-> job[w].text]
        BY <1>0, <3>2, <4>1, JobForms, JobStays
      <4>3. k \in Jobs BY <4>2 DEF Jobs
      <4>4. Writes(k) BY <3>2, <4>2 DEF Writes, Typed
      <4>5. job'[w] = k BY <2>2, <3>2, <4>1
      <4> QED BY <4>3, <4>4, <4>5
    <3> QED BY <3>1, <3>2
  <2>9. job' \in [Workers -> Jobs \cup {Idle}] BY <2>2, <2>8
  <2>10. \A w \in Workers : Writes(job[w])' BY <2>8 DEF Writes
  <2> QED BY <1>0, <2>1, <2>2, <2>3, <2>4, <2>5, <2>6, <2>7, <2>9, <2>10 DEF TypeOK, Typed, Text
<1> QED BY <1>1, <1>2, <1>3, <1>4, <1>5, <1>6, <1>7, <1>8, <1>9, <1>10, <1>11 DEF Next

(* The file and every text a call is about to write are sequences of       *)
(* lines; calls on a server run the script, calls here write the file.     *)
THEOREM TypeCorrect == Spec => []TypeOK
<1>1. Typed => TypeOK BY DEF Typed
<1> QED BY <1>1, TypedInit, TypedNext, PTL DEF Spec

LEMMA BlockIsThere ==
  ASSUME NEW text \in Text, NEW r \in Repos, NEW k \in Keys, Holds(text, r, k)
  PROVE  \E i \in DOMAIN text : i + 2 <= Len(text) /\ SubSeq(text, i, i + 2) = Block(r, k)
<1>1. PICK i \in DOMAIN text :
        i + 2 <= Len(text) /\ text[i] = Begin(r) /\ text[i + 1] = Host(r, k) /\ text[i + 2] = End(r)
  BY DEF Holds
<1>2. i \in Nat /\ i >= 1 /\ Len(text) \in Nat BY DEF Text
<1> DEFINE s == SubSeq(text, i, i + 2)
           m == Block(r, k)
<1>3. s \in Seq(Lines) /\ Len(s) = 3 /\ s[1] = text[i] /\ s[2] = text[i + 1] /\ s[3] = text[i + 2]
  BY <1>1, <1>2 DEF Text
<1>4. m \in Seq(Lines) /\ Len(m) = 3 /\ m[1] = Begin(r) /\ m[2] = Host(r, k) /\ m[3] = End(r)
  BY BlockText DEF Text
<1> HIDE DEF s, m
<1>5. \A n \in 1..3 : n = 1 \/ n = 2 \/ n = 3 OBVIOUS
<1>6. \A n \in 1..Len(s) : s[n] = m[n] BY <1>1, <1>3, <1>4, <1>5
<1>7. s = m BY <1>3, <1>4, <1>6, SeqEqual
<1> QED BY <1>1, <1>7 DEF s, m

(* A call that ends with the file written leaves a complete block with its *)
(* key, however many calls wrote the file, whatever the user cut from it   *)
(* and whatever write was torn.                                            *)
THEOREM BlockIsWritten == Spec => OwnBlockWritten
<1> DEFINE Written(w) ==
             job[w].pc \in {"fill", "mv"} /\ job'[w].pc = "idle" /\ config' # config =>
               \E i \in DOMAIN config' :
                 i + 2 <= Len(config')
                   /\ SubSeq(config', i, i + 2) = Block(job[w].repo, job[w].key)
<1>1. ASSUME Typed, [Next]_vars, NEW w \in Workers PROVE Written(w)
  <2> SUFFICES ASSUME job[w].pc \in {"fill", "mv"}, job'[w].pc = "idle", config' # config
               PROVE  \E i \in DOMAIN config' :
                        i + 2 <= Len(config')
                          /\ SubSeq(config', i, i + 2) = Block(job[w].repo, job[w].key)
    OBVIOUS
  <2>1. /\ job[w].repo \in Repos /\ job[w].key \in Keys /\ job[w].text \in Text
        /\ Holds(job[w].text, job[w].repo, job[w].key)
    BY <1>1, JobForms DEF Typed, Writes
  <2>2. config \in Text BY <1>1 DEF Typed, TypeOK, Text
  <2>3. Fill(w) \/ Move(w)
    <3>1. ASSUME NEW v \in Workers, v # w, NEW k, Becomes(v, k) PROVE FALSE
      BY <1>1, <3>1 DEF Becomes, Typed, TypeOK
    <3>2. ASSUME NEW v \in Workers, NEW k, Becomes(v, k), k.pc # "idle" PROVE FALSE
      <4>1. v = w BY <3>1, <3>2
      <4> QED BY <1>1, <3>2, <4>1 DEF Becomes, Typed, TypeOK
    <3>3. ASSUME NEW v \in Workers, Truncate(v) PROVE FALSE
      <4>1. PICK k : k = [job[v] EXCEPT !.pc = "fill"] OBVIOUS
      <4>2. Becomes(v, k) /\ job[v].pc = "open" BY <3>3, <4>1 DEF Truncate
      <4>3. k.pc = "fill" BY <1>1, <4>1, <4>2, JobForms DEF Typed
      <4> QED BY <3>2, <4>2, <4>3
    <3>4. ~SaveEditor
      <4>1. ASSUME job'[w] = IF job[w].pc = "fill" THEN [job[w] EXCEPT !.pc = "old"] ELSE job[w]
            PROVE  FALSE
        <5>1. PICK k : k = [job[w] EXCEPT !.pc = "old"] OBVIOUS
        <5>2. k.pc = "old" BY <1>1, <5>1, JobForms DEF Typed
        <5> QED BY <4>1, <5>1, <5>2
      <4> QED BY <4>1 DEF SaveEditor
    <3>5. ASSUME NEW v \in Workers, Fill(v) \/ Move(v) PROVE v = w
      BY <3>1, <3>5 DEF Fill, Move, Ends
    <3> QED BY <1>1, <3>3, <3>4, <3>5
        DEF Next, vars, Ensure, Read, FillOld, RunSed, GiveUp, DiskFull, Crash, OpenEditor
  <2>4. config' \in Text /\ Holds(config', job[w].repo, job[w].key)
    <3>1. SubSeq(config, Len(job[w].text) + 1, Len(config)) \in Text BY <2>1, <2>2 DEF Text
    <3>2. CASE Fill(w) BY <2>1, <3>1, <3>2, Joined, HoldsInFront DEF Fill
    <3>3. CASE Move(w) BY <2>1, <3>3 DEF Move
    <3> QED BY <2>3, <3>2, <3>3
  <2>5. PICK c : c = config' OBVIOUS
  <2>6. \E i \in DOMAIN c : i + 2 <= Len(c) /\ SubSeq(c, i, i + 2) = Block(job[w].repo, job[w].key)
    BY <2>1, <2>4, <2>5, BlockIsThere
  <2> QED BY <2>5, <2>6
<1>2. Typed /\ [Next]_vars => [\A w \in Workers : Written(w)]_vars BY <1>1
<1> QED BY <1>2, TypedInit, TypedNext, PTL DEF Spec, OwnBlockWritten
-----------------------------------------------------------------------------
(* However calls overlap: the blocks are complete in the file, in the      *)
(* editor and in every text that a call read or is about to write.  While  *)
(* no call has the file truncated it holds what the histories say; until   *)
(* then the text of the one that has does.                                 *)
Place == IF onServer THEN "server" ELSE "here"

Tidy(text) == Shaped(text) /\ Distinct(text, Place)

Configured(text, r) == wanted[r] # None => HasKey(text, r, wanted[r])

(* What a call does to the file that it read.                              *)
Ready(j) ==
  /\ Tidy(j.base) /\ Tidy(j.text) /\ UserLines(j.text) = UserLines(j.base)
  /\ HasKey(j.text, j.repo, j.key)
  /\ \A r \in Repos \ ({j.repo} \cup Mistaken(j)) : \A h :
       HasKey(j.base, r, h) => HasKey(j.text, r, h)

Settled == UserLines(config) = user /\ \A r \in Repos : Configured(config, r)

Filling(j) ==
  /\ config = <<>> /\ UserLines(j.text) = user
  /\ \A r \in Repos \ {j.repo} : Configured(j.text, r)

Clean ==
  ~damaged =>
    /\ Tidy(config)
    /\ editor # <<None>> => Tidy(editor)
    /\ ~Torn => Settled
    /\ \A w \in Workers :
         /\ job[w].pc \in {"open", "fill", "mv"} => Ready(job[w])
         /\ job[w].pc = "fill" => Filling(job[w])
         /\ job[w].pc # "old"
    /\ \A v, w \in Workers : job[v].pc = "fill" /\ job[w].pc = "fill" => v = w

Safe == Typed /\ Clean

LEMMA SafeInit == Init => Safe
<1> SUFFICES ASSUME Init PROVE Safe OBVIOUS
<1>1. Typed BY TypedInit
<1>2. \A w \in Workers : job[w].pc = "idle" BY DEF Init, Idle
<1>3. UserLine(Own) \in Lines /\ UserLine(Own).kind = "user" BY DEF UserLine, Lines
<1>4. config \in Text /\ \A i \in DOMAIN config : config[i].kind = "user"
  <2>1. <<>> \in Text /\ DOMAIN <<>> = {} BY DEF Text
  <2>2. <<UserLine(Own)>> \in Text /\ DOMAIN <<UserLine(Own)>> = {1}
        /\ <<UserLine(Own)>>[1] = UserLine(Own)
    BY <1>3 DEF Text
  <2> QED BY <1>3, <2>1, <2>2 DEF Init
<1>5. Shaped(config) /\ Distinct(config, Place)
  BY <1>4 DEF Shaped, ShapedAt, Distinct, Single
<1>6. Settled BY DEF Init, Settled, Configured
<1>7. editor = <<None>> BY DEF Init
<1> QED BY <1>1, <1>2, <1>5, <1>6, <1>7 DEF Safe, Clean, Torn, Tidy

(* The place stays, so that what a call is about to write is as it was.    *)
LEMMA PlaceStays ==
  ASSUME onServer' = onServer
  PROVE  /\ \A text : Tidy(text)' <=> Tidy(text)
         /\ \A j : Ready(j)' <=> Ready(j)
<1>1. Place' = Place BY DEF Place
<1>2. \A text : Tidy(text)' <=> Tidy(text) BY <1>1 DEF Tidy
<1>3. \A j : Mistaken(j)' = Mistaken(j) BY DEF Mistaken
<1>4. ASSUME NEW j PROVE Ready(j)' <=> Ready(j)
  <2>1. /\ Tidy(j.base)' <=> Tidy(j.base)
        /\ Tidy(j.text)' <=> Tidy(j.text)
        /\ Mistaken(j)' = Mistaken(j)
    BY <1>2, <1>3
  <2> QED BY <2>1 DEF Ready
<1> QED BY <1>2, <1>4

(* A step of a call that leaves the file and the histories alone.          *)
LEMMA CalmStep ==
  ASSUME Safe, NEW w \in Workers, job[w].pc # "fill", NEW k, Becomes(w, k),
         k.pc \notin {"fill", "old"},
         UNCHANGED <<onServer, config, editor, wanted, user, damaged>>,
         ~damaged /\ k.pc \in {"open", "mv"} => Ready(k)
  PROVE  Clean'
<1>1. \A v \in Workers : job'[v] = IF v = w THEN k ELSE job[v]
  BY DEF Safe, Typed, TypeOK, Becomes
<1>2. Torn' <=> Torn BY <1>1 DEF Torn
<1>3. /\ \A text : Tidy(text)' <=> Tidy(text)
      /\ \A j : Ready(j)' <=> Ready(j)
  BY PlaceStays
<1>4. /\ Settled' <=> Settled
      /\ \A j : Filling(j)' <=> Filling(j)
  BY DEF Settled, Filling, Configured
<1>5. ASSUME ~damaged
      PROVE  /\ Tidy(config)' /\ (editor # <<None>> => Tidy(editor))' /\ (~Torn => Settled)'
             /\ \A u, v \in Workers : job'[u].pc = "fill" /\ job'[v].pc = "fill" => u = v
  <2>1. Tidy(config)' BY <1>3, <1>5 DEF Safe, Clean
  <2>2. (editor # <<None>> => Tidy(editor))' BY <1>3, <1>5 DEF Safe, Clean
  <2>3. (~Torn => Settled)' BY <1>2, <1>4, <1>5 DEF Safe, Clean
  <2>4. \A u, v \in Workers : job'[u].pc = "fill" /\ job'[v].pc = "fill" => u = v
    BY <1>1, <1>5 DEF Safe, Clean
  <2> QED BY <2>1, <2>2, <2>3, <2>4
<1>6. ASSUME ~damaged, NEW v \in Workers
      PROVE  /\ job'[v].pc \in {"open", "fill", "mv"} => Ready(job[v])'
             /\ job'[v].pc = "fill" => Filling(job[v])'
             /\ job'[v].pc # "old"
  <2>1. PICK j : j = job'[v] OBVIOUS
  <2>2. /\ j.pc \in {"open", "fill", "mv"} => Ready(j)
        /\ j.pc = "fill" => Filling(j)
        /\ j.pc # "old"
    <3>1. CASE v = w BY <1>1, <1>6, <2>1, <3>1
    <3>2. CASE v # w BY <1>1, <1>6, <2>1, <3>2 DEF Safe, Clean
    <3> QED BY <3>1, <3>2
  <2>3. /\ Ready(job[v])' <=> Ready(j)'
        /\ Filling(job[v])' <=> Filling(j)'
    BY <2>1 DEF Ready, Filling, Tidy, Mistaken
  <2>4. (Ready(j)' <=> Ready(j)) /\ (Filling(j)' <=> Filling(j)) BY <1>3, <1>4
  <2> QED BY <2>1, <2>2, <2>3, <2>4
<1>7. damaged' = damaged OBVIOUS
<1> QED BY <1>5, <1>6, <1>7 DEF Clean

(* A step of a call that writes the file, while no other has it truncated. *)
LEMMA WriteStep ==
  ASSUME Safe, NEW w \in Workers, NEW k, Becomes(w, k), k.pc \in {"idle", "fill"},
         onServer' = onServer, editor' = editor,
         ~damaged' =>
           /\ ~damaged /\ \A v \in Workers \ {w} : job[v].pc # "fill"
           /\ Tidy(config')
           /\ k.pc = "fill" => Ready(k) /\ Filling(k)'
           /\ k.pc = "idle" => Settled'
  PROVE  Clean'
<1>1. \A v \in Workers : job'[v] = IF v = w THEN k ELSE job[v]
  BY DEF Safe, Typed, TypeOK, Becomes
<1>2. /\ \A text : Tidy(text)' <=> Tidy(text)
      /\ \A j : Ready(j)' <=> Ready(j)
  BY PlaceStays
<1> SUFFICES ASSUME ~damaged'
             PROVE  /\ Tidy(config)' /\ (editor # <<None>> => Tidy(editor))'
                    /\ (~Torn => Settled)'
                    /\ \A v \in Workers :
                         /\ job'[v].pc \in {"open", "fill", "mv"} => Ready(job[v])'
                         /\ job'[v].pc = "fill" => Filling(job[v])'
                         /\ job'[v].pc # "old"
                    /\ \A u, v \in Workers :
                         job'[u].pc = "fill" /\ job'[v].pc = "fill" => u = v
  BY DEF Clean
<1>3. Tidy(config)'
  <2>1. PICK c : c = config' OBVIOUS
  <2>2. Tidy(c)' BY <1>2, <2>1
  <2> QED BY <2>1, <2>2 DEF Tidy
<1>4. (editor # <<None>> => Tidy(editor))' BY <1>2 DEF Safe, Clean
<1>5. (~Torn => Settled)'
  <2>1. CASE k.pc = "fill" BY <1>1, <2>1 DEF Torn
  <2>2. CASE k.pc = "idle" BY <2>2
  <2> QED BY <2>1, <2>2
<1>6. ASSUME NEW v \in Workers
      PROVE  /\ job'[v].pc \in {"open", "fill", "mv"} => Ready(job[v])'
             /\ job'[v].pc = "fill" => Filling(job[v])'
             /\ job'[v].pc # "old"
  <2>1. PICK j : j = job'[v] OBVIOUS
  <2>2. /\ j.pc \in {"open", "fill", "mv"} => Ready(j)
        /\ j.pc = "fill" => Filling(j)'
        /\ j.pc # "old"
    <3>1. CASE v = w BY <1>1, <2>1, <3>1
    <3>2. CASE v # w BY <1>1, <2>1, <3>2 DEF Safe, Clean
    <3> QED BY <3>1, <3>2
  <2>3. /\ Ready(job[v])' <=> Ready(j)'
        /\ Filling(job[v])' <=> Filling(j)'
    BY <2>1 DEF Ready, Filling, Tidy, Mistaken
  <2> QED BY <1>2, <2>1, <2>2, <2>3
<1>7. \A u, v \in Workers : job'[u].pc = "fill" /\ job'[v].pc = "fill" => u = v BY <1>1
<1> QED BY <1>3, <1>4, <1>5, <1>6, <1>7

(* A call reads the file, or sed does: the new text has its block, the     *)
(* user's lines, and every key but those of a marker it mistook.           *)
LEMMA ReadClean ==
  ASSUME Safe, NEW w \in Workers, Read(w) \/ RunSed(w)
  PROVE  Clean'
<1>1. job[w].pc = "read" /\ UNCHANGED <<onServer, config, editor, wanted, user, damaged>>
  BY DEF Read, RunSed
<1>2. TypeOK /\ config \in Text BY DEF Safe, Typed, TypeOK, Text
<1>3. job[w].repo \in Repos /\ job[w].key \in Keys BY <1>1, <1>2, JobForms
<1>4. ~damaged => Tidy(config) BY DEF Safe, Clean
<1>5. ASSUME NEW p \in {"open", "mv"}, NEW text,
             Becomes(w, [job[w] EXCEPT !.pc = p, !.base = config, !.text = text]),
             ~damaged =>
               /\ Tidy(text) /\ UserLines(text) = UserLines(config)
               /\ HasKey(text, job[w].repo, job[w].key)
               /\ \A r \in Repos : \A h :
                    /\ r # job[w].repo
                    /\ ~onServer => r \notin {config[i].repo : i \in First(Begins(config, job[w].repo))}
                    /\ HasKey(config, r, h)
                    => HasKey(text, r, h)
      PROVE  Clean'
  <2>1. PICK k : k = [job[w] EXCEPT !.pc = p, !.base = config, !.text = text] OBVIOUS
  <2>2. PICK base : base = config OBVIOUS
  <2>3. k = [pc |-> p, repo |-> job[w].repo, key |-> job[w].key, base |-> base, text |-> text]
    BY <1>1, <1>2, <2>1, <2>2, JobMoves
  <2>4. k.pc = p /\ k.repo = job[w].repo /\ k.key = job[w].key /\ k.base = base
        /\ k.text = text
    BY <2>3
  <2>5. ASSUME ~damaged PROVE Ready(k)
    <3>1. /\ Tidy(k.base) /\ Tidy(k.text) /\ UserLines(k.text) = UserLines(k.base)
          /\ HasKey(k.text, k.repo, k.key)
      BY <1>4, <1>5, <2>2, <2>4, <2>5
    <3>2. ASSUME NEW r \in Repos \ ({k.repo} \cup Mistaken(k)), NEW h, HasKey(k.base, r, h)
          PROVE  HasKey(k.text, r, h)
      <4>1. r # job[w].repo BY <2>4, <3>2
      <4>2. ~onServer => r \notin {k.base[i].repo : i \in First(Begins(k.base, k.repo))}
        BY <3>2 DEF Mistaken
      <4>3. ~onServer => r \notin {config[i].repo : i \in First(Begins(config, job[w].repo))}
        BY <2>2, <2>4, <4>2
      <4> QED BY <1>5, <2>2, <2>4, <2>5, <3>2, <4>1, <4>3
    <3> QED BY <3>1, <3>2 DEF Ready
  <2> QED BY <1>1, <1>5, <2>1, <2>4, <2>5, CalmStep
<1>6. CASE Read(w)
  <2>1. PICK text : text = Replaced(config, job[w].repo, job[w].key) OBVIOUS
  <2>2. /\ Becomes(w, [job[w] EXCEPT !.pc = "open", !.base = config, !.text = text])
        /\ ~onServer
    BY <1>6, <2>1 DEF Read
  <2>3. ASSUME ~damaged
        PROVE  /\ Tidy(text) /\ UserLines(text) = UserLines(config)
               /\ HasKey(text, job[w].repo, job[w].key)
               /\ \A r \in Repos : \A h :
                    /\ r # job[w].repo
                    /\ ~onServer => r \notin {config[i].repo : i \in First(Begins(config, job[w].repo))}
                    /\ HasKey(config, r, h)
                    => HasKey(text, r, h)
    <3>1. Shaped(config) /\ Distinct(config, "here") /\ Place = "here"
      BY <1>4, <2>2, <2>3 DEF Tidy, Place
    <3>2. Shaped(text) /\ UserLines(text) = UserLines(config)
      BY <1>2, <1>3, <2>1, <3>1, ReplacedKeeps
    <3>3. /\ Distinct(text, "here") /\ HasKey(text, job[w].repo, job[w].key)
          /\ \A q, h : q \notin {config[i].repo : i \in First(Begins(config, job[w].repo))}
                                  \cup {job[w].repo}
                        /\ HasKey(config, q, h)
               => HasKey(text, q, h)
      BY <1>2, <1>3, <2>1, <3>1, ReplacedConfigures
    <3> QED BY <2>2, <3>1, <3>2, <3>3 DEF Tidy
  <2> QED BY <1>5, <2>2, <2>3
<1>7. CASE RunSed(w)
  <2>1. PICK text : text = Scripted(config, job[w].repo, job[w].key) OBVIOUS
  <2>2. /\ Becomes(w, [job[w] EXCEPT !.pc = "mv", !.base = config, !.text = text])
        /\ onServer
    BY <1>7, <2>1 DEF RunSed
  <2>3. ASSUME ~damaged
        PROVE  /\ Tidy(text) /\ UserLines(text) = UserLines(config)
               /\ HasKey(text, job[w].repo, job[w].key)
               /\ \A q, h : q # job[w].repo /\ HasKey(config, q, h) => HasKey(text, q, h)
    <3>1. Shaped(config) /\ Distinct(config, "server") /\ Place = "server"
      BY <1>4, <2>2, <2>3 DEF Tidy, Place
    <3>2. /\ Shaped(text) /\ Distinct(text, "server") /\ UserLines(text) = UserLines(config)
          /\ HasKey(text, job[w].repo, job[w].key)
          /\ \A q, h : q # job[w].repo /\ HasKey(config, q, h) => HasKey(text, q, h)
      BY <1>2, <1>3, <2>1, <3>1, ScriptedKeeps
    <3> QED BY <3>1, <3>2 DEF Tidy
  <2> QED BY <1>5, <2>2, <2>3
<1> QED BY <1>6, <1>7

(* Every key that a call leaves to the file is in the text it writes.      *)
LEMMA ExpectedFound ==
  ASSUME Typed, NEW w \in Workers, job[w].pc # "idle", Ready(job[w]), Settled,
         NEW r \in Repos \ {job[w].repo}, Expected(w)[r] # None
  PROVE  HasKey(job[w].text, r, Expected(w)[r])
<1>1. job[w].base \in Text /\ Shaped(job[w].base) BY JobForms DEF Typed, Ready, Tidy
<1>2. r \notin Mistaken(job[w])
      /\ Expected(w)[r] = IF Overtaken(w) THEN KeyIn(job[w].base, r) ELSE wanted[r]
  BY DEF Expected
<1>3. HasKey(job[w].base, r, Expected(w)[r])
  <2>1. CASE Overtaken(w) BY <1>1, <1>2, <2>1, KeyIsFound
  <2>2. CASE ~Overtaken(w)
    <3>1. job[w].base = config BY <2>2 DEF Overtaken
    <3> QED BY <1>2, <2>2, <3>1 DEF Settled, Configured
  <2> QED BY <2>1, <2>2
<1> QED BY <1>2, <1>3 DEF Ready

(* So are the user's lines.                                                *)
LEMMA LinesFound ==
  ASSUME NEW w \in Workers, Ready(job[w]), Settled, PutsBack(w)
  PROVE  UserLines(job[w].text) = user'
BY DEF Ready, Settled, PutsBack, Overtaken

LEMMA TruncateClean ==
  ASSUME Safe, NEW w \in Workers, Truncate(w)
  PROVE  Clean'
<1>1. /\ job[w].pc = "open" /\ config' = <<>> /\ wanted' = Expected(w) /\ PutsBack(w)
      /\ damaged' = (damaged \/ Torn) /\ onServer' = onServer /\ editor' = editor
  BY DEF Truncate
<1>2. TypeOK /\ Typed BY DEF Safe, Typed
<1>3. PICK k : k = [job[w] EXCEPT !.pc = "fill"] OBVIOUS
<1>4. Becomes(w, k) BY <1>3 DEF Truncate
<1>5. k = [pc |-> "fill", repo |-> job[w].repo, key |-> job[w].key, base |-> job[w].base,
           text |-> job[w].text]
  BY <1>1, <1>2, <1>3, JobStays
<1>6. k.pc = "fill" /\ k.repo = job[w].repo /\ k.key = job[w].key /\ k.base = job[w].base
      /\ k.text = job[w].text
  BY <1>5
<1>7. ASSUME ~damaged'
      PROVE  /\ ~damaged /\ \A v \in Workers \ {w} : job[v].pc # "fill"
             /\ Tidy(config') /\ Ready(k) /\ Filling(k)'
  <2>1. ~damaged /\ ~Torn BY <1>1, <1>7
  <2>2. Settled /\ Ready(job[w]) BY <1>1, <2>1 DEF Safe, Clean
  <2>3. Ready(k) BY <1>6, <2>2 DEF Ready, Mistaken
  <2>4. Tidy(<<>>) BY DEF Tidy, Shaped, Distinct
  <2>5. UserLines(k.text) = user' BY <1>1, <1>6, <2>2, LinesFound
  <2>6. ASSUME NEW r \in Repos \ {k.repo}, wanted'[r] # None PROVE HasKey(k.text, r, wanted'[r])
    BY <1>1, <1>2, <1>6, <2>2, <2>6, ExpectedFound
  <2>7. Filling(k)' BY <1>1, <2>5, <2>6 DEF Filling, Configured
  <2> QED BY <1>1, <2>1, <2>3, <2>4, <2>7 DEF Torn
<1> QED BY <1>1, <1>4, <1>6, <1>7, WriteStep

LEMMA FillClean ==
  ASSUME Safe, NEW w \in Workers, Fill(w)
  PROVE  Clean'
<1>1. /\ job[w].pc = "fill" /\ Ends(w, wanted)
      /\ config' = job[w].text \o SubSeq(config, Len(job[w].text) + 1, Len(config))
      /\ UNCHANGED <<onServer, editor, user, damaged>>
  BY DEF Fill
<1>2. TypeOK /\ wanted \in [Repos -> Keys \cup {None}] BY DEF Safe, Typed, TypeOK
<1>3. job[w].text \in Text BY <1>1, <1>2, JobForms
<1>4. Becomes(w, Idle) /\ \A r \in Repos : IF r = job[w].repo THEN wanted'[r] \in {job[w].key, None}
                                                            ELSE wanted'[r] = wanted[r]
  BY <1>1, <1>2, EndsType
<1>5. PICK k : k = Idle OBVIOUS
<1>6. k.pc = "idle" BY <1>5 DEF Idle
<1>7. ASSUME ~damaged'
      PROVE  /\ ~damaged /\ \A v \in Workers \ {w} : job[v].pc # "fill"
             /\ Tidy(config') /\ Settled'
  <2>1. ~damaged BY <1>1, <1>7
  <2>2. Ready(job[w]) /\ Filling(job[w]) /\ \A v \in Workers \ {w} : job[v].pc # "fill"
    BY <1>1, <2>1 DEF Safe, Clean
  <2>3. config' = job[w].text
    <3>1. config = <<>> BY <2>2 DEF Filling
    <3>2. Len(job[w].text) \in Nat BY <1>3 DEF Text
    <3>3. SubSeq(<<>>, Len(job[w].text) + 1, Len(<<>>)) = <<>> BY <3>2
    <3>4. job[w].text \o <<>> = job[w].text BY <1>3, ConcatEmptySeq DEF Text
    <3> QED BY <1>1, <3>1, <3>3, <3>4
  <2>4. Tidy(config') BY <2>2, <2>3 DEF Ready
  <2>5. UserLines(config') = user' BY <1>1, <2>2, <2>3 DEF Filling
  <2>6. \A r \in Repos : wanted'[r] # None => HasKey(config', r, wanted'[r])
    BY <1>4, <2>2, <2>3 DEF Ready, Filling, Configured
  <2> QED BY <2>1, <2>2, <2>4, <2>5, <2>6 DEF Settled, Configured
<1> QED BY <1>1, <1>4, <1>5, <1>6, <1>7, WriteStep

LEMMA MoveClean ==
  ASSUME Safe, NEW w \in Workers, Move(w)
  PROVE  Clean'
<1>1. /\ job[w].pc = "mv" /\ Ends(w, Expected(w)) /\ PutsBack(w) /\ config' = job[w].text
      /\ UNCHANGED <<onServer, editor, damaged>>
  BY DEF Move
<1>2. TypeOK /\ Typed BY DEF Safe, Typed
<1>3. onServer /\ Expected(w) \in [Repos -> Keys \cup {None}] BY <1>1, <1>2, JobForms, ExpectedType
<1>4. Becomes(w, Idle) /\ \A r \in Repos : IF r = job[w].repo THEN wanted'[r] \in {job[w].key, None}
                                                            ELSE wanted'[r] = Expected(w)[r]
  BY <1>1, <1>2, <1>3, EndsType
<1>5. PICK k : k = Idle OBVIOUS
<1>6. k.pc = "idle" BY <1>5 DEF Idle
<1>7. ASSUME ~damaged'
      PROVE  /\ ~damaged /\ \A v \in Workers \ {w} : job[v].pc # "fill"
             /\ Tidy(config') /\ Settled'
  <2>1. ~damaged BY <1>1, <1>7
  <2>2. \A v \in Workers : job[v].pc # "fill" BY <1>2, <1>3, JobForms
  <2>3. ~Torn BY <2>2 DEF Torn
  <2>4. Settled /\ Ready(job[w]) BY <1>1, <2>1, <2>3 DEF Safe, Clean
  <2>5. Tidy(config') BY <1>1, <2>4 DEF Ready
  <2>6. UserLines(config') = user' BY <1>1, <2>4, LinesFound
  <2>7. ASSUME NEW r \in Repos, wanted'[r] # None PROVE HasKey(config', r, wanted'[r])
    <3>1. CASE r = job[w].repo BY <1>1, <1>4, <2>4, <2>7, <3>1 DEF Ready
    <3>2. CASE r # job[w].repo
      <4>1. wanted'[r] = Expected(w)[r] /\ r \in Repos \ {job[w].repo} BY <1>4, <3>2
      <4>2. HasKey(job[w].text, r, Expected(w)[r])
        BY <1>1, <1>2, <2>4, <2>7, <4>1, ExpectedFound
      <4> QED BY <1>1, <4>1, <4>2
    <3> QED BY <3>1, <3>2
  <2> QED BY <2>1, <2>2, <2>5, <2>6, <2>7 DEF Settled, Configured
<1> QED BY <1>1, <1>4, <1>5, <1>6, <1>7, WriteStep

LEMMA SaveClean ==
  ASSUME Safe, SaveEditor
  PROVE  Clean'
<1>1. PICK text \in Edits(editor) :
        /\ config' = text /\ user' = UserLines(text)
        /\ wanted' = [r \in Repos |-> KeyIn(text, r)]
        /\ damaged' = (damaged \/ UserLines(text) = UserLines(editor) \/ Torn)
  BY DEF SaveEditor
<1>2. /\ editor # <<None>> /\ editor' = <<None>> /\ UNCHANGED onServer
      /\ job' = [w \in Workers |-> IF job[w].pc = "fill" THEN [job[w] EXCEPT !.pc = "old"]
                                                         ELSE job[w]]
  BY DEF SaveEditor
<1>3. editor \in Text BY <1>2 DEF Safe, Typed, TypeOK, Text
<1>4. text \in Text BY <1>3, EditsType
<1> SUFFICES ASSUME ~damaged' PROVE Clean' BY DEF Clean
<1>5. ~damaged /\ UserLines(text) # UserLines(editor) /\ ~Torn BY <1>1
<1>6. job' = job
  <2>1. \A w \in Workers : job[w].pc # "fill" BY <1>5 DEF Torn
  <2>2. job \in [Workers -> Jobs \cup {Idle}] BY DEF Safe, Typed, TypeOK
  <2> QED BY <1>2, <2>1, <2>2
<1>7. Shaped(editor) /\ Distinct(editor, Place) BY <1>2, <1>5 DEF Safe, Clean, Tidy
<1>8. Tidy(text)
  <2>1. CASE \E u \in Added : text = Append(editor, UserLine(u))
    BY <1>3, <1>7, <2>1, UserAdds DEF Tidy
  <2>2. CASE \E i \in DOMAIN editor : text = RemoveAt(editor, i)
    BY <1>3, <1>5, <1>7, <2>2, UserDeletes DEF Tidy
  <2> QED BY <2>1, <2>2 DEF Edits
<1>9. /\ \A t : Tidy(t)' <=> Tidy(t)
      /\ \A j : Ready(j)' <=> Ready(j)
  BY <1>2, PlaceStays
<1>10. Tidy(config)' BY <1>1, <1>8, <1>9 DEF Tidy
<1>11. Settled'
  <2>1. ASSUME NEW r \in Repos, KeyIn(text, r) # None PROVE HasKey(text, r, KeyIn(text, r))
    BY <1>4, <1>8, <2>1, KeyIsFound DEF Tidy
  <2>2. \A r \in Repos : wanted'[r] = KeyIn(text, r) BY <1>1
  <2> QED BY <1>1, <2>1, <2>2 DEF Settled, Configured
<1>12. ASSUME NEW w \in Workers
       PROVE  /\ job'[w].pc # "fill" /\ job'[w].pc # "old"
              /\ job'[w].pc \in {"open", "fill", "mv"} => Ready(job[w])'
  <2>1. PICK j : j = job[w] OBVIOUS
  <2>2. j.pc # "fill" /\ j.pc # "old" /\ (j.pc \in {"open", "fill", "mv"} => Ready(j))
    BY <1>5, <2>1 DEF Safe, Clean, Torn
  <2>3. j = job'[w] BY <1>6, <2>1
  <2>4. Ready(job[w])' <=> Ready(j)' BY <2>3 DEF Ready, Tidy, Mistaken
  <2> QED BY <1>9, <2>2, <2>3, <2>4
<1> QED BY <1>2, <1>10, <1>11, <1>12 DEF Clean

LEMMA SafeNext == Safe /\ [Next]_vars => Safe'
<1> SUFFICES ASSUME Safe, [Next]_vars PROVE Safe' OBVIOUS
<1>1. Typed' BY TypedNext DEF Safe
<1>2. CASE UNCHANGED vars
  <2>1. UNCHANGED <<onServer, config, editor, job, wanted, user, damaged>> BY <1>2 DEF vars
  <2>2. Clean'
    BY <2>1 DEF Safe, Clean, Torn, Tidy, Place, Settled, Filling, Configured, Ready, Mistaken
  <2> QED BY <1>1, <2>2 DEF Safe
<1>3. ASSUME NEW w \in Workers, Ensure(w) PROVE Clean'
  <2>1. PICK r \in Repos, key \in Keys :
          Becomes(w, [Idle EXCEPT !.pc = "read", !.repo = r, !.key = key])
    BY <1>3 DEF Ensure
  <2>2. PICK k : k = [Idle EXCEPT !.pc = "read", !.repo = r, !.key = key] OBVIOUS
  <2>3. k.pc = "read" BY <2>2 DEF Idle
  <2>4. UNCHANGED <<onServer, config, editor, wanted, user, damaged>> /\ job[w].pc # "fill"
    BY <1>3 DEF Ensure, Active
  <2> QED BY <2>1, <2>2, <2>3, <2>4, CalmStep
<1>4. ASSUME NEW w \in Workers, GiveUp(w) PROVE Clean'
  <2>1. PICK k : k = Idle OBVIOUS
  <2>2. k.pc = "idle" BY <2>1 DEF Idle
  <2>3. /\ UNCHANGED <<onServer, config, editor, wanted, user, damaged>>
        /\ job[w].pc # "fill" /\ Becomes(w, k)
    BY <1>4, <2>1 DEF GiveUp
  <2> QED BY <2>2, <2>3, CalmStep
<1>5. ASSUME NEW w \in Workers, DiskFull(w) PROVE Clean' BY <1>5 DEF DiskFull, Clean
<1>6. ASSUME NEW w \in Workers, FillOld(w) PROVE Clean'
  <2>1. damaged' BY <1>6 DEF FillOld, Safe, Clean, Typed, TypeOK
  <2> QED BY <2>1 DEF Clean
<1>7. ASSUME Crash PROVE Clean'
  <2>1. /\ job' = [w \in Workers |-> Idle] /\ editor' = <<None>>
        /\ damaged' = (damaged \/ Torn) /\ UNCHANGED <<onServer, config, wanted, user>>
    BY <1>7 DEF Crash
  <2>2. \A w \in Workers : job'[w].pc = "idle" BY <2>1 DEF Idle
  <2>3. ~damaged' => ~damaged /\ ~Torn BY <2>1
  <2>4. ~damaged' => Tidy(config)' /\ Settled'
    BY <2>1, <2>3 DEF Safe, Clean, Tidy, Place, Settled, Configured
  <2> QED BY <2>1, <2>2, <2>4 DEF Clean
<1>8. ASSUME OpenEditor PROVE Clean'
  <2>1. editor' = config /\ UNCHANGED <<onServer, config, job, wanted, user, damaged>>
    BY <1>8 DEF OpenEditor
  <2>2. Torn' = Torn BY <2>1 DEF Torn
  <2>3. Clean'
    BY <2>1, <2>2 DEF Safe, Clean, Tidy, Place, Settled, Filling, Configured, Ready, Mistaken
  <2> QED BY <2>3
<1>9. ASSUME SaveEditor PROVE Clean' BY <1>9, SaveClean
<1>10. CASE Next
  <2>1. Clean'
    BY <1>3, <1>4, <1>5, <1>6, <1>7, <1>8, <1>9, <1>10,
       ReadClean, TruncateClean, FillClean, MoveClean DEF Next
  <2> QED BY <1>1, <2>1 DEF Safe
<1> QED BY <1>2, <1>10

-----------------------------------------------------------------------------
(* The lines of the user's own come through every number of calls, crashes, *)
(* lost replies and saves of an editor that may be older than the file,    *)
(* whatever ids the repositories have and however calls overlap: a call    *)
(* takes lines away only by putting back the file it read before another   *)
(* write.  A torn write and a marker the user cut are the only exceptions. *)
THEOREM UserLinesSurvive == Spec => []UserLinesKept
<1>1. Safe => UserLinesKept BY DEF Safe, Clean, Settled, UserLinesKept, Sound
<1> QED BY <1>1, SafeInit, SafeNext, PTL DEF Spec

(* The rest of the file is complete blocks.  On a server a repository has  *)
(* one at most; here that is so for one whose marker is in no other's, and *)
(* only the others leave a rest of theirs behind.                          *)
THEOREM BlocksStayWhole == Spec => []WellFormed
<1>1. Safe => WellFormed
  <2> SUFFICES ASSUME Safe, Sound PROVE WellFormed BY DEF WellFormed
  <2>1. Shaped(config) /\ Distinct(config, Place) BY DEF Safe, Clean, Sound, Tidy
  <2>2. \A i \in DOMAIN config : config[i].kind = "rest" =>
          ~onServer /\ \E s \in Repos \ {config[i].repo} : StartsWith(config[i].repo, s)
    BY <2>1 DEF Distinct, Place, Stub
  <2>3. \A i, j \in DOMAIN config :
          config[i].kind = "begin" /\ FoundAlone(config[i].repo) /\ config[i] = config[j] => i = j
    BY <2>1 DEF Distinct, Place, Single, Lonely, FoundAlone
  <2>4. \A i \in DOMAIN config : ShapedAt(config, i) BY <2>1 DEF Shaped
  <2> QED BY <2>2, <2>3, <2>4 DEF WellFormed, ShapedAt
<1> QED BY <1>1, SafeInit, SafeNext, PTL DEF Spec

(* The block that ssh finds for a repository names the key of the last     *)
(* call for it that succeeded: configuring one repository does not undo    *)
(* another, but for a call that was overtaken or that found the other's    *)
(* marker in place of its own.                                             *)
THEOREM BlocksStayConfigured == Spec => []QuietMeansConfigured
<1>1. Safe => QuietMeansConfigured
  <2> SUFFICES ASSUME Safe, Quiet, ~damaged, NEW r \in Repos, wanted[r] # None
               PROVE  KeyIn(config, r) = wanted[r]
    BY DEF QuietMeansConfigured
  <2>1. ~Torn BY DEF Quiet, Active, Torn
  <2>2. Shaped(config) /\ HasKey(config, r, wanted[r])
    BY <2>1 DEF Safe, Clean, Tidy, Settled, Configured
  <2>3. config \in Text BY DEF Safe, Typed, TypeOK, Text
  <2> QED BY <2>2, <2>3, KeyIsFound
<1> QED BY <1>1, SafeInit, SafeNext, PTL DEF Spec
=============================================================================
