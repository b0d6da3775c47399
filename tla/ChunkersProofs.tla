------------------------------ MODULE ChunkersProofs ------------------------------
(* Theorems about Chunkers, for any texts and any sizes.                           *)
EXTENDS Chunkers, FiniteSetTheorems, SequenceTheorems, WellFoundedInduction, TLAPS

(* A set of numbers that is not empty has a least one, and Min is it.              *)
LEMMA LeastOf ==
  ASSUME NEW T, T \subseteq Nat, T # {}
  PROVE  Min(T) \in T /\ Min(T) \in Nat /\ \A j \in T : Min(T) <= j
<1>1. PICK k \in T : \A j \in T : ~(<<j, k>> \in OpToRel(<, Nat))
  BY NatLessThanWellFounded, WFMin, Zenon
<1>2. \A j \in T : k <= j
  <2> SUFFICES ASSUME NEW j \in T PROVE k <= j
    OBVIOUS
  <2>1. j \in Nat /\ k \in Nat /\ ~(j < k)
    BY <1>1 DEF OpToRel
  <2> QED
    BY <2>1
<1> QED
  BY <1>2 DEF Min

(* One that is bounded as well has a greatest one, and Max is it.                  *)
LEMMA GreatestOf ==
  ASSUME NEW n \in Nat, NEW T, T \subseteq 0..n, T # {}
  PROVE  Max(T) \in T /\ Max(T) \in 0..n /\ \A j \in T : j <= Max(T)
<1> DEFINE U == {m \in Nat : \E j \in T : m = n - j}
<1>1. U \subseteq Nat /\ U # {}
  <2>1. PICK j \in T : TRUE
    OBVIOUS
  <2>2. n - j \in U
    BY <2>1
  <2> QED
    BY <2>2
<1>2. Min(U) \in U /\ Min(U) \in Nat /\ \A j \in U : Min(U) <= j
  BY <1>1, LeastOf
<1>3. PICK k \in T : Min(U) = n - k
  BY <1>2
<1>4. \A j \in T : j <= k
  <2> SUFFICES ASSUME NEW j \in T PROVE j <= k
    OBVIOUS
  <2>1. j \in 0..n /\ k \in 0..n /\ n - j \in U
    OBVIOUS
  <2>2. n - k <= n - j
    BY <1>2, <1>3, <2>1
  <2> QED
    BY <2>1, <2>2
<1> HIDE DEF U
<1> QED
  BY <1>4 DEF Max
-----------------------------------------------------------------------------------
(* What the variables hold.                                                        *)
Place == 0 .. Len(text)
Path == Seq(Place)
Nodes == {Root} \cup Headings
Span == [from : Nat, end : Nat]
Chunks == [content : Path, body : Path, lap : Path, start : Int, end : Int]

(* The headings a call has passed, a newline behind each.                          *)
Even(n) == \E h \in Nat : n = 2 * h
Trail == {path \in Path : Even(Len(path))}

Call == [kind : {"node"}, node : Nodes, path : Trail]
   \cup [kind : {"children"}, node : Nodes, last : Headings, path : Trail]
   \cup [kind : {"body", "cuts"}, from : Nat, end : Nat, path : Trail, start : Int]
   \cup [kind : {"scan"}, from : Nat, end : Nat, path : Trail, start : Int, width : {1, 2}, rest : Nat,
         parts : Seq(Span)]
   \cup [kind : {"parts"}, path : Trail, width : {1, 2}, parts : Seq(Span), buf : Path, start : Int, pos : Int]
   \cup [kind : {"semantic"}, from : Nat, end : Nat, start : Int, depth : Nat]
   \cup [kind : {"sentences"}, from : Nat, end : Nat, start : Int, depth : Nat, marks : SUBSET Nat]
   \cup [kind : {"groups"}, marks : SUBSET Nat, cut : SUBSET Nat, start : Int, depth : Nat, next : Nat]

TypeOK == /\ text \in Texts /\ strategy \in Strategies /\ at \in Nat
          /\ stage \in {"start", "refused", "split", "overlap", "done"}
          /\ work \in Seq(Call) /\ chunks \in Seq(Chunks)

(* What every call in progress relies on.                                          *)
Stretch(from, end) == from \in 1 .. TextEnd /\ end \in from .. TextEnd
StartsSolid(from, end) == from < end => ~IsBlank(from)

(* The parts of a body: one after the other, breaks between them and none inside.  *)
PartsOK(parts, width) ==
  /\ \A i \in DOMAIN parts :
       /\ Stretch(parts[i].from, parts[i].end) /\ parts[i].from < parts[i].end
       /\ \A k \in parts[i].from .. parts[i].end - width : ~Blanks(k, k + width)
  /\ \A i, j \in DOMAIN parts : i < j => parts[i].end + width <= parts[j].from
Adjacent(parts, width) ==
  \A i \in DOMAIN parts : i > 1 => parts[i].from = parts[i - 1].end + width

BodyOK(f) == /\ Stretch(f.from, f.end) /\ f.start < f.from
             /\ Packed => f.start = f.from - 1 /\ StartsSolid(f.from, f.end)
CutsOK(f) == /\ Stretch(f.from, f.end) /\ f.start < f.from
             /\ \A k \in f.from .. f.end - 1 : ~IsBlank(k)
             /\ Packed => f.start = f.from - 1
ScanOK(f) ==
  /\ BodyOK(f) /\ ~Blanks(f.from, f.end) /\ f.rest \in f.from .. f.end
  /\ f.width = 1 \/ f.rest # f.from => \E k \in f.from .. f.end - 1 : IsBlank(k)
  /\ PartsOK(f.parts, f.width)
  /\ \A i \in DOMAIN f.parts : f.from <= f.parts[i].from /\ f.parts[i].end + f.width <= f.rest
  /\ \A k \in f.from .. f.rest - 1 :
       IsBlank(k) \/ \E i \in DOMAIN f.parts : f.parts[i].from <= k /\ k < f.parts[i].end
  /\ Packed =>
       /\ Adjacent(f.parts, f.width)
       /\ f.parts = <<>> => f.rest = f.from
       /\ f.parts # <<>> =>
            /\ f.parts[1].from = f.from /\ Blanks(f.rest - f.width, f.rest)
            /\ \/ f.rest = f.parts[Len(f.parts)].end + f.width
               \/ f.width = 1 /\ f.rest = f.end
       /\ f.width = 1 => \A k \in f.from + 1 .. f.end - 1 : IsBlank(k - 1) /\ IsBlank(k) => k = f.end - 1

Increasing(body) ==
  \A a, b \in DOMAIN body : a < b /\ body[a] # Added /\ body[b] # Added => body[a] < body[b]
SizeOK(body) ==
  \/ Tokens(body) <= ChunkSize \/ Len(body) <= 2 * ChunkSize + 1
  \/ /\ OneParagraph(body)
     /\ (\A k \in DOMAIN text : ~IsBlank(k)) => Tokens(body) <= 2 * CutTokens
PlaceOK(body, start) ==
  /\ body # <<>> /\ body[1] # Added /\ body[Len(body)] # Added
  /\ start < body[1] /\ start + Len(body) <= body[Len(body)]
  /\ Packed => /\ start = body[1] - 1 /\ start + Len(body) = body[Len(body)]
               /\ \A a \in DOMAIN body : body[a] \in {Added, start + a}
GatherOK(f) ==
  /\ PartsOK(f.parts, f.width) /\ \E k \in DOMAIN text : IsBlank(k)
  /\ Increasing(f.buf)
  /\ f.buf # <<>> => /\ PlaceOK(f.buf, f.start) /\ SizeOK(f.buf)
                     /\ f.pos = f.start + Len(f.buf) + f.width
  /\ f.buf = <<>> => f.start = f.pos
  /\ \A i \in DOMAIN f.parts :
       f.pos < f.parts[i].from /\ \A a \in DOMAIN f.buf : f.buf[a] < f.parts[i].from
  /\ Packed => /\ Adjacent(f.parts, f.width)
               /\ f.parts # <<>> => f.pos = f.parts[1].from - 1
               /\ f.parts # <<>> /\ f.buf # <<>> => f.pos = f.buf[Len(f.buf)] + f.width

SemanticOK(f) ==
  /\ strategy = "semantic" /\ Stretch(f.from, f.end) /\ f.start = f.from - 1
  /\ f.depth + (f.end - f.from) <= Len(text)
  /\ Packed => StartsSolid(f.from, f.end)
SentencesOK(f) ==
  /\ SemanticOK(f) /\ f.marks \subseteq f.from .. f.end /\ f.from \in f.marks
  /\ Packed => \A m \in f.marks : m < f.end => ~IsBlank(m)
GroupsOK(f) ==
  /\ strategy = "semantic" /\ f.marks \subseteq 1 .. TextEnd /\ f.marks # {}
  /\ f.cut \subseteq f.marks \ {Min(f.marks), Max(f.marks)} /\ f.cut # {}
  /\ f.next \in f.marks /\ f.start = Min(f.marks) - 1
  /\ f.depth + (Max(f.marks) - Min(f.marks)) <= Len(text)
  /\ Packed => \A m \in f.marks : m < Max(f.marks) => ~IsBlank(m)

CallOK(f) ==
  /\ f.kind = "node" => strategy = "title" /\ Headings # {}
  /\ f.kind = "children" => strategy = "title" /\ f.last \in DirectChildren(f.node)
  /\ f.kind = "body" => BodyOK(f)
  /\ f.kind = "cuts" => CutsOK(f)
  /\ f.kind = "scan" => ScanOK(f)
  /\ f.kind = "parts" => GatherOK(f)
  /\ f.kind = "semantic" => SemanticOK(f)
  /\ f.kind = "sentences" => SentencesOK(f)
  /\ f.kind = "groups" => GroupsOK(f)

(* The places that a call may still put into a body, and those it is sure to put   *)
(* into a path.                                                                    *)
Reals(body) == {k \in DOMAIN text : \E a \in DOMAIN body : body[a] = k}
Held(f) ==
  CASE f.kind = "node" -> ContentStart(f.node) .. ContentEnd(f.node) - 1
    [] f.kind = "children" -> ContentEnd(f.last) .. ContentEnd(f.node) - 1
    [] f.kind = "parts" -> {k \in DOMAIN text :
         \/ \E a \in DOMAIN f.buf : f.buf[a] = k
         \/ \E i \in DOMAIN f.parts : f.parts[i].from <= k /\ k < f.parts[i].end}
    [] f.kind = "groups" -> f.next .. Max(f.marks) - 1
    [] OTHER -> f.from .. f.end - 1
Emits(f) ==
  \/ f.kind = "body" /\ ~Blanks(f.from, f.end)
  \/ f.kind = "cuts" /\ f.from < f.end
  \/ f.kind = "scan"
  \/ f.kind = "parts" /\ (f.buf # <<>> \/ f.parts # <<>>)
Owes(f) == IF f.kind = "node" THEN {f.node} ELSE IF Emits(f) THEN Reals(f.path) ELSE {}

Apart(calls) == \A i, j \in DOMAIN calls : i < j => \A p \in Held(calls[i]), q \in Held(calls[j]) : p < q
Behind(body, calls) == \A p \in Reals(body) : \A j \in DOMAIN calls : \A q \in Held(calls[j]) : p < q
Left(k) == strategy = "title" /\ k \in Headings /\ Dropped(k)
InSome(k) == \E i \in DOMAIN chunks : \E a \in DOMAIN chunks[i].content : chunks[i].content[a] = k
Promised(k) == \E i \in DOMAIN work : k \in Held(work[i]) \cup Owes(work[i])

(* A new chunk is in its place and its content ends with its body.                 *)
Ends(content, body) ==
  /\ Len(body) <= Len(content)
  /\ \A a \in DOMAIN body : content[Len(content) - Len(body) + a] = body[a]
FreshOK(c) == /\ PlaceOK(c.body, c.start) /\ c.end = c.start + Len(c.body) /\ c.lap = <<>>
              /\ Ends(c.content, c.body) /\ Even(Len(c.content) - Len(c.body))

(* With the overlap its content still ends with its body, unless that begins with  *)
(* a heading, behind which the overlap is then put.                                *)
MarkOK(list, i) ==
  LET c == list[i] IN
  /\ PlaceOK(c.body, c.end - Len(c.body)) /\ c.start < c.body[1]
  /\ c.lap = <<>> => c.start = c.end - Len(c.body) /\ Even(Len(c.content) - Len(c.body))
  /\ c.lap = <<>> \/ ~IsHeading(c.body[1]) => Ends(c.content, c.body)
  /\ Packed /\ c.lap # <<>> => i > 1 /\ LapInPlace(list[i - 1], c)

SplitInv == /\ \A i \in DOMAIN work : CallOK(work[i])
            /\ Apart(work) /\ \A i \in DOMAIN chunks : Behind(chunks[i].body, work)
            /\ \A i \in DOMAIN chunks : FreshOK(chunks[i])
            /\ \A k \in DOMAIN text : IsBlank(k) \/ InSome(k) \/ Promised(k) \/ Left(k)
ChunksInv == /\ \A i \in DOMAIN chunks : SizeOK(chunks[i].body)
             /\ InOrder
StageInv == /\ stage \in {"start", "refused"} => work = <<>> /\ chunks = <<>>
            /\ stage = "split" => SplitInv
            /\ stage \in {"overlap", "done"} =>
                 \A k \in DOMAIN text : IsBlank(k) \/ InSome(k) \/ Left(k)
            /\ stage \in {"overlap", "done"} =>
                 /\ work = <<>> /\ at > 1 /\ \A i \in DOMAIN chunks : MarkOK(chunks, i)
                 /\ stage = "overlap" => \A i \in DOMAIN chunks : i >= at => chunks[i].lap = <<>>
IInv == TypeOK /\ StageInv /\ ChunksInv
-----------------------------------------------------------------------------------
(* A text is a sequence of runes, and its headings are lines of their own.         *)
LEMMA TextType ==
  ASSUME text \in Texts
  PROVE  /\ Len(text) \in Nat /\ DOMAIN text = 1 .. Len(text) /\ TextEnd \in Nat \ {0}
         /\ \A k \in DOMAIN text : text[k] \in Runes
         /\ \A k \in Headings : /\ k \in 1 .. Len(text) /\ ~IsBlank(k) /\ Level[text[k]] \in 1..6
                                /\ k + 1 <= Len(text) => IsBlank(k + 1)
                                /\ k + 1 \notin Headings
<1>1. text \in Seq(Runes)
  BY ChunkAssumption
<1>2. /\ Len(text) \in Nat /\ DOMAIN text = 1 .. Len(text)
      /\ \A k \in DOMAIN text : text[k] \in Runes
  BY <1>1
<1>3. SUFFICES ASSUME NEW k \in Headings
               PROVE  /\ k \in 1 .. Len(text) /\ ~IsBlank(k) /\ Level[text[k]] \in 1..6
                      /\ k + 1 <= Len(text) => IsBlank(k + 1)
                      /\ k + 1 \notin Headings
  BY <1>2 DEF TextEnd
<1>4. /\ k \in DOMAIN text /\ text[k] \in DOMAIN Level /\ k # Added
      /\ (k = 1 \/ text[k - 1] = "newline") /\ (k = Len(text) \/ text[k + 1] = "newline")
  BY ChunkAssumption DEF Headings, IsHeading
<1>5. text[k] # "newline" /\ Level[text[k]] \in 1..6
  BY <1>4 DEF Level
<1>6. k + 1 <= Len(text) => text[k + 1] = "newline"
  BY <1>2, <1>4
<1>7. k + 1 \notin Headings
  <2> SUFFICES ASSUME k + 1 \in Headings PROVE FALSE
    OBVIOUS
  <2>1. k + 1 \in DOMAIN text /\ text[k + 1] \in DOMAIN Level
    BY DEF Headings, IsHeading
  <2> QED
    BY <1>2, <1>6, <2>1 DEF Level
<1> QED
  BY <1>2, <1>4, <1>5, <1>6, <1>7 DEF IsBlank

(* A stretch of the text is a sequence of its places in order.                     *)
LEMMA PlacesType ==
  ASSUME text \in Texts, NEW from, NEW end, Stretch(from, end)
  PROVE  /\ from \in Nat /\ end \in Nat /\ 1 <= from /\ from <= end /\ end <= TextEnd
         /\ Places(from, end) \in Path /\ Len(Places(from, end)) = end - from
         /\ DOMAIN Places(from, end) = 1 .. end - from
         /\ \A i \in 1 .. end - from : Places(from, end)[i] = from + i - 1
         /\ Reals(Places(from, end)) = from .. end - 1
         /\ Increasing(Places(from, end))
<1>1. Len(text) \in Nat /\ DOMAIN text = 1 .. Len(text) /\ TextEnd = Len(text) + 1
  BY TextType DEF TextEnd
<1>2. from \in 1 .. TextEnd /\ end \in from .. TextEnd /\ end - from \in Nat
  BY <1>1 DEF Stretch
<1> DEFINE n == end - from
<1>3. /\ DOMAIN Places(from, end) = 1 .. n
      /\ \A i \in 1 .. n : Places(from, end)[i] = from + i - 1 /\ from + i - 1 \in 1 .. Len(text)
  BY <1>1, <1>2 DEF Places
<1>4. Places(from, end) \in Path /\ Len(Places(from, end)) = n
  <2>1. Places(from, end) \in [1 .. n -> Place]
    BY <1>1, <1>2 DEF Places, Place
  <2> HIDE DEF n
  <2> QED
    BY <1>2, <2>1 DEF Path, n
<1>5. Reals(Places(from, end)) = from .. end - 1
  <2>1. ASSUME NEW k \in from .. end - 1 PROVE k \in Reals(Places(from, end))
    <3>1. k - from + 1 \in 1 .. n /\ Places(from, end)[k - from + 1] = k /\ k \in DOMAIN text
      BY <1>1, <1>2, <1>3
    <3> QED
      BY <1>3, <3>1 DEF Reals
  <2>2. ASSUME NEW k \in Reals(Places(from, end)) PROVE k \in from .. end - 1
    BY <1>1, <1>2, <1>3 DEF Reals
  <2> QED
    BY <2>1, <2>2
<1>6. Increasing(Places(from, end))
  BY <1>2, <1>3 DEF Increasing
<1> QED
  BY <1>1, <1>2, <1>3, <1>4, <1>5, <1>6

(* How many tokens are counted grows with the places looked at, by one at most.    *)
LEMMA CountedType ==
  ASSUME NEW body, NEW i \in Nat
  PROVE  Counted(body, i) \in Nat /\ Counted(body, i) <= i
<1> DEFINE S == {k \in 1..i : Counts(body, k)}
<1>1. IsFiniteSet(1..i) /\ Cardinality(1..i) = i
  BY FS_Interval
<1>2. S \subseteq 1..i
  OBVIOUS
<1> HIDE DEF S
<1>3. IsFiniteSet(S) /\ Cardinality(S) <= i
  BY <1>1, <1>2, FS_Subset
<1>4. Cardinality(S) \in Nat
  BY <1>3, FS_CardinalityType
<1> QED
  BY <1>3, <1>4 DEF S, Counted

(* One place more counts at most one token more.                                   *)
LEMMA CountedStep ==
  ASSUME NEW body, NEW i \in Nat, NEW j \in Nat, j <= i
  PROVE  Counted(body, i) <= Counted(body, j) + (i - j)
<1> DEFINE S(n) == {k \in 1..n : Counts(body, k)}
<1>1. S(i) \subseteq S(j) \cup (j + 1 .. i)
  OBVIOUS
<1>2. IsFiniteSet(S(j)) /\ Cardinality(S(j)) \in Nat
  <2>1. S(j) \subseteq 1..j /\ IsFiniteSet(1..j)
    BY FS_Interval
  <2> HIDE DEF S
  <2> QED
    BY <2>1, FS_Subset, FS_CardinalityType
<1>3. IsFiniteSet(j + 1 .. i) /\ Cardinality(j + 1 .. i) = i - j
  <2>1. j + 1 \in Int /\ i \in Int
    OBVIOUS
  <2>2. /\ IsFiniteSet(j + 1 .. i)
        /\ Cardinality(j + 1 .. i) = IF j + 1 > i THEN 0 ELSE i - (j + 1) + 1
    BY ONLY <2>1, FS_Interval, Zenon
  <2> QED
    BY <2>2
<1>4. /\ IsFiniteSet(S(j) \cup (j + 1 .. i))
      /\ Cardinality(S(j) \cup (j + 1 .. i)) \in Nat
      /\ Cardinality(S(j) \cup (j + 1 .. i)) <= Cardinality(S(j)) + (i - j)
  <2> HIDE DEF S
  <2>1. /\ IsFiniteSet(S(j) \cup (j + 1 .. i)) /\ IsFiniteSet(S(j) \cap (j + 1 .. i))
        /\ Cardinality(S(j) \cup (j + 1 .. i))
             = Cardinality(S(j)) + Cardinality(j + 1 .. i) - Cardinality(S(j) \cap (j + 1 .. i))
    BY <1>2, <1>3, FS_Union, FS_Intersection
  <2>2. Cardinality(S(j) \cap (j + 1 .. i)) \in Nat /\ Cardinality(S(j) \cup (j + 1 .. i)) \in Nat
    BY <2>1, FS_CardinalityType
  <2> QED
    BY <1>2, <1>3, <2>1, <2>2
<1>5. IsFiniteSet(S(i)) /\ Cardinality(S(i)) <= Cardinality(S(j) \cup (j + 1 .. i)) /\ Cardinality(S(i)) \in Nat
  <2> HIDE DEF S
  <2> QED
    BY <1>1, <1>4, FS_Subset, FS_CardinalityType
<1> HIDE DEF S
<1>6. Counted(body, i) = Cardinality(S(i)) /\ Counted(body, j) = Cardinality(S(j))
  BY DEF Counted, S
<1> QED
  BY <1>2, <1>4, <1>5, <1>6

(* An estimate is a number, and it is what was counted unless that was nothing.    *)
LEMMA TokensType ==
  ASSUME NEW body, Len(body) \in Nat
  PROVE  /\ Tokens(body) \in Nat /\ Tokens(body) >= 1
         /\ Counted(body, Len(body)) \in Nat
         /\ Tokens(body) <= 1 \/ Tokens(body) = Counted(body, Len(body))
<1>1. Counted(body, Len(body)) \in Nat
  BY CountedType
<1> QED
  BY <1>1 DEF Tokens, AtLeast1

(* The tokens of the front of a stretch are those counted up to there.             *)
LEMMA PrefixCounted ==
  ASSUME text \in Texts, NEW from, NEW end, Stretch(from, end), NEW mid \in from .. end
  PROVE  Counted(Places(from, mid), mid - from) = Counted(Places(from, end), mid - from)
<1>1. Stretch(from, mid)
  BY TextType DEF Stretch, TextEnd
<1>2. /\ from \in Nat /\ end \in Nat /\ mid \in Nat /\ from <= mid /\ mid <= end
      /\ \A i \in 1 .. end - from : Places(from, end)[i] = from + i - 1
      /\ \A i \in 1 .. mid - from : Places(from, mid)[i] = from + i - 1
  BY <1>1, PlacesType
<1>3. \A i \in 1 .. mid - from : Places(from, mid)[i] = Places(from, end)[i]
  BY <1>2
<1>4. ASSUME NEW k \in 1 .. mid - from
      PROVE  Counts(Places(from, mid), k) <=> Counts(Places(from, end), k)
  <2>1. k = 1 \/ k - 1 \in 1 .. mid - from
    BY <1>2
  <2> HIDE DEF Places
  <2> QED
    BY <1>3, <2>1 DEF Counts
<1>5. {k \in 1 .. mid - from : Counts(Places(from, mid), k)}
        = {k \in 1 .. mid - from : Counts(Places(from, end), k)}
  BY <1>4
<1> QED
  BY <1>5 DEF Counted

(* A cut between characters takes at least one and at most twice the tokens asked  *)
(* for, whether or not there is a stop behind it.                                  *)
LEMMA CutEndType ==
  ASSUME text \in Texts, NEW from, NEW end, Stretch(from, end), from < end
  PROVE  LET cut == from + CutEnd(Places(from, end)) IN
         /\ CutEnd(Places(from, end)) \in Nat /\ from < cut /\ cut <= end
         /\ Tokens(Places(from, cut)) <= 2 * CutTokens
<1> DEFINE body == Places(from, end)
           n == end - from
           T == CutTokens
           U == {n} \cup {i \in 1 .. n : Counted(body, i) >= T}
           stops == {i \in Min(U) + 1 .. Min(U) + T : i <= n /\ text[body[i]] = "stop"}
<1>1. from \in Nat /\ end \in Nat /\ n \in Nat \ {0} /\ Len(body) = n /\ DOMAIN body = 1 .. n
  BY PlacesType
<1>2. T \in Nat \ {0}
  BY ChunkAssumption DEF CutTokens
<1> HIDE DEF body, n, T
<1>3. Min(U) \in U /\ Min(U) \in 1 .. n /\ \A j \in U : Min(U) <= j
  <2>1. U \subseteq Nat /\ U # {}
    BY <1>1
  <2> QED
    BY <1>1, <2>1, LeastOf
<1>4. Counted(body, Min(U)) <= T /\ Counted(body, Min(U)) \in Nat
  <2>1. Min(U) - 1 \in Nat /\ Counted(body, Min(U)) <= Counted(body, Min(U) - 1) + (Min(U) - (Min(U) - 1))
    BY <1>1, <1>3, CountedStep
  <2>2. /\ Counted(body, Min(U)) \in Nat /\ Counted(body, Min(U) - 1) \in Nat
        /\ Counted(body, Min(U) - 1) <= Min(U) - 1
    BY <1>1, <1>3, <2>1, CountedType
  <2>3. Counted(body, Min(U) - 1) < T
    <3>1. CASE Min(U) = 1
      BY <1>2, <2>2, <3>1
    <3>2. CASE Min(U) # 1
      <4>1. Min(U) - 1 \in 1 .. n /\ Min(U) - 1 \notin U
        BY <1>1, <1>3, <3>2
      <4> QED
        BY <1>2, <2>2, <4>1
    <3> QED
      BY <3>1, <3>2
  <2> QED
    BY <1>2, <1>3, <2>1, <2>2, <2>3
<1>5. CutEnd(body) = IF stops = {} THEN Min(U) ELSE Min(stops)
  BY <1>1 DEF CutEnd, T
<1>6. CutEnd(body) \in 1 .. n /\ CutEnd(body) \in Min(U) .. Min(U) + T
  <2> HIDE DEF U
  <2>1. CASE stops = {}
    BY <1>1, <1>2, <1>3, <1>5, <2>1
  <2>2. CASE stops # {}
    <3>1. stops \subseteq Nat
      BY <1>1, <1>2, <1>3
    <3>2. Min(stops) \in stops
      BY <2>2, <3>1, LeastOf
    <3> QED
      BY <1>1, <1>2, <1>3, <1>5, <2>2, <3>2
  <2> QED
    BY <2>1, <2>2
<1>7. Counted(body, CutEnd(body)) <= 2 * T /\ Counted(body, CutEnd(body)) \in Nat
  <2>1. /\ CutEnd(body) \in Nat /\ Min(U) \in Nat /\ Min(U) <= CutEnd(body) /\ CutEnd(body) - Min(U) <= T
    BY <1>1, <1>2, <1>3, <1>6
  <2>2. Counted(body, CutEnd(body)) <= Counted(body, Min(U)) + (CutEnd(body) - Min(U))
    BY <2>1, CountedStep
  <2>3. Counted(body, CutEnd(body)) \in Nat
    BY <2>1, CountedType
  <2> QED
    BY <1>2, <1>4, <2>1, <2>2, <2>3
<1> DEFINE mid == from + CutEnd(body)
<1>8. mid \in from .. end /\ from < mid /\ mid - from = CutEnd(body) /\ CutEnd(body) \in Nat
  BY <1>1, <1>6 DEF n
<1>9. Counted(Places(from, mid), mid - from) <= 2 * T
  <2>1. Counted(Places(from, mid), mid - from) = Counted(body, mid - from)
    BY <1>8, PrefixCounted DEF body
  <2> QED
    BY <1>7, <1>8, <2>1
<1>10. Len(Places(from, mid)) = mid - from
  <2>1. Stretch(from, mid)
    BY <1>8, TextType DEF Stretch, TextEnd
  <2> QED
    BY <2>1, PlacesType
<1>11. Tokens(Places(from, mid)) <= 2 * T
  BY <1>2, <1>8, <1>9, <1>10, TokensType
<1> QED
  BY <1>1, <1>8, <1>11 DEF body, T
-----------------------------------------------------------------------------------
(* Where sections begin and end, and what lies in between.                         *)
LEMMA SectionType ==
  ASSUME text \in Texts, NEW n \in Headings
  PROVE  /\ n \in 1 .. Len(text) /\ ContentStart(n) \in n + 1 .. TextEnd /\ ContentStart(n) <= n + 2
         /\ ContentStart(n) \in {n + 2, TextEnd}
         /\ \A k \in n + 1 .. ContentStart(n) - 1 : IsBlank(k)
         /\ ContentStart(n) <= ContentEnd(n) /\ ContentEnd(n) <= TextEnd /\ ContentEnd(n) \in Nat
         /\ ContentEnd(n) = TextEnd \/ (ContentEnd(n) \in Headings /\ LevelOf(ContentEnd(n)) <= LevelOf(n))
         /\ \A k \in Headings : k > n /\ LevelOf(k) <= LevelOf(n) => ContentEnd(n) <= k
         /\ LevelOf(n) \in 1..6
<1>1. /\ n \in 1 .. Len(text)
      /\ n + 1 <= Len(text) => IsBlank(n + 1)
      /\ n + 1 \notin Headings /\ Len(text) \in Nat /\ TextEnd = Len(text) + 1 /\ n # Root
  BY TextType DEF TextEnd, Root
<1>2. LevelOf(n) \in 1..6
  BY <1>1, TextType DEF LevelOf
<1> DEFINE S == {n + 2, TextEnd}
           E == {TextEnd} \cup {k \in Headings : k > n /\ LevelOf(k) <= LevelOf(n)}
<1>3. /\ ContentStart(n) = Min(S) /\ ContentEnd(n) = Min(E)
  BY <1>1 DEF ContentStart, ContentEnd
<1>4. Headings \subseteq 1 .. Len(text)
  BY TextType
<1>5. S \subseteq Nat /\ E \subseteq Nat /\ S # {} /\ E # {}
  <2>1. n + 2 \in Nat /\ TextEnd \in Nat
    BY <1>1
  <2>2. E \subseteq {TextEnd} \cup Headings
    OBVIOUS
  <2>3. Headings \subseteq Nat
    BY <1>1, <1>4
  <2> QED
    BY <2>1, <2>2, <2>3
<1>6. Min(S) \in {n + 2, TextEnd} /\ Min(S) <= n + 2 /\ Min(S) <= TextEnd
  <2>1. Min(S) \in S /\ \A j \in S : Min(S) <= j
    BY <1>5, LeastOf
  <2> QED
    BY <2>1
<1>7. Min(E) \in E /\ \A j \in E : Min(E) <= j
  BY <1>5, LeastOf
<1>8. /\ ContentStart(n) \in n + 1 .. TextEnd /\ ContentStart(n) <= n + 2
      /\ ContentEnd(n) <= TextEnd /\ ContentEnd(n) \in Nat
  <2>1. ContentStart(n) \in n + 1 .. TextEnd /\ ContentStart(n) <= n + 2
    BY <1>1, <1>3, <1>6
  <2>2. ContentEnd(n) <= TextEnd /\ ContentEnd(n) \in Nat
    BY <1>3, <1>5, <1>7
  <2> QED
    BY <2>1, <2>2
<1>9. ContentStart(n) <= ContentEnd(n)
  <2>1. ContentEnd(n) = TextEnd \/ (ContentEnd(n) \in Headings /\ ContentEnd(n) > n)
    BY <1>3, <1>7
  <2> QED
    BY <1>1, <1>4, <1>8, <2>1
<1>10. \A k \in n + 1 .. ContentStart(n) - 1 : IsBlank(k)
  <2> SUFFICES ASSUME NEW k \in n + 1 .. ContentStart(n) - 1 PROVE IsBlank(k)
    OBVIOUS
  <2>1. k = n + 1 /\ n + 1 <= Len(text)
    BY <1>1, <1>8
  <2> QED
    BY <1>1, <2>1
<1> HIDE DEF S
<1> QED
  BY <1>1, <1>2, <1>3, <1>6, <1>7, <1>8, <1>9, <1>10

(* The node around all headings: the whole text, on a level above each of them.    *)
LEMMA RootType ==
  ASSUME text \in Texts, Headings # {}
  PROVE  /\ ContentStart(Root) = 1 /\ ContentEnd(Root) = TextEnd /\ LevelOf(Root) \in Int
         /\ \A k \in Headings : LevelOf(Root) < LevelOf(k) /\ LevelOf(k) \in 1..6
<1> DEFINE S == {Level[text[k]] : k \in Headings}
<1>1. \A k \in Headings : Level[text[k]] \in 1..6 /\ k # Root
  BY TextType DEF Root
<1>2. S \subseteq Nat /\ S # {}
  <2> HIDE DEF Headings
  <2> QED
    BY <1>1
<1>3. Min(S) \in S /\ Min(S) \in Nat /\ \A j \in S : Min(S) <= j
  BY <1>2, LeastOf
<1>4. LevelOf(Root) = Min(S) - 1 /\ \A k \in Headings : LevelOf(k) = Level[text[k]] /\ LevelOf(k) \in S
  BY <1>1 DEF LevelOf
<1>5. ContentEnd(Root) = TextEnd
  <2>1. ContentEnd(Root) = Min({TextEnd}) /\ TextEnd \in Nat
    BY TextType DEF ContentEnd
  <2>2. Min({TextEnd}) \in {TextEnd}
    BY <2>1, LeastOf
  <2> QED
    BY <2>1, <2>2
<1> HIDE DEF S
<1> QED
  BY <1>1, <1>3, <1>4, <1>5 DEF ContentStart

(* The section of a node, a heading or the root, is a stretch of the text.         *)
LEMMA NodeType ==
  ASSUME text \in Texts, Headings # {}, NEW n \in Nodes
  PROVE  /\ Stretch(ContentStart(n), ContentEnd(n)) /\ TextEnd \in Nat
         /\ ContentStart(n) \in Nat /\ ContentEnd(n) \in Nat /\ 1 <= ContentStart(n)
         /\ ContentStart(n) <= ContentEnd(n) /\ ContentEnd(n) <= TextEnd /\ LevelOf(n) \in Int
<1>1. TextEnd \in Nat \ {0}
  BY TextType
<1>2. CASE n = Root
  BY <1>1, <1>2, RootType DEF Stretch
<1>3. CASE n \in Headings
  BY <1>1, <1>3, SectionType DEF Stretch
<1> QED
  BY <1>2, <1>3 DEF Nodes

(* A direct child lies in the section of its parent, its own heading included.     *)
LEMMA ChildType ==
  ASSUME text \in Texts, Headings # {}, NEW n \in Nodes, NEW k \in DirectChildren(n)
  PROVE  /\ k \in Headings /\ k \in 1 .. Len(text) /\ LevelOf(k) = LevelOf(n) + 1
         /\ ContentStart(n) <= k /\ k < ContentStart(k) /\ ContentStart(k) <= ContentEnd(k)
         /\ ContentEnd(k) <= ContentEnd(n)
         /\ ContentStart(k) \in Nat /\ ContentEnd(k) \in Nat
         /\ n \in Headings => n < k
<1>1. /\ k \in Headings /\ LevelOf(k) = LevelOf(n) + 1
      /\ ContentStart(k) >= ContentStart(n) /\ ContentEnd(k) <= ContentEnd(n)
  BY DEF DirectChildren
<1>2. /\ k \in 1 .. Len(text) /\ ContentStart(k) \in k + 1 .. TextEnd /\ ContentStart(k) <= k + 2
      /\ ContentStart(k) <= ContentEnd(k) /\ ContentEnd(k) \in Nat /\ LevelOf(k) \in 1..6
  BY <1>1, SectionType
<1>3. Len(text) \in Nat /\ TextEnd \in Nat
  BY TextType
<1>4. CASE n = Root
  <2>1. ContentStart(n) = 1 /\ n \notin Headings
    BY <1>4, RootType, SectionType DEF Root
  <2> QED
    BY <1>1, <1>2, <1>3, <2>1
<1>5. CASE n \in Headings
  <2>1. /\ n \in 1 .. Len(text) /\ ContentStart(n) \in n + 1 .. TextEnd /\ ContentStart(n) <= n + 2
        /\ LevelOf(n) \in 1..6 /\ n + 1 \notin Headings /\ k + 1 \notin Headings
    BY <1>1, <1>5, SectionType, TextType
  <2>2. k # n
    BY <1>1, <2>1
  <2>3. ~(k < n)
    <3> SUFFICES ASSUME k < n PROVE FALSE
      OBVIOUS
    <3>1. n # k + 1
      BY <1>5, <2>1
    <3> QED
      BY <1>1, <1>2, <1>3, <2>1, <3>1
  <2>4. k # n + 1
    BY <1>1, <2>1
  <2>5. n + 2 <= k
    BY <1>2, <1>3, <2>1, <2>2, <2>3, <2>4
  <2> QED
    BY <1>1, <1>2, <1>3, <2>1, <2>5
<1> QED
  BY <1>4, <1>5 DEF Nodes

(* The section of a direct child goes right up to the next direct child.           *)
LEMMA NextChild ==
  ASSUME text \in Texts, Headings # {}, NEW n \in Nodes, NEW k \in DirectChildren(n),
         NEW m \in DirectChildren(n), k < m, \A j \in DirectChildren(n) : k < j => m <= j
  PROVE  ContentEnd(k) = m
<1>1. /\ k \in Headings /\ k \in 1 .. Len(text) /\ LevelOf(k) = LevelOf(n) + 1 /\ ContentEnd(k) <= ContentEnd(n)
      /\ n \in Headings => n < k
  BY ChildType
<1>2. /\ m \in Headings /\ m \in 1 .. Len(text) /\ LevelOf(m) = LevelOf(n) + 1
      /\ m < ContentEnd(m) /\ ContentEnd(m) <= ContentEnd(n) /\ ContentEnd(m) \in Nat
  <2>1. /\ m \in Headings /\ m \in 1 .. Len(text) /\ LevelOf(m) = LevelOf(n) + 1
        /\ m < ContentStart(m) /\ ContentStart(m) <= ContentEnd(m) /\ ContentStart(m) \in Nat
        /\ ContentEnd(m) <= ContentEnd(n) /\ ContentEnd(m) \in Nat
    BY ChildType
  <2> QED
    BY <2>1
<1>3. /\ Stretch(ContentStart(n), ContentEnd(n)) /\ LevelOf(n) \in Int /\ ContentStart(n) \in Nat
      /\ ContentEnd(n) \in Nat /\ ContentEnd(n) <= TextEnd /\ TextEnd = Len(text) + 1 /\ Len(text) \in Nat
  BY NodeType, TextType DEF TextEnd
<1> DEFINE h == ContentEnd(k)
<1>4. /\ h <= m /\ h \in Nat
      /\ h = TextEnd \/ (h \in Headings /\ LevelOf(h) <= LevelOf(k))
      /\ k < h
  <2>1. LevelOf(m) <= LevelOf(k) /\ LevelOf(k) \in Int
    BY <1>1, <1>2, <1>3
  <2>2. h <= m
    BY <1>1, <1>2, <2>1, SectionType
  <2>3. /\ h \in Nat /\ ContentStart(k) <= h /\ ContentStart(k) \in k + 1 .. TextEnd
        /\ h = TextEnd \/ (h \in Headings /\ LevelOf(h) <= LevelOf(k))
    BY <1>1, SectionType
  <2> QED
    BY <1>1, <1>3, <2>2, <2>3
<1> SUFFICES ASSUME h # m PROVE FALSE
  OBVIOUS
<1>5. h < m /\ h \in Headings /\ h < TextEnd
  BY <1>2, <1>3, <1>4
<1>6. LevelOf(h) = LevelOf(n) + 1 /\ ContentEnd(h) <= ContentEnd(n) /\ LevelOf(h) \in Int
  <2>1. CASE n = Root
    <3>1. LevelOf(n) < LevelOf(h) /\ LevelOf(h) \in 1..6 /\ ContentEnd(n) = TextEnd
      BY <1>5, <2>1, RootType
    <3>2. ContentEnd(h) <= TextEnd
      BY <1>5, SectionType
    <3> QED
      BY <1>1, <1>3, <1>4, <1>5, <3>1, <3>2
  <2>2. CASE n \in Headings
    <3>1. n < h /\ n \in 1 .. Len(text) /\ h < ContentEnd(n)
      <4>1. n \in 1 .. Len(text)
        BY <2>2, SectionType
      <4> HIDE DEF h
      <4> QED
        BY <1>1, <1>2, <1>3, <1>4, <1>5, <2>2, <4>1
    <3>2. LevelOf(h) \in 1..6 /\ LevelOf(n) \in 1..6
      BY <1>5, <2>2, SectionType
    <3>3. ~(LevelOf(h) <= LevelOf(n))
      BY <1>4, <1>5, <2>2, <3>1, SectionType
    <3>4. LevelOf(h) = LevelOf(n) + 1
      BY <1>1, <1>4, <1>5, <1>3, <3>2, <3>3
    <3>5. ContentEnd(h) <= TextEnd /\ ContentEnd(h) \in Nat
      BY <1>5, SectionType
    <3>6. CASE ContentEnd(n) = TextEnd
      BY <3>2, <3>4, <3>5, <3>6
    <3>7. CASE ContentEnd(n) \in Headings /\ LevelOf(ContentEnd(n)) <= LevelOf(n)
      <4>1. LevelOf(ContentEnd(n)) \in 1..6
        BY <3>7, SectionType
      <4>2. ContentEnd(n) > h /\ LevelOf(ContentEnd(n)) <= LevelOf(h)
        BY <1>3, <1>4, <3>1, <3>2, <3>4, <3>7, <4>1
      <4>3. ContentEnd(h) <= ContentEnd(n)
        BY <1>5, <3>7, <4>2, SectionType
      <4> QED
        BY <3>2, <3>4, <4>3
    <3> QED
      BY <2>2, <3>6, <3>7, SectionType
  <2> QED
    BY <2>1, <2>2 DEF Nodes
<1>7. ContentStart(h) >= ContentStart(n)
  <2>1. ContentStart(h) \in h + 1 .. TextEnd /\ h \in 1 .. Len(text)
    BY <1>5, SectionType
  <2>2. ContentStart(n) <= k
    BY ChildType
  <2> QED
    BY <1>1, <1>3, <1>4, <2>1, <2>2
<1>8. h \in DirectChildren(n)
  BY <1>5, <1>6, <1>7 DEF DirectChildren
<1> HIDE DEF h
<1> QED
  BY <1>2, <1>4, <1>5, <1>8
-----------------------------------------------------------------------------------
(* Nothing that is said of a call changes while the text stays.                    *)
LEMMA SameText ==
  ASSUME UNCHANGED text
  PROVE  /\ \A k : IsBlank(k)' <=> IsBlank(k)
         /\ Headings' = Headings /\ TextEnd' = TextEnd /\ Path' = Path /\ Trail' = Trail /\ Nodes' = Nodes
         /\ \A a, b : Blanks(a, b)' <=> Blanks(a, b)
         /\ \A body : Tokens(body)' = Tokens(body)
         /\ \A body : OneParagraph(body)' <=> OneParagraph(body)
<1>1. \A k : IsBlank(k)' <=> IsBlank(k)
  BY DEF IsBlank
<1>2. Headings' = Headings /\ TextEnd' = TextEnd /\ Path' = Path
  BY DEF Headings, IsHeading, TextEnd, Path, Place
<1>3. Nodes' = Nodes /\ Trail' = Trail
  BY <1>2 DEF Nodes, Trail
<1>4. \A a, b : Blanks(a, b)' <=> Blanks(a, b)
  BY <1>1 DEF Blanks
<1>5. \A body : Tokens(body)' = Tokens(body)
  <2>1. \A body, i : Counts(body, i)' <=> Counts(body, i)
    BY <1>1 DEF Counts
  <2>2. \A body, i : Counted(body, i)' = Counted(body, i)
    <3> SUFFICES ASSUME NEW body, NEW i PROVE Counted(body, i)' = Counted(body, i)
      OBVIOUS
    <3>1. {k \in 1..i : Counts(body, k)}' = {k \in 1..i : Counts(body, k)}
      BY <2>1
    <3> QED
      BY <3>1 DEF Counted
  <2> QED
    BY <2>2 DEF Tokens
<1>6. \A body : OneParagraph(body)' <=> OneParagraph(body)
  BY <1>1 DEF OneParagraph
<1> QED
  BY <1>1, <1>2, <1>3, <1>4, <1>5, <1>6

(* Neither do the sections;                                                        *)
LEMMA SameSections ==
  ASSUME UNCHANGED text
  PROVE  /\ \A n : ContentStart(n)' = ContentStart(n) /\ ContentEnd(n)' = ContentEnd(n)
         /\ \A n : DirectChildren(n)' = DirectChildren(n)
         /\ \A k : Dropped(k)' <=> Dropped(k)
<1>1. \A n : LevelOf(n)' = LevelOf(n)
  BY SameText DEF LevelOf
<1>2. \A n : ContentStart(n)' = ContentStart(n)
  BY SameText DEF ContentStart
<1>3. \A n : ContentEnd(n)' = ContentEnd(n)
  <2> SUFFICES ASSUME NEW n PROVE ContentEnd(n)' = ContentEnd(n)
    OBVIOUS
  <2>1. {k \in Headings : k > n /\ LevelOf(k) <= LevelOf(n)}' = {k \in Headings : k > n /\ LevelOf(k) <= LevelOf(n)}
    BY <1>1, SameText
  <2> QED
    BY <2>1, SameText DEF ContentEnd
<1>4. \A n : DirectChildren(n)' = DirectChildren(n)
  BY <1>1, <1>2, <1>3, SameText DEF DirectChildren
<1>5. \A k : Dropped(k)' <=> Dropped(k)
  BY <1>2, <1>3, SameText DEF Dropped, IsHeading
<1> QED
  BY <1>2, <1>3, <1>4, <1>5

(* nor the contracts of stretches, parts and bodies;                               *)
LEMMA SamePlaces ==
  ASSUME UNCHANGED <<text, strategy>>
  PROVE  /\ Packed' <=> Packed
         /\ \A a, b : (Stretch(a, b)' <=> Stretch(a, b)) /\ (StartsSolid(a, b)' <=> StartsSolid(a, b))
         /\ \A parts, width : PartsOK(parts, width)' <=> PartsOK(parts, width)
         /\ \A body : (SizeOK(body)' <=> SizeOK(body)) /\ Reals(body)' = Reals(body)
         /\ \A body, start : PlaceOK(body, start)' <=> PlaceOK(body, start)
         /\ \A c : FreshOK(c)' <=> FreshOK(c)
         /\ \A list, i : MarkOK(list, i)' <=> MarkOK(list, i)
         /\ \A k : Left(k)' <=> Left(k)
         /\ Call' = Call /\ Chunks' = Chunks
<1>1. Packed' <=> Packed
  BY SameText DEF Packed, IsHeading
<1>2. \A a, b : (Stretch(a, b)' <=> Stretch(a, b)) /\ (StartsSolid(a, b)' <=> StartsSolid(a, b))
  BY SameText DEF Stretch, StartsSolid
<1>3. \A parts, width : PartsOK(parts, width)' <=> PartsOK(parts, width)
  BY <1>2, SameText DEF PartsOK
<1>4. \A body : (SizeOK(body)' <=> SizeOK(body)) /\ Reals(body)' = Reals(body)
  BY SameText DEF SizeOK, Reals
<1>5. \A body, start : PlaceOK(body, start)' <=> PlaceOK(body, start)
  BY <1>1 DEF PlaceOK
<1>6. \A k : Left(k)' <=> Left(k)
  BY SameText, SameSections DEF Left
<1>7. Call' = Call /\ Chunks' = Chunks
  BY SameText DEF Call, Chunks
<1>8. \A c : FreshOK(c)' <=> FreshOK(c)
  BY <1>5 DEF FreshOK
<1>9. \A list, i : MarkOK(list, i)' <=> MarkOK(list, i)
  <2>1. (\A k : IsHeading(k)' <=> IsHeading(k)) /\ \A c, d : LapInPlace(c, d)' <=> LapInPlace(c, d)
    BY DEF IsHeading, LapInPlace
  <2> SUFFICES ASSUME NEW list, NEW i PROVE MarkOK(list, i)' <=> MarkOK(list, i)
    OBVIOUS
  <2> DEFINE c == list[i]
             place == c.end - Len(c.body)
             first == c.body[1]
  <2>2. /\ PlaceOK(c.body, place)' <=> PlaceOK(c.body, place)
        /\ IsHeading(first)' <=> IsHeading(first)
        /\ LapInPlace(list[i - 1], c)' <=> LapInPlace(list[i - 1], c)
    BY <1>5, <2>1
  <2> QED
    BY <1>1, <2>2, Zenon DEF MarkOK
<1> QED
  BY <1>1, <1>2, <1>3, <1>4, <1>5, <1>6, <1>7, <1>8, <1>9

(* nor those of the calls, and what they hold and owe.                             *)
LEMMA SameCalls ==
  ASSUME UNCHANGED <<text, strategy>>
  PROVE  /\ \A f : CallOK(f)' <=> CallOK(f)
         /\ \A f : Held(f)' = Held(f) /\ Owes(f)' = Owes(f)
<1>1. \A f : BodyOK(f)' <=> BodyOK(f)
  BY SamePlaces DEF BodyOK
<1>2. \A f : CutsOK(f)' <=> CutsOK(f)
  BY SamePlaces, SameText DEF CutsOK
<1>3. \A f : ScanOK(f)' <=> ScanOK(f)
  BY <1>1, SamePlaces, SameText DEF ScanOK, Adjacent
<1>4. \A f : GatherOK(f)' <=> GatherOK(f)
  BY SamePlaces, SameText DEF GatherOK, Adjacent, Increasing
<1>5. \A f : SemanticOK(f)' <=> SemanticOK(f)
  BY SamePlaces DEF SemanticOK
<1>6. \A f : SentencesOK(f)' <=> SentencesOK(f)
  BY <1>5, SamePlaces, SameText DEF SentencesOK
<1>7. \A f : GroupsOK(f)' <=> GroupsOK(f)
  BY SamePlaces, SameText DEF GroupsOK
<1>8. \A f : CallOK(f)' <=> CallOK(f)
  BY <1>1, <1>2, <1>3, <1>4, <1>5, <1>6, <1>7, SameText, SameSections DEF CallOK
<1>9. \A f : Held(f)' = Held(f)
  BY SameSections DEF Held
<1>10. \A f : Owes(f)' = Owes(f)
  BY SameText, SamePlaces DEF Owes, Emits
<1> QED
  BY <1>8, <1>9, <1>10
-----------------------------------------------------------------------------------
(* The calls in front of the list replace its first one.                           *)
LEMMA Replacing ==
  ASSUME NEW S, NEW w \in Seq(S), w # <<>>, NEW calls \in Seq(S), NEW v, v = calls \o Tail(w)
  PROVE  /\ v \in Seq(S) /\ Len(calls) \in Nat /\ Len(w) \in Nat \ {0}
         /\ DOMAIN v = 1 .. Len(v) /\ Len(v) = Len(calls) + Len(w) - 1
         /\ DOMAIN calls = 1 .. Len(calls) /\ DOMAIN w = 1 .. Len(w)
         /\ \A i \in DOMAIN calls : i \in DOMAIN v /\ v[i] = calls[i]
         /\ \A i \in DOMAIN v : i > Len(calls) =>
              i - Len(calls) + 1 \in 2 .. Len(w) /\ v[i] = w[i - Len(calls) + 1]
         /\ \A j \in 2 .. Len(w) : Len(calls) + j - 1 \in DOMAIN v /\ v[Len(calls) + j - 1] = w[j]
<1>1. /\ Len(calls) \in Nat /\ Len(w) \in Nat \ {0} /\ Tail(w) \in Seq(S) /\ Len(Tail(w)) = Len(w) - 1
      /\ \A i \in 1 .. Len(w) - 1 : Tail(w)[i] = w[i + 1]
      /\ DOMAIN calls = 1 .. Len(calls) /\ DOMAIN w = 1 .. Len(w)
  BY HeadTailProperties, LenProperties, EmptySeq
<1>2. /\ v \in Seq(S) /\ Len(v) = Len(calls) + Len(w) - 1
      /\ \A i \in 1 .. Len(calls) + Len(w) - 1 :
           v[i] = IF i <= Len(calls) THEN calls[i] ELSE Tail(w)[i - Len(calls)]
  BY <1>1, ConcatProperties
<1>3. DOMAIN v = 1 .. Len(calls) + Len(w) - 1
  BY <1>1, <1>2, LenProperties
<1>4. \A i \in DOMAIN calls : i \in DOMAIN v /\ v[i] = calls[i]
  BY <1>1, <1>2, <1>3
<1>5. \A i \in DOMAIN v : i > Len(calls) =>
        i - Len(calls) + 1 \in 2 .. Len(w) /\ v[i] = w[i - Len(calls) + 1]
  <2> SUFFICES ASSUME NEW i \in DOMAIN v, i > Len(calls)
               PROVE  i - Len(calls) + 1 \in 2 .. Len(w) /\ v[i] = w[i - Len(calls) + 1]
    OBVIOUS
  <2>1. /\ i \in 1 .. Len(calls) + Len(w) - 1 /\ ~(i <= Len(calls))
        /\ i - Len(calls) \in 1 .. Len(w) - 1
    BY <1>1, <1>3
  <2>2. v[i] = Tail(w)[i - Len(calls)]
    BY <1>2, <2>1
  <2> QED
    BY <1>1, <2>1, <2>2
<1>6. \A j \in 2 .. Len(w) : Len(calls) + j - 1 \in DOMAIN v /\ v[Len(calls) + j - 1] = w[j]
  <2> SUFFICES ASSUME NEW j \in 2 .. Len(w)
               PROVE  Len(calls) + j - 1 \in DOMAIN v /\ v[Len(calls) + j - 1] = w[j]
    OBVIOUS
  <2>1. /\ Len(calls) + j - 1 \in DOMAIN v /\ Len(calls) + j - 1 > Len(calls)
        /\ (Len(calls) + j - 1) - Len(calls) + 1 = j
    BY <1>1, <1>3
  <2> QED
    BY <1>5, <2>1
<1> QED
  BY <1>1, <1>2, <1>3, <1>4, <1>5, <1>6

(* What a step does with the call in front: other calls take over what it held and *)
(* owed, and what is written of it is a good chunk in front of all that is left.   *)
Written(new, k) == \E c \in new : \E a \in DOMAIN c.content : c.content[a] = k
TakenOver(calls, k) == \E i \in DOMAIN calls : k \in Held(calls[i]) \cup Owes(calls[i])
GoodChunk(c, f, calls) ==
  /\ c \in Chunks /\ FreshOK(c) /\ SizeOK(c.body) /\ Increasing(c.body)
  /\ Reals(c.body) \subseteq Held(f) /\ Behind(c.body, calls)
Step(f, calls, new) ==
  /\ calls \in Seq(Call)
  /\ \A i \in DOMAIN calls : CallOK(calls[i]) /\ Held(calls[i]) \subseteq Held(f)
  /\ Apart(calls)
  /\ \A c \in new : GoodChunk(c, f, calls)
  /\ \A k \in DOMAIN text : k \in Held(f) \cup Owes(f) =>
       IsBlank(k) \/ Written(new, k) \/ TakenOver(calls, k) \/ Left(k)
StepOf(f, calls, new) ==
  /\ Step(f, calls, new) /\ work' = calls \o Tail(work) /\ UNCHANGED <<text, strategy, stage, at>>
  /\ \/ new = {} /\ UNCHANGED chunks
     \/ \E c : new = {c} /\ chunks' = Append(chunks, c)

(* The new list of calls keeps what SplitInv says of the old one.                  *)
LEMMA StepCalls ==
  ASSUME TypeOK, SplitInv, work # <<>>, NEW calls, NEW new, StepOf(Head(work), calls, new)
  PROVE  /\ work' \in Seq(Call)
         /\ \A i \in DOMAIN work' : CallOK(work'[i])
         /\ Apart(work')
         /\ \A body : Behind(body, work) => Behind(body, work')
         /\ \A c \in new : Behind(c.body, work')
<1>1. /\ work \in Seq(Call) /\ calls \in Seq(Call) /\ work' = calls \o Tail(work)
      /\ \A i \in DOMAIN calls : CallOK(calls[i]) /\ Held(calls[i]) \subseteq Held(Head(work))
      /\ Apart(calls) /\ Apart(work) /\ \A i \in DOMAIN work : CallOK(work[i])
  BY DEF TypeOK, SplitInv, StepOf, Step
<1> DEFINE v == calls \o Tail(work)
<1> HIDE DEF Call
<1>2. /\ v \in Seq(Call) /\ Len(calls) \in Nat /\ Len(work) \in Nat \ {0}
      /\ DOMAIN v = 1 .. Len(v) /\ Len(v) = Len(calls) + Len(work) - 1
      /\ DOMAIN calls = 1 .. Len(calls) /\ DOMAIN work = 1 .. Len(work)
      /\ \A i \in DOMAIN calls : i \in DOMAIN v /\ v[i] = calls[i]
      /\ \A i \in DOMAIN v : i > Len(calls) =>
           i - Len(calls) + 1 \in 2 .. Len(work) /\ v[i] = work[i - Len(calls) + 1]
  BY <1>1, Replacing
<1>3. Head(work) = work[1] /\ 1 \in DOMAIN work
  BY <1>1, <1>2, HeadTailProperties
<1> HIDE DEF v
<1>4. \A i \in DOMAIN v : i \in DOMAIN calls \/ i > Len(calls)
  BY <1>2
<1>5. \A i \in DOMAIN v : CallOK(v[i])
  <2> SUFFICES ASSUME NEW i \in DOMAIN v PROVE CallOK(v[i])
    OBVIOUS
  <2>1. CASE i \in DOMAIN calls
    BY <1>1, <1>2, <2>1
  <2>2. CASE i > Len(calls)
    <3>1. i - Len(calls) + 1 \in DOMAIN work /\ v[i] = work[i - Len(calls) + 1]
      BY <1>2, <2>2
    <3> QED
      BY <1>1, <3>1
  <2> QED
    BY <1>4, <2>1, <2>2
<1>6. Apart(v)
  <2> SUFFICES ASSUME NEW i \in DOMAIN v, NEW j \in DOMAIN v, i < j, NEW p \in Held(v[i]), NEW q \in Held(v[j])
               PROVE  p < q
    BY DEF Apart
  <2>1. CASE j \in DOMAIN calls
    <3>1. i \in DOMAIN calls
      BY <1>2, <2>1
    <3> QED
      BY <1>1, <1>2, <2>1, <3>1 DEF Apart
  <2>2. CASE j > Len(calls)
    <3>1. j - Len(calls) + 1 \in 2 .. Len(work) /\ v[j] = work[j - Len(calls) + 1]
      BY <1>2, <2>2
    <3>2. CASE i \in DOMAIN calls
      <4>1. p \in Held(work[1])
        BY <1>1, <1>2, <1>3, <3>2
      <4>2. j - Len(calls) + 1 \in DOMAIN work /\ 1 < j - Len(calls) + 1
        BY <1>2, <3>1
      <4> QED
        BY <1>1, <1>3, <3>1, <4>1, <4>2 DEF Apart
    <3>3. CASE i > Len(calls)
      <4>1. i - Len(calls) + 1 \in 2 .. Len(work) /\ v[i] = work[i - Len(calls) + 1]
        BY <1>2, <3>3
      <4>2. /\ i - Len(calls) + 1 \in DOMAIN work /\ j - Len(calls) + 1 \in DOMAIN work
            /\ i - Len(calls) + 1 < j - Len(calls) + 1
        BY <1>2, <3>1, <4>1
      <4> QED
        BY <1>1, <3>1, <4>1, <4>2 DEF Apart
    <3> QED
      BY <1>4, <3>2, <3>3
  <2> QED
    BY <1>4, <2>1, <2>2
<1>7. ASSUME NEW body, Behind(body, work) PROVE Behind(body, v)
  <2> SUFFICES ASSUME NEW p \in Reals(body), NEW j \in DOMAIN v, NEW q \in Held(v[j]) PROVE p < q
    BY DEF Behind
  <2>1. CASE j \in DOMAIN calls
    BY <1>1, <1>2, <1>3, <1>7, <2>1 DEF Behind
  <2>2. CASE j > Len(calls)
    BY <1>2, <1>7, <2>2 DEF Behind
  <2> QED
    BY <1>4, <2>1, <2>2
<1>8. ASSUME NEW c \in new PROVE Behind(c.body, v)
  <2>1. Reals(c.body) \subseteq Held(work[1]) /\ Behind(c.body, calls)
    BY <1>3 DEF StepOf, Step, GoodChunk
  <2> SUFFICES ASSUME NEW p \in Reals(c.body), NEW j \in DOMAIN v, NEW q \in Held(v[j]) PROVE p < q
    BY DEF Behind
  <2>2. CASE j \in DOMAIN calls
    BY <1>2, <2>1, <2>2 DEF Behind
  <2>3. CASE j > Len(calls)
    <3>1. j - Len(calls) + 1 \in 2 .. Len(work) /\ v[j] = work[j - Len(calls) + 1]
      BY <1>2, <2>3
    <3>2. j - Len(calls) + 1 \in DOMAIN work /\ 1 < j - Len(calls) + 1
      BY <1>2, <3>1
    <3> QED
      BY <1>1, <1>3, <2>1, <3>1, <3>2 DEF Apart
  <2> QED
    BY <1>4, <2>2, <2>3
<1>9. work' = v
  BY <1>1 DEF v
<1> QED
  BY <1>2, <1>5, <1>6, <1>7, <1>8, <1>9

(* The chunks are the old ones and the new one behind them.                        *)
LEMMA StepChunks ==
  ASSUME TypeOK, NEW calls, NEW new, StepOf(Head(work), calls, new)
  PROVE  /\ chunks' \in Seq(Chunks) /\ Len(chunks) \in Nat /\ DOMAIN chunks = 1 .. Len(chunks)
         /\ \A i \in DOMAIN chunks' : \/ i \in DOMAIN chunks /\ chunks'[i] = chunks[i]
                                      \/ i = Len(chunks) + 1 /\ chunks'[i] \in new
         /\ \A i \in DOMAIN chunks : i \in DOMAIN chunks' /\ chunks'[i] = chunks[i]
         /\ \A c \in new : \E i \in DOMAIN chunks' : chunks'[i] = c
<1>1. chunks \in Seq(Chunks) /\ \A c \in new : c \in Chunks
  BY DEF TypeOK, StepOf, Step, GoodChunk
<1>2. Len(chunks) \in Nat /\ DOMAIN chunks = 1 .. Len(chunks)
  BY <1>1, LenProperties
<1>3. CASE new = {} /\ UNCHANGED chunks
  BY <1>1, <1>2, <1>3
<1>4. CASE \E c : new = {c} /\ chunks' = Append(chunks, c)
  <2>1. PICK c : new = {c} /\ chunks' = Append(chunks, c)
    BY <1>4
  <2> HIDE DEF Chunks
  <2>2. /\ chunks' \in Seq(Chunks) /\ Len(chunks') = Len(chunks) + 1
        /\ \A i \in 1 .. Len(chunks) : chunks'[i] = chunks[i]
        /\ chunks'[Len(chunks) + 1] = c
    BY <1>1, <2>1, AppendProperties
  <2>3. DOMAIN chunks' = 1 .. Len(chunks) + 1
    BY <2>2, LenProperties
  <2> QED
    BY <1>2, <2>1, <2>2, <2>3
<1> QED
  BY <1>3, <1>4 DEF StepOf

(* Chunks of good places only are in order.                                        *)
LEMMA StepInOrder ==
  ASSUME TypeOK, SplitInv, ChunksInv, work # <<>>, NEW calls, NEW new, StepOf(Head(work), calls, new)
  PROVE  ChunksInv'
<1>1. /\ chunks' \in Seq(Chunks) /\ Len(chunks) \in Nat /\ DOMAIN chunks = 1 .. Len(chunks)
      /\ \A i \in DOMAIN chunks' : \/ i \in DOMAIN chunks /\ chunks'[i] = chunks[i]
                                   \/ i = Len(chunks) + 1 /\ chunks'[i] \in new
  BY StepChunks
<1>2. UNCHANGED <<text, strategy>>
  BY DEF StepOf
<1>3. \A c \in new : /\ SizeOK(c.body) /\ Increasing(c.body) /\ c \in Chunks
                     /\ Reals(c.body) \subseteq Held(Head(work))
  BY DEF StepOf, Step, GoodChunk
<1>4. \A i \in DOMAIN chunks' : SizeOK(chunks'[i].body)
  BY <1>1, <1>3 DEF ChunksInv
<1>5. /\ Head(work) = work[1] /\ 1 \in DOMAIN work /\ chunks \in Seq(Chunks)
      /\ \A i \in DOMAIN chunks : Behind(chunks[i].body, work) /\ chunks[i] \in Chunks
  <2>1. work \in Seq(Call) /\ chunks \in Seq(Chunks)
    BY DEF TypeOK
  <2> HIDE DEF Call, Chunks
  <2>2. Head(work) = work[1] /\ 1 \in DOMAIN work
    BY <2>1, HeadTailProperties, LenProperties, EmptySeq
  <2>3. \A i \in DOMAIN chunks : chunks[i] \in Chunks
    BY <2>1, ElementOfSeq, LenProperties
  <2> QED
    BY <2>1, <2>2, <2>3 DEF SplitInv
<1>6. ASSUME NEW c \in Chunks, NEW a \in DOMAIN c.body, c.body[a] # Added
      PROVE  c.body[a] \in Reals(c.body) /\ c.body[a] \in Nat
  <2>1. c.body \in Seq(0 .. Len(text)) /\ Len(text) \in Nat /\ DOMAIN text = 1 .. Len(text)
    BY TextType DEF TypeOK, Chunks, Path, Place
  <2>2. c.body[a] \in 0 .. Len(text)
    BY <2>1, ElementOfSeq, LenProperties
  <2>3. c.body[a] \in DOMAIN text
    BY <1>6, <2>1, <2>2 DEF Added
  <2> QED
    BY <2>2, <2>3 DEF Reals
<1>7. ASSUME NEW i \in DOMAIN chunks', NEW j \in DOMAIN chunks',
             NEW a \in DOMAIN chunks'[i].body, NEW b \in DOMAIN chunks'[j].body,
             i < j \/ (i = j /\ a < b), chunks'[i].body[a] # Added, chunks'[j].body[b] # Added
      PROVE  chunks'[i].body[a] < chunks'[j].body[b]
  <2>1. CASE j \in DOMAIN chunks /\ chunks'[j] = chunks[j]
    <3>1. i \in DOMAIN chunks /\ chunks'[i] = chunks[i]
      BY <1>1, <1>7, <2>1
    <3> QED
      BY <1>7, <2>1, <3>1 DEF ChunksInv, InOrder
  <2>2. CASE j = Len(chunks) + 1 /\ chunks'[j] \in new
    <3>1. chunks'[j].body[b] \in Held(work[1])
      BY <1>3, <1>5, <1>6, <1>7, <2>2
    <3>2. CASE i \in DOMAIN chunks /\ chunks'[i] = chunks[i]
      <4>1. chunks[i].body[a] \in Reals(chunks[i].body) /\ Behind(chunks[i].body, work)
        BY <1>5, <1>6, <1>7, <3>2
      <4> QED
        BY <1>5, <3>1, <3>2, <4>1 DEF Behind
    <3>3. CASE i = Len(chunks) + 1
      <4>1. i = j /\ a < b /\ Increasing(chunks'[j].body)
        BY <1>1, <1>3, <1>7, <2>2, <3>3
      <4> QED
        BY <1>7, <4>1 DEF Increasing
    <3> QED
      BY <1>1, <3>2, <3>3
  <2> QED
    BY <1>1, <2>1, <2>2
<1>8. InOrder'
  BY <1>7 DEF InOrder
<1> QED
  BY <1>2, <1>4, <1>8, SamePlaces DEF ChunksInv

(* A step preserves the invariant.                                                 *)
LEMMA StepInv ==
  ASSUME IInv, stage = "split", work # <<>>, NEW calls, NEW new, StepOf(Head(work), calls, new)
  PROVE  IInv'
<1>1. /\ TypeOK /\ SplitInv /\ ChunksInv
      /\ UNCHANGED <<text, strategy, stage, at>> /\ stage' = "split"
  BY DEF IInv, StageInv, StepOf
<1>2. /\ work' \in Seq(Call) /\ \A i \in DOMAIN work' : CallOK(work'[i])
      /\ Apart(work')
      /\ \A body : Behind(body, work) => Behind(body, work')
      /\ \A c \in new : Behind(c.body, work')
  BY <1>1, StepCalls
<1>3. /\ chunks' \in Seq(Chunks) /\ Len(chunks) \in Nat /\ DOMAIN chunks = 1 .. Len(chunks)
      /\ \A i \in DOMAIN chunks' : \/ i \in DOMAIN chunks /\ chunks'[i] = chunks[i]
                                   \/ i = Len(chunks) + 1 /\ chunks'[i] \in new
      /\ \A i \in DOMAIN chunks : i \in DOMAIN chunks' /\ chunks'[i] = chunks[i]
      /\ \A c \in new : \E i \in DOMAIN chunks' : chunks'[i] = c
  BY <1>1, StepChunks
<1>4. TypeOK'
  BY <1>1, <1>2, <1>3, SamePlaces DEF TypeOK
<1>5. (\A i \in DOMAIN work : CallOK(work[i]))'
  BY <1>1, <1>2, SameCalls
<1>6. Apart(work)'
  BY <1>1, <1>2, SameCalls DEF Apart
<1>7. (\A i \in DOMAIN chunks : Behind(chunks[i].body, work))'
  <2>1. \A i \in DOMAIN chunks' : Behind(chunks'[i].body, work')
    BY <1>1, <1>2, <1>3 DEF SplitInv
  <2>2. \A body, w : Behind(body, w)' <=> Behind(body, w)
    BY <1>1, SameCalls, SamePlaces DEF Behind
  <2> QED
    BY <2>1, <2>2
<1>8. (\A i \in DOMAIN chunks : FreshOK(chunks[i]))'
  <2>1. \A c \in new : FreshOK(c)
    BY DEF StepOf, Step, GoodChunk
  <2>2. \A i \in DOMAIN chunks' : FreshOK(chunks'[i])
    BY <1>1, <1>3, <2>1 DEF SplitInv
  <2> QED
    BY <1>1, <2>2, SamePlaces
<1>9. (\A k \in DOMAIN text : IsBlank(k) \/ InSome(k) \/ Promised(k) \/ Left(k))'
  <2> SUFFICES ASSUME NEW k \in DOMAIN text
               PROVE  IsBlank(k) \/ InSome(k)' \/ Promised(k)' \/ Left(k)
    BY <1>1, SameText, SamePlaces
  <2>1. Written(new, k) => InSome(k)'
    BY <1>3 DEF Written, InSome
  <2>2. InSome(k) => InSome(k)'
    BY <1>3 DEF InSome
  <2>3. /\ \A i \in DOMAIN calls : i \in DOMAIN work' /\ work'[i] = calls[i]
        /\ \A j \in 2 .. Len(work) : \E i \in DOMAIN work' : work'[i] = work[j]
        /\ Head(work) = work[1] /\ DOMAIN work = 1 .. Len(work) /\ Len(work) \in Nat
    <3>1. work \in Seq(Call) /\ calls \in Seq(Call) /\ work' = calls \o Tail(work)
      BY <1>1 DEF TypeOK, StepOf, Step
    <3> HIDE DEF Call
    <3> DEFINE v == work'
    <3>4. work \in Seq(Call) /\ work # <<>> /\ calls \in Seq(Call) /\ v = calls \o Tail(work)
      BY <3>1
    <3> HIDE DEF v
    <3>5. /\ DOMAIN work = 1 .. Len(work) /\ Len(work) \in Nat \ {0}
          /\ \A i \in DOMAIN calls : i \in DOMAIN v /\ v[i] = calls[i]
          /\ \A j \in 2 .. Len(work) : Len(calls) + j - 1 \in DOMAIN v /\ v[Len(calls) + j - 1] = work[j]
      BY ONLY <3>4, Replacing
    <3>2. /\ DOMAIN work = 1 .. Len(work) /\ Len(work) \in Nat
          /\ \A i \in DOMAIN calls : i \in DOMAIN work' /\ work'[i] = calls[i]
          /\ \A j \in 2 .. Len(work) : Len(calls) + j - 1 \in DOMAIN work' /\ work'[Len(calls) + j - 1] = work[j]
      BY <3>5 DEF v
    <3>3. Head(work) = work[1]
      BY <3>1, HeadTailProperties
    <3> QED
      BY <3>2, <3>3
  <2>4. TakenOver(calls, k) => Promised(k)'
    BY <1>1, <2>3, SameCalls DEF TakenOver, Promised
  <2>5. ASSUME Promised(k) PROVE Promised(k)' \/ k \in Held(Head(work)) \cup Owes(Head(work))
    <3>1. PICK i \in DOMAIN work : k \in Held(work[i]) \cup Owes(work[i])
      BY <2>5 DEF Promised
    <3>2. CASE i = 1
      BY <2>3, <3>1, <3>2
    <3>3. CASE i # 1
      <4>1. i \in 2 .. Len(work)
        BY <2>3, <3>3
      <4>2. PICK j \in DOMAIN work' : work'[j] = work[i]
        BY <2>3, <4>1
      <4> QED
        BY <1>1, <3>1, <4>2, SameCalls DEF Promised
    <3> QED
      BY <3>2, <3>3
  <2>6. k \in Held(Head(work)) \cup Owes(Head(work)) =>
          IsBlank(k) \/ Written(new, k) \/ TakenOver(calls, k) \/ Left(k)
    BY DEF StepOf, Step
  <2>7. IsBlank(k) \/ InSome(k) \/ Promised(k) \/ Left(k)
    BY <1>1 DEF SplitInv
  <2> QED
    BY <2>1, <2>2, <2>4, <2>5, <2>6, <2>7
<1>10. SplitInv'
  BY <1>5, <1>6, <1>7, <1>8, <1>9 DEF SplitInv
<1>11. ChunksInv'
  BY <1>1, StepInOrder
<1> QED
  BY <1>1, <1>4, <1>10, <1>11 DEF IInv, StageInv
-----------------------------------------------------------------------------------
(* What is needed of a step that leaves none, one, two or three calls.             *)
Covered(k, new) == IsBlank(k) \/ Written(new, k) \/ Left(k)

LEMMA NoCall ==
  ASSUME NEW f, NEW new, \A c \in new : GoodChunk(c, f, <<>>),
         \A k \in DOMAIN text : k \in Held(f) \cup Owes(f) => Covered(k, new)
  PROVE  Step(f, <<>>, new)
BY DEF Step, Covered, Apart, TakenOver

LEMMA OneCall ==
  ASSUME NEW f, NEW g \in Call, CallOK(g), Held(g) \subseteq Held(f),
         NEW new, \A c \in new : GoodChunk(c, f, <<g>>),
         \A k \in DOMAIN text : k \in Held(f) \cup Owes(f) =>
           Covered(k, new) \/ k \in Held(g) \cup Owes(g)
  PROVE  Step(f, <<g>>, new)
<1> DEFINE calls == <<g>>
<1>1. calls \in Seq(Call) /\ DOMAIN calls = {1} /\ calls[1] = g
  <2> HIDE DEF Call
  <2> QED
    OBVIOUS
<1> HIDE DEF calls, Call
<1>2. Apart(calls)
  BY <1>1 DEF Apart
<1>3. \A k : TakenOver(calls, k) <=> k \in Held(g) \cup Owes(g)
  BY <1>1 DEF TakenOver
<1>4. \A c \in new : GoodChunk(c, f, calls)
  BY DEF calls
<1>5. Step(f, calls, new)
  BY <1>1, <1>2, <1>3, <1>4 DEF Step, Covered
<1> QED
  BY <1>5 DEF calls

LEMMA TwoCalls ==
  ASSUME NEW f, NEW g \in Call, CallOK(g), Held(g) \subseteq Held(f),
         NEW h \in Call, CallOK(h), Held(h) \subseteq Held(f),
         \A p \in Held(g), q \in Held(h) : p < q,
         \A k \in DOMAIN text : k \in Held(f) \cup Owes(f) =>
           Covered(k, {}) \/ k \in Held(g) \cup Owes(g) \/ k \in Held(h) \cup Owes(h)
  PROVE  Step(f, <<g, h>>, {})
<1> DEFINE calls == <<g, h>>
<1>1. calls \in Seq(Call) /\ DOMAIN calls = {1, 2} /\ calls[1] = g /\ calls[2] = h
  <2> HIDE DEF Call
  <2> QED
    OBVIOUS
<1> HIDE DEF calls, Call
<1>2. Apart(calls)
  BY <1>1 DEF Apart
<1>3. \A k : TakenOver(calls, k) <=> k \in Held(g) \cup Owes(g) \/ k \in Held(h) \cup Owes(h)
  BY <1>1 DEF TakenOver
<1>5. Step(f, calls, {})
  BY <1>1, <1>2, <1>3 DEF Step, Covered
<1> QED
  BY <1>5 DEF calls

LEMMA ThreeCalls ==
  ASSUME NEW f, NEW g \in Call, CallOK(g), Held(g) \subseteq Held(f),
         NEW h \in Call, CallOK(h), Held(h) \subseteq Held(f),
         NEW e \in Call, CallOK(e), Held(e) \subseteq Held(f),
         \A p \in Held(g), q \in Held(h) : p < q,
         \A p \in Held(g), q \in Held(e) : p < q,
         \A p \in Held(h), q \in Held(e) : p < q,
         \A k \in DOMAIN text : k \in Held(f) \cup Owes(f) =>
           \/ Covered(k, {}) \/ k \in Held(g) \cup Owes(g)
           \/ k \in Held(h) \cup Owes(h) \/ k \in Held(e) \cup Owes(e)
  PROVE  Step(f, <<g, h, e>>, {})
<1> DEFINE calls == <<g, h, e>>
<1>1. calls \in Seq(Call) /\ DOMAIN calls = {1, 2, 3} /\ calls[1] = g /\ calls[2] = h /\ calls[3] = e
  <2> HIDE DEF Call
  <2> QED
    OBVIOUS
<1> HIDE DEF calls, Call
<1>2. Apart(calls)
  BY <1>1 DEF Apart
<1>3. \A k : TakenOver(calls, k) <=>
        \/ k \in Held(g) \cup Owes(g) \/ k \in Held(h) \cup Owes(h) \/ k \in Held(e) \cup Owes(e)
  BY <1>1 DEF TakenOver
<1>5. Step(f, calls, {})
  BY <1>1, <1>2, <1>3 DEF Step, Covered
<1> QED
  BY <1>5 DEF calls

(* A chunk is made of its path and its body, and holds the places of both.         *)
MadeOf(c, path, body, start) ==
  /\ c \in Chunks /\ c.body = body /\ c.start = start
  /\ PlaceOK(body, start) => FreshOK(c)
  /\ \A k \in Reals(path) \cup Reals(body) : Written({c}, k)

LEMMA MakeChunkType ==
  ASSUME text \in Texts, NEW path \in Trail, NEW body \in Path, NEW start \in Int,
         NEW c, c = MakeChunk(path, body, start)
  PROVE  MadeOf(c, path, body, start)
<1> DEFINE content == path \o body
<1>1. path \in Seq(Place) /\ body \in Seq(Place)
  BY DEF Path, Trail
<1>2. /\ content \in Seq(Place) /\ Len(content) = Len(path) + Len(body)
      /\ Len(path) \in Nat /\ Len(body) \in Nat
      /\ \A i \in 1 .. Len(path) + Len(body) :
           content[i] = IF i <= Len(path) THEN path[i] ELSE body[i - Len(path)]
      /\ DOMAIN content = 1 .. Len(content)
      /\ DOMAIN path = 1 .. Len(path) /\ DOMAIN body = 1 .. Len(body)
  BY <1>1, ConcatProperties, LenProperties
<1>3. c = [content |-> content, body |-> body, lap |-> <<>>, start |-> start, end |-> start + Len(body)]
  BY DEF MakeChunk
<1> HIDE DEF content
<1>4. c.content = content /\ c.body = body /\ c.start = start /\ c.end = start + Len(body) /\ c.lap = <<>>
  BY <1>3
<1>5. c \in Chunks
  <2>1. content \in Path /\ <<>> \in Path /\ start + Len(body) \in Int
    BY <1>2 DEF Path
  <2> HIDE DEF Path, Trail
  <2> QED
    BY <1>3, <2>1 DEF Chunks
<1>8. Ends(content, body) /\ Even(Len(content) - Len(body))
  <2>1. Len(content) - Len(body) = Len(path)
    BY <1>2
  <2>2. \A a \in DOMAIN body : content[Len(path) + a] = body[a]
    BY <1>2
  <2> QED
    BY <1>2, <2>1, <2>2 DEF Ends, Trail
<1>9. PlaceOK(body, start) => FreshOK(c)
  BY <1>4, <1>8 DEF FreshOK
<1>6. ASSUME NEW k \in Reals(path) PROVE Written({c}, k)
  <2>1. PICK a \in DOMAIN path : path[a] = k
    BY <1>6 DEF Reals
  <2>2. a \in DOMAIN content /\ content[a] = k
    BY <1>2, <2>1
  <2> QED
    BY <1>4, <2>2 DEF Written
<1>7. ASSUME NEW k \in Reals(body) PROVE Written({c}, k)
  <2>1. PICK a \in DOMAIN body : body[a] = k
    BY <1>7 DEF Reals
  <2>2. Len(path) + a \in DOMAIN content /\ content[Len(path) + a] = k
    BY <1>2, <2>1
  <2> QED
    BY <1>4, <2>2 DEF Written
<1> QED
  BY <1>4, <1>5, <1>6, <1>7, <1>9 DEF MadeOf

(* One that is made of a stretch of the text.                                      *)
LEMMA StretchChunk ==
  ASSUME text \in Texts, NEW from, NEW end, Stretch(from, end), from < end,
         NEW path \in Trail, NEW start \in Int, start < from, Packed => start = from - 1,
         SizeOK(Places(from, end)), NEW c, c = MakeChunk(path, Places(from, end), start),
         NEW f, from .. end - 1 \subseteq Held(f),
         NEW calls, \A i \in DOMAIN calls : \A q \in Held(calls[i]) : q \in Int /\ end <= q
  PROVE  /\ GoodChunk(c, f, calls)
         /\ \A k \in Reals(path) \cup from .. end - 1 : Written({c}, k)
<1> DEFINE body == Places(from, end)
<1>1. /\ from \in Nat /\ end \in Nat /\ 1 <= from /\ body \in Path /\ Len(body) = end - from
      /\ DOMAIN body = 1 .. end - from /\ \A i \in 1 .. end - from : body[i] = from + i - 1
      /\ Reals(body) = from .. end - 1 /\ Increasing(body)
  BY PlacesType
<1>2. /\ c \in Chunks /\ c.body = body /\ (PlaceOK(body, start) => FreshOK(c))
      /\ \A k \in Reals(path) \cup Reals(body) : Written({c}, k)
  <2>1. c = MakeChunk(path, body, start)
    OBVIOUS
  <2> HIDE DEF body, Path, Trail, Chunks
  <2>2. MadeOf(c, path, body, start)
    BY <1>1, <2>1, MakeChunkType
  <2> QED
    BY <2>2 DEF MadeOf
<1> HIDE DEF body
<1>3. PlaceOK(body, start)
  <2>1. body # <<>> /\ body[1] = from /\ body[Len(body)] = end - 1
    <3>1. 1 \in 1 .. end - from /\ end - from \in 1 .. end - from
      BY <1>1
    <3> QED
      BY <1>1, <3>1
  <2>2. start + Len(body) <= body[Len(body)]
    BY <1>1, <2>1
  <2>3. Packed => start + Len(body) = body[Len(body)] /\ \A a \in DOMAIN body : body[a] = start + a
    BY <1>1, <2>1
  <2> QED
    BY <1>1, <2>1, <2>2, <2>3 DEF PlaceOK, Added
<1>4. Behind(body, calls)
  BY <1>1 DEF Behind
<1>5. SizeOK(body)
  BY DEF body
<1> QED
  BY <1>1, <1>2, <1>3, <1>4, <1>5 DEF GoodChunk
-----------------------------------------------------------------------------------
(* No heading has been passed at first.                                            *)
LEMMA EmptyTrail == <<>> \in Trail
<1>1. <<>> \in Path /\ Len(<<>>) = 0 /\ 0 = 2 * 0 /\ 0 \in Nat
  BY DEF Path
<1> QED
  BY ONLY <1>1 DEF Trail, Even

(* The call in front, and what a step with it comes to.                            *)
LEMMA FirstCall ==
  ASSUME IInv, NEW kind, Todo(kind)
  PROVE  /\ text \in Texts /\ stage = "split" /\ work # <<>>
         /\ Head(work) \in Call /\ CallOK(Head(work)) /\ Head(work).kind = kind
<1>1. /\ text \in Texts /\ stage = "split" /\ work # <<>> /\ Head(work).kind = kind
      /\ work \in Seq(Call) /\ \A i \in DOMAIN work : CallOK(work[i])
  BY DEF IInv, TypeOK, StageInv, SplitInv, Todo
<1> HIDE DEF Call
<1>2. Head(work) = work[1] /\ Head(work) \in Call /\ 1 \in DOMAIN work
  BY <1>1, HeadTailProperties, LenProperties, EmptySeq
<1> QED
  BY <1>1, <1>2

(* A step that writes nothing, and one that writes a chunk.                        *)
LEMMA ReplaceStep ==
  ASSUME IInv, NEW kind, Todo(kind), NEW calls, Replace(calls), Step(Head(work), calls, {})
  PROVE  IInv'
<1>1. StepOf(Head(work), calls, {})
  BY DEF Replace, StepOf
<1> QED
  BY <1>1, FirstCall, StepInv

LEMMA EmitStep ==
  ASSUME IInv, NEW kind, Todo(kind), NEW c, NEW calls, Emit(c, calls), Step(Head(work), calls, {c})
  PROVE  IInv'
<1>1. StepOf(Head(work), calls, {c})
  BY DEF Emit, StepOf
<1> QED
  BY <1>1, FirstCall, StepInv

(* The fields of a call.                                                           *)
LEMMA CallType ==
  ASSUME NEW f \in Call
  PROVE  /\ f.kind = "node" => f.node \in Nodes /\ f.path \in Trail
         /\ f.kind = "children" => f.node \in Nodes /\ f.last \in Headings /\ f.path \in Trail
         /\ f.kind \in {"body", "cuts"} => f.from \in Nat /\ f.end \in Nat /\ f.path \in Trail /\ f.start \in Int
         /\ f.kind = "scan" => /\ f.from \in Nat /\ f.end \in Nat /\ f.path \in Trail /\ f.start \in Int
                               /\ f.width \in {1, 2} /\ f.rest \in Nat /\ f.parts \in Seq(Span)
         /\ f.kind = "parts" => /\ f.path \in Trail /\ f.width \in {1, 2} /\ f.parts \in Seq(Span)
                                /\ f.buf \in Path /\ f.start \in Int /\ f.pos \in Int
         /\ f.kind = "semantic" => f.from \in Nat /\ f.end \in Nat /\ f.start \in Int /\ f.depth \in Nat
         /\ f.kind = "sentences" => /\ f.from \in Nat /\ f.end \in Nat /\ f.start \in Int /\ f.depth \in Nat
                                    /\ f.marks \in SUBSET Nat
         /\ f.kind = "groups" => /\ f.marks \in SUBSET Nat /\ f.cut \in SUBSET Nat /\ f.start \in Int
                                 /\ f.depth \in Nat /\ f.next \in Nat
<1> HIDE DEF Path, Trail, Nodes, Headings, Span
<1> QED
  BY DEF Call

(* The calls a section makes: what each holds and owes.                            *)
LEMMA BodyCall ==
  ASSUME text \in Texts, NEW from, NEW end, Stretch(from, end), NEW path \in Trail, NEW start \in Int,
         start < from, Packed => start = from - 1 /\ StartsSolid(from, end),
         NEW g, g = Piece("body", from, end, path, start)
  PROVE  /\ g \in Call /\ CallOK(g) /\ Held(g) = from .. end - 1
         /\ Owes(g) = IF Blanks(from, end) THEN {} ELSE Reals(path)
<1>1. from \in Nat /\ end \in Nat
  BY PlacesType
<1>2. /\ g = [kind |-> "body", from |-> from, end |-> end, path |-> path, start |-> start]
      /\ g.kind = "body" /\ g.from = from /\ g.end = end /\ g.path = path /\ g.start = start
  BY DEF Piece
<1>3. g \in Call
  <2> HIDE DEF Path, Trail
  <2> QED
    BY <1>1, <1>2 DEF Call
<1>4. CallOK(g)
  BY <1>2 DEF CallOK, BodyOK
<1> QED
  BY <1>2, <1>3, <1>4 DEF Held, Owes, Emits

(* A call of chunkNode, and its loop over the subsections.                         *)
LEMMA SectionCall ==
  ASSUME text \in Texts, strategy = "title", NEW n \in Nodes, Headings # {}, NEW path \in Trail,
         NEW g, g = Section(n, path)
  PROVE  /\ g \in Call /\ CallOK(g) /\ Held(g) = ContentStart(n) .. ContentEnd(n) - 1 /\ Owes(g) = {n}
<1>1. g = [kind |-> "node", node |-> n, path |-> path] /\ g.kind = "node" /\ g.node = n
  BY DEF Section
<1>2. g \in Call
  <2> HIDE DEF Path, Trail, Nodes
  <2> QED
    BY <1>1 DEF Call
<1>3. CallOK(g)
  BY <1>1 DEF CallOK
<1> QED
  BY <1>1, <1>2, <1>3 DEF Held, Owes

LEMMA ChildrenCall ==
  ASSUME text \in Texts, strategy = "title", NEW n \in Nodes, Headings # {}, NEW path \in Trail,
         NEW k \in DirectChildren(n), NEW g, g = Children(n, k, path)
  PROVE  /\ g \in Call /\ CallOK(g) /\ Held(g) = ContentEnd(k) .. ContentEnd(n) - 1 /\ Owes(g) = {}
<1>1. /\ g = [kind |-> "children", node |-> n, last |-> k, path |-> path]
      /\ g.kind = "children" /\ g.node = n /\ g.last = k
  BY DEF Children
<1>2. g \in Call
  <2>1. k \in Headings
    BY DEF DirectChildren
  <2> HIDE DEF Path, Trail, Nodes, Headings
  <2> QED
    BY <1>1, <2>1 DEF Call
<1>3. CallOK(g)
  BY <1>1 DEF CallOK
<1> QED
  BY <1>1, <1>2, <1>3 DEF Held, Owes, Emits
-----------------------------------------------------------------------------------
(* The headings: each call of chunkNode hands its section on without a gap.        *)
LEMMA SectionStart ==
  ASSUME text \in Texts, Headings # {}, NEW n \in Nodes, Packed
  PROVE  StartsSolid(ContentStart(n), ContentEnd(n))
<1>1. Len(text) \in Nat /\ DOMAIN text = 1 .. Len(text) /\ TextEnd = Len(text) + 1
  BY TextType DEF TextEnd
<1> SUFFICES ASSUME ContentStart(n) < ContentEnd(n) PROVE ~IsBlank(ContentStart(n))
  BY DEF StartsSolid
<1>2. CASE n = Root
  <2>1. ContentStart(n) = 1 /\ ContentEnd(n) = TextEnd
    BY <1>2, RootType
  <2>2. 1 \in DOMAIN text
    BY <1>1, <2>1
  <2> QED
    BY <2>1, <2>2 DEF Packed, IsBlank, Added
<1>3. CASE n \in Headings
  <2>1. /\ n \in 1 .. Len(text) /\ ContentStart(n) \in {n + 2, TextEnd} /\ ContentEnd(n) <= TextEnd
        /\ ContentEnd(n) \in Nat
        /\ n + 1 <= Len(text) => IsBlank(n + 1)
    BY <1>3, SectionType, TextType
  <2>2. ContentStart(n) = n + 2 /\ n + 1 \in DOMAIN text /\ n + 1 < Len(text)
    BY <1>1, <2>1
  <2>3. text[n + 1] = "newline" /\ IsHeading((n + 1) - 1)
    BY <1>1, <1>3, <2>1, <2>2 DEF IsBlank, Added, Headings
  <2> QED
    BY <2>1, <2>2, <2>3 DEF Packed
<1> QED
  BY <1>2, <1>3 DEF Nodes

(* A node puts its heading on the path.                                            *)
LEMMA PathOf ==
  ASSUME text \in Texts, NEW n \in Nodes, NEW path \in Trail,
         NEW local, local = path \o IF n = Root THEN <<>> ELSE <<n, Added>>
  PROVE  local \in Trail /\ \A k \in DOMAIN text : k = n => k \in Reals(local)
<1>1. path \in Seq(Place) /\ Len(path) \in Nat /\ Len(text) \in Nat /\ DOMAIN text = 1 .. Len(text)
  BY TextType DEF Path, Trail
<1>2. CASE n = Root
  <2>1. local = path
    BY <1>1, <1>2, ConcatEmptySeq
  <2> QED
    BY <1>1, <1>2, <2>1 DEF Path, Root
<1>3. CASE n # Root /\ n \in Headings
  <2>1. n \in Place /\ Added \in Place
    <3>1. n \in 1 .. Len(text)
      <4> HIDE DEF Headings
      <4> QED
        BY <1>3, TextType
    <3> QED
      BY <1>1, <3>1 DEF Place, Added
  <2> DEFINE line == <<n, Added>>
  <2>2. line \in Seq(Place) /\ Len(line) = 2 /\ line[1] = n
    <3> HIDE DEF Place
    <3> QED
      BY <2>1
  <2>3. local = path \o line
    BY <1>3
  <2> HIDE DEF line
  <2>4. local \in Seq(Place) /\ Len(local) = Len(path) + 2 /\ local[Len(path) + 1] = n
    BY <1>1, <2>2, <2>3, ConcatProperties
  <2>5. Len(path) + 1 \in DOMAIN local
    BY <1>1, <2>4, LenProperties
  <2>6. Even(Len(local))
    <3>1. PICK h \in Nat : Len(path) = 2 * h
      BY DEF Trail, Even
    <3>2. Len(local) = 2 * (h + 1) /\ h + 1 \in Nat
      BY <2>4, <3>1
    <3> QED
      BY <3>2 DEF Even
  <2> QED
    BY <2>4, <2>5, <2>6 DEF Path, Trail, Reals
<1> QED
  BY <1>2, <1>3 DEF Nodes

(* A section taken whole has at most so many runes.                                *)
LEMMA RuneBound ==
  ASSUME NEW n \in Nat, RuneTokens(n) <= ChunkSize
  PROVE  n <= 2 * ChunkSize + 1
BY ChunkAssumption DEF RuneTokens, AtLeast1

(* A section is skipped, taken whole, cut as a body, or divided into the text      *)
(* before the first subsection, that subsection, and the loop over the others.     *)
LEMMA ChunkNodeInv ==
  ASSUME IInv, ChunkNode
  PROVE  IInv'
<1> DEFINE f == Head(work)
           n == f.node
           path == f.path \o IF n = Root THEN <<>> ELSE <<n, Added>>
           from == ContentStart(n)
           end == ContentEnd(n)
<1>1. /\ Todo("node") /\ text \in Texts /\ f \in Call /\ f.kind = "node"
      /\ strategy = "title" /\ Headings # {} /\ n \in Nodes /\ f.path \in Trail
  <2>1. Todo("node")
    BY DEF ChunkNode
  <2> QED
    BY <2>1, FirstCall, CallType DEF CallOK
<1>2. path \in Trail /\ \A k \in DOMAIN text : k = n => k \in Reals(path)
  BY <1>1, PathOf
<1>3. /\ Stretch(from, end) /\ from \in Nat /\ end \in Nat /\ 1 <= from /\ from <= end
      /\ Packed => StartsSolid(from, end)
      /\ TextEnd = Len(text) + 1 /\ Len(text) \in Nat /\ DOMAIN text = 1 .. Len(text)
  BY <1>1, NodeType, SectionStart, TextType DEF TextEnd
<1>4. Held(f) = from .. end - 1 /\ Owes(f) = {n}
  BY <1>1 DEF Held, Owes
<1>5. n \in DOMAIN text => n \in Headings
  BY <1>1, <1>3 DEF Nodes, Root
<1>6. CASE end <= from /\ Replace(<<>>)
  <2>1. \A k \in DOMAIN text : k \in Held(f) \cup Owes(f) => Covered(k, {})
    <3>1. end = from /\ Held(f) = {}
      BY <1>3, <1>4, <1>6
    <3>2. n \in DOMAIN text => Left(n)
      BY <1>1, <1>3, <1>5, <3>1 DEF Left, Dropped, Blanks, Headings
    <3> QED
      BY <1>4, <3>1, <3>2 DEF Covered
  <2>2. Step(f, <<>>, {})
    BY <2>1, NoCall
  <2> QED
    BY <1>1, <1>6, <2>2, ReplaceStep
<1>7. CASE from < end /\ RuneTokens(end - from) <= ChunkSize /\ Emit(MakeChunk(path, Places(from, end), from - 1), <<>>)
  <2> DEFINE c == MakeChunk(path, Places(from, end), from - 1)
  <2>1. SizeOK(Places(from, end))
    <3>1. end - from <= 2 * ChunkSize + 1
      BY <1>3, <1>7, RuneBound
    <3>2. Len(Places(from, end)) = end - from
      BY <1>1, <1>3, PlacesType
    <3> QED
      BY <3>1, <3>2 DEF SizeOK
  <2> HIDE DEF from, end, path
  <2>2. /\ GoodChunk(c, f, <<>>)
        /\ \A k \in Reals(path) \cup from .. end - 1 : Written({c}, k)
    <3>1. from - 1 \in Int /\ from - 1 < from /\ from < end
      BY <1>3, <1>7
    <3>2. c = MakeChunk(path, Places(from, end), from - 1)
      OBVIOUS
    <3>3. from .. end - 1 \subseteq Held(f)
      BY <1>4 DEF from, end
    <3>4. \A i \in DOMAIN <<>> : \A q \in Held(<<>>[i]) : q \in Int /\ end <= q
      OBVIOUS
    <3> HIDE DEF c, f, Path, Trail, Stretch
    <3> QED
      BY <1>1, <1>2, <1>3, <2>1, <3>1, <3>2, <3>3, <3>4, StretchChunk
  <2> HIDE DEF c
  <2>3. Step(f, <<>>, {c})
    BY <1>2, <1>4, <2>2, NoCall DEF Covered
  <2> QED
    BY <1>1, <1>7, <2>3, EmitStep DEF c
<1>8. CASE /\ from < end /\ ~(RuneTokens(end - from) <= ChunkSize) /\ DirectChildren(n) = {}
           /\ Replace(<<Piece("body", from, end, path, from - 1)>>)
  <2> DEFINE g == Piece("body", from, end, path, from - 1)
  <2> HIDE DEF path
  <2>1. /\ g \in Call /\ CallOK(g) /\ Held(g) = from .. end - 1
        /\ Owes(g) = IF Blanks(from, end) THEN {} ELSE Reals(path)
    <3>1. from - 1 \in Int /\ from - 1 < from
      BY <1>3
    <3> DEFINE start == from - 1
    <3>2. g = Piece("body", from, end, path, start) /\ start \in Int /\ start < from
      BY <3>1
    <3>3. Packed => start = from - 1 /\ StartsSolid(from, end)
      BY <1>3
    <3> HIDE DEF from, end, g, start, Path, Trail, Call, Stretch
    <3> QED
      BY <1>1, <1>2, <1>3, <3>2, <3>3, BodyCall
  <2>2. n \in DOMAIN text /\ Blanks(from, end) => Left(n)
    <3>1. RuneTokens(end - from) > ChunkSize
      <4>1. RuneTokens(end - from) \in Nat /\ ChunkSize \in Nat
        BY <1>3, ChunkAssumption DEF RuneTokens, AtLeast1
      <4> QED
        BY <1>8, <4>1
    <3> QED
      BY <1>1, <1>5, <3>1 DEF Left, Dropped, Headings
  <2> HIDE DEF g, from, end
  <2>3. Step(f, <<g>>, {})
    BY <1>2, <1>4, <2>1, <2>2, OneCall DEF Covered
  <2> QED
    BY <1>1, <1>8, <2>3, ReplaceStep DEF g
<1>9. ASSUME from < end, ~(RuneTokens(end - from) <= ChunkSize), DirectChildren(n) # {},
             NEW first, first = Min(DirectChildren(n)),
             Replace(<<Piece("body", from, ContentStart(first), path, from - 1), Section(first, path),
                       Children(n, first, path)>>)
      PROVE  IInv'
  <2> DEFINE g == Piece("body", from, ContentStart(first), path, from - 1)
             h == Section(first, path)
             e == Children(n, first, path)
  <2>1. first \in DirectChildren(n)
    <3>1. DirectChildren(n) \subseteq Nat
      <4>1. \A k \in DirectChildren(n) : k \in 1 .. Len(text)
        BY <1>1, ChildType
      <4> QED
        BY <1>3, <4>1
    <3> QED
      BY <1>9, <3>1, LeastOf
  <2> HIDE DEF path
  <2>2. /\ first \in Headings /\ first \in 1 .. Len(text) /\ from <= first /\ first < ContentStart(first)
        /\ ContentStart(first) <= ContentEnd(first) /\ ContentEnd(first) <= end
        /\ ContentStart(first) \in Nat /\ ContentEnd(first) \in Nat
    BY <1>1, <2>1, ChildType
  <2>3. Stretch(from, ContentStart(first)) /\ first \in Nodes
    BY <1>3, <2>2 DEF Stretch, Nodes
  <2>4. ~Blanks(from, ContentStart(first))
    <3>1. first \in from .. ContentStart(first) - 1 /\ ~IsBlank(first)
      BY <1>1, <1>3, <2>2, TextType
    <3> QED
      BY <3>1 DEF Blanks
  <2>5. /\ g \in Call /\ CallOK(g) /\ Held(g) = from .. ContentStart(first) - 1
        /\ Owes(g) = Reals(path)
    <3>1. from - 1 \in Int /\ from - 1 < from /\ (Packed => StartsSolid(from, ContentStart(first)))
      BY <1>3, <2>2 DEF StartsSolid
    <3> HIDE DEF from, end
    <3> QED
      BY <1>1, <1>2, <2>3, <2>4, <3>1, BodyCall
  <2>6. /\ h \in Call /\ CallOK(h) /\ Held(h) = ContentStart(first) .. ContentEnd(first) - 1
    BY <1>1, <1>2, <2>3, SectionCall
  <2>7. /\ e \in Call /\ CallOK(e) /\ Held(e) = ContentEnd(first) .. end - 1
    BY <1>1, <1>2, <2>1, ChildrenCall
  <2> HIDE DEF g, h, e, from, end
  <2>8. Step(f, <<g, h, e>>, {})
    <3>1. Held(g) \subseteq Held(f) /\ Held(h) \subseteq Held(f) /\ Held(e) \subseteq Held(f)
      BY <1>3, <1>4, <2>2, <2>5, <2>6, <2>7
    <3>2. /\ \A p \in Held(g), q \in Held(h) : p < q
          /\ \A p \in Held(g), q \in Held(e) : p < q
          /\ \A p \in Held(h), q \in Held(e) : p < q
      BY <1>3, <2>2, <2>5, <2>6, <2>7
    <3>3. \A k \in DOMAIN text : k \in Held(f) \cup Owes(f) =>
            k \in Held(g) \cup Owes(g) \/ k \in Held(h) \/ k \in Held(e)
      BY <1>2, <1>3, <1>4, <2>2, <2>5, <2>6, <2>7
    <3> QED
      BY <2>5, <2>6, <2>7, <3>1, <3>2, <3>3, ThreeCalls
  <2> QED
    BY <1>1, <1>9, <2>8, ReplaceStep DEF g, h, e, from
<1> QED
  <2>1. ~(end <= from) <=> from < end
    BY <1>3
  <2> HIDE DEF from, end
  <2> QED
    BY <1>6, <1>7, <1>8, <1>9, <2>1 DEF ChunkNode, from, end

(* The loop goes on where the last subsection ended.                               *)
LEMMA ChunkChildInv ==
  ASSUME IInv, ChunkChild
  PROVE  IInv'
<1> DEFINE p == Head(work)
           n == p.node
           k == p.last
           later == {j \in DirectChildren(n) : j > k}
           m == Min(later)
           from == ContentEnd(k)
           end == ContentEnd(n)
<1>1. /\ Todo("children") /\ text \in Texts /\ p \in Call /\ p.kind = "children"
      /\ strategy = "title" /\ n \in Nodes /\ p.path \in Trail /\ k \in DirectChildren(n)
  <2>1. Todo("children")
    BY DEF ChunkChild
  <2> QED
    BY <2>1, FirstCall, CallType DEF CallOK
<1>2. Headings # {}
  BY <1>1 DEF DirectChildren
<1>3. /\ k \in Headings /\ from \in Nat /\ from <= end /\ 1 <= from
      /\ from < TextEnd => from \in Headings
      /\ end \in Nat /\ end <= TextEnd /\ TextEnd \in Nat
  <2>1. /\ k \in Headings /\ k \in 1 .. Len(text) /\ ContentStart(k) <= from /\ k < ContentStart(k)
        /\ ContentStart(k) \in Nat /\ from \in Nat /\ from <= end
    BY <1>1, <1>2, ChildType
  <2>2. from < TextEnd => from \in Headings
    BY <2>1, SectionType, <1>1
  <2>3. end \in Nat /\ end <= TextEnd /\ TextEnd \in Nat
    BY <1>1, <1>2, NodeType
  <2> QED
    BY <2>1, <2>2, <2>3
<1>4. Held(p) = from .. end - 1 /\ Owes(p) = {}
  BY <1>1 DEF Held, Owes, Emits
<1>5. CASE later # {} /\ Replace(<<Section(m, p.path), Children(n, m, p.path)>>)
  <2> DEFINE h == Section(m, p.path)
             e == Children(n, m, p.path)
  <2>1. m \in DirectChildren(n) /\ k < m /\ \A j \in DirectChildren(n) : k < j => m <= j
    <3>1. \A j \in DirectChildren(n) : j \in 1 .. Len(text) /\ Len(text) \in Nat
      BY <1>1, <1>2, ChildType, TextType
    <3>2. later \subseteq Nat /\ \A j \in later : j \in DirectChildren(n) /\ j > k
      BY <3>1
    <3>3. m \in later /\ \A j \in later : m <= j
      BY <1>5, <3>2, LeastOf
    <3> QED
      BY <1>1, <3>1, <3>3
  <2> HIDE DEF m
  <2>2. from = m
    BY <1>1, <1>2, <2>1, NextChild
  <2>3. /\ m \in Headings /\ m \in 1 .. Len(text) /\ m < ContentStart(m) /\ ContentStart(m) <= ContentEnd(m)
        /\ ContentEnd(m) <= end /\ ContentStart(m) \in Nat /\ ContentEnd(m) \in Nat
    BY <1>1, <1>2, <2>1, ChildType
  <2>4. \A j \in m + 1 .. ContentStart(m) - 1 : IsBlank(j)
    BY <1>1, <2>3, SectionType
  <2>5. h \in Call /\ CallOK(h) /\ Held(h) = ContentStart(m) .. ContentEnd(m) - 1 /\ Owes(h) = {m}
    <3>1. m \in Nodes /\ h = Section(m, p.path)
      BY <2>3 DEF Nodes
    <3> HIDE DEF h, p, Path, Trail, Call
    <3> QED
      BY <1>1, <1>2, <3>1, SectionCall
  <2>6. e \in Call /\ CallOK(e) /\ Held(e) = ContentEnd(m) .. end - 1
    <3>1. e = Children(n, m, p.path)
      OBVIOUS
    <3> HIDE DEF e, Path, Trail, Call
    <3> QED
      BY <1>1, <1>2, <2>1, <3>1, ChildrenCall
  <2> HIDE DEF h, e, p, from, end, k, n
  <2>7. Step(p, <<h, e>>, {})
    <3>1. Held(h) \subseteq Held(p) /\ Held(e) \subseteq Held(p)
      BY <1>3, <1>4, <2>2, <2>3, <2>5, <2>6
    <3>2. \A a \in Held(h), b \in Held(e) : a < b
      BY <1>3, <2>3, <2>5, <2>6
    <3>3. \A j \in Held(p) \cup Owes(p) : IsBlank(j) \/ j \in Held(h) \cup Owes(h) \/ j \in Held(e)
      BY <1>3, <1>4, <2>2, <2>3, <2>4, <2>5, <2>6
    <3> QED
      BY <2>5, <2>6, <3>1, <3>2, <3>3, TwoCalls DEF Covered
  <2> QED
    BY <1>1, <1>5, <2>7, ReplaceStep DEF h, e, p, k, n
<1>6. CASE Replace(<<Piece("body", from, end, p.path, from - 1)>>)
  <2> DEFINE start == from - 1
             g == Piece("body", from, end, p.path, start)
  <2>1. Stretch(from, end) /\ start \in Int /\ start < from
    BY <1>3 DEF Stretch
  <2>2. Packed => start = from - 1 /\ StartsSolid(from, end)
    <3>1. from < end => ~IsBlank(from)
      BY <1>1, <1>3, TextType
    <3> QED
      BY <3>1 DEF StartsSolid
  <2>3. g \in Call /\ CallOK(g) /\ Held(g) = from .. end - 1
    <3>1. g = Piece("body", from, end, p.path, start)
      OBVIOUS
    <3> HIDE DEF from, end, g, start, p, Path, Trail, Call, Stretch
    <3> QED
      BY <1>1, <2>1, <2>2, <3>1, BodyCall
  <2> HIDE DEF g, from, end, p
  <2>4. Step(p, <<g>>, {})
    BY <1>4, <2>3, OneCall
  <2> QED
    BY <1>1, <1>6, <2>4, ReplaceStep DEF g, p, from, end
<1> QED
  BY <1>5, <1>6 DEF ChunkChild
-----------------------------------------------------------------------------------
(* The calls that cut a body: what each holds and owes.                            *)
LEMMA ScanCall ==
  ASSUME NEW p, p.from \in Nat, p.end \in Nat, p.path \in Trail, p.start \in Int,
         NEW width \in {1, 2}, NEW rest \in Nat, NEW parts \in Seq(Span),
         NEW g, g = Scan(p, width, rest, parts), ScanOK(g)
  PROVE  g \in Call /\ CallOK(g) /\ Held(g) = p.from .. p.end - 1 /\ Owes(g) = Reals(p.path)
<1>1. /\ g = [kind |-> "scan", from |-> p.from, end |-> p.end, path |-> p.path, start |-> p.start,
              width |-> width, rest |-> rest, parts |-> parts]
      /\ g.kind = "scan" /\ g.from = p.from /\ g.end = p.end /\ g.path = p.path
  BY DEF Scan
<1>2. g \in Call
  <2> HIDE DEF Path, Trail, Span
  <2> QED
    BY <1>1 DEF Call
<1> QED
  BY <1>1, <1>2 DEF CallOK, Held, Owes, Emits

(* The loop that gathers parts, and the cuts between characters.                   *)
LEMMA GatherCall ==
  ASSUME NEW path \in Trail, NEW width \in {1, 2}, NEW parts \in Seq(Span), NEW buf \in Path,
         NEW start \in Int, NEW pos \in Int,
         NEW g, g = Gather(path, width, parts, buf, start, pos), GatherOK(g)
  PROVE  /\ g \in Call /\ CallOK(g)
         /\ Held(g) = {k \in DOMAIN text : \/ \E a \in DOMAIN buf : buf[a] = k
                                           \/ \E i \in DOMAIN parts : parts[i].from <= k /\ k < parts[i].end}
         /\ buf # <<>> \/ parts # <<>> => Owes(g) = Reals(path)
<1>1. /\ g = [kind |-> "parts", path |-> path, width |-> width, parts |-> parts, buf |-> buf,
              start |-> start, pos |-> pos]
      /\ g.kind = "parts" /\ g.path = path /\ g.parts = parts /\ g.buf = buf
  BY DEF Gather
<1>2. g \in Call
  <2> HIDE DEF Path, Trail, Span
  <2> QED
    BY <1>1 DEF Call
<1>3. CallOK(g)
  BY <1>1 DEF CallOK
<1> QED
  BY <1>1, <1>2, <1>3 DEF Held, Owes, Emits

LEMMA CutsCall ==
  ASSUME text \in Texts, NEW from, NEW end, Stretch(from, end), NEW path \in Trail, NEW start \in Int,
         start < from, \A k \in from .. end - 1 : ~IsBlank(k), Packed => start = from - 1,
         NEW g, g = Piece("cuts", from, end, path, start)
  PROVE  /\ g \in Call /\ CallOK(g) /\ Held(g) = from .. end - 1
         /\ from < end => Owes(g) = Reals(path)
<1>1. from \in Nat /\ end \in Nat
  BY PlacesType
<1>2. /\ g = [kind |-> "cuts", from |-> from, end |-> end, path |-> path, start |-> start]
      /\ g.kind = "cuts" /\ g.from = from /\ g.end = end /\ g.path = path /\ g.start = start
  BY DEF Piece
<1>3. g \in Call
  <2> HIDE DEF Path, Trail
  <2> QED
    BY <1>1, <1>2 DEF Call
<1>4. CallOK(g)
  BY <1>2 DEF CallOK, CutsOK
<1> QED
  BY <1>2, <1>3, <1>4 DEF Held, Owes, Emits

(* A body is skipped, taken whole or searched for breaks.                          *)
LEMMA SplitIntoChunksInv ==
  ASSUME IInv, SplitIntoChunks
  PROVE  IInv'
<1> DEFINE p == Head(work)
           c == MakeChunk(p.path, Places(p.from, p.end), p.start)
           g == Scan(p, 2, p.from, <<>>)
<1>1. /\ Todo("body") /\ text \in Texts /\ p \in Call /\ p.kind = "body" /\ BodyOK(p)
      /\ p.from \in Nat /\ p.end \in Nat /\ p.path \in Trail /\ p.start \in Int
  <2>1. Todo("body")
    BY DEF SplitIntoChunks
  <2> QED
    BY <2>1, FirstCall, CallType DEF CallOK
<1>2. /\ Stretch(p.from, p.end) /\ p.start < p.from /\ (Packed => p.start = p.from - 1)
      /\ p.from <= p.end
  BY <1>1, PlacesType DEF BodyOK
<1>3. Held(p) = p.from .. p.end - 1
  BY <1>1 DEF Held
<1>4. Owes(p) = IF Blanks(p.from, p.end) THEN {} ELSE Reals(p.path)
  BY <1>1 DEF Owes, Emits
<1>5. CASE Blanks(p.from, p.end) /\ Replace(<<>>)
  <2>1. \A k \in Held(p) \cup Owes(p) : IsBlank(k)
    BY <1>3, <1>4, <1>5 DEF Blanks
  <2>2. Step(p, <<>>, {})
    BY <2>1, NoCall DEF Covered
  <2> QED
    BY <1>1, <1>5, <2>2, ReplaceStep
<1>6. CASE ~Blanks(p.from, p.end) /\ Tokens(Places(p.from, p.end)) <= ChunkSize /\ Emit(c, <<>>)
  <2>1. /\ GoodChunk(c, p, <<>>)
        /\ \A k \in Reals(p.path) \cup p.from .. p.end - 1 : Written({c}, k)
    <3>1. p.from < p.end
      BY <1>1, <1>2, <1>6 DEF Blanks
    <3>2. SizeOK(Places(p.from, p.end)) /\ p.from .. p.end - 1 \subseteq Held(p)
      BY <1>3, <1>6 DEF SizeOK
    <3>3. \A i \in DOMAIN <<>> : \A q \in Held(<<>>[i]) : q \in Int /\ p.end <= q
      OBVIOUS
    <3>4. c = MakeChunk(p.path, Places(p.from, p.end), p.start)
      OBVIOUS
    <3> HIDE DEF c, p, Path, Trail, Stretch
    <3> QED
      BY <1>1, <1>2, <3>1, <3>2, <3>3, <3>4, StretchChunk
  <2> HIDE DEF c
  <2>2. Step(p, <<>>, {c})
    BY <1>3, <1>4, <1>6, <2>1, NoCall DEF Covered
  <2> QED
    BY <1>1, <1>6, <2>2, EmitStep
<1>7. CASE ~Blanks(p.from, p.end) /\ Replace(<<g>>)
  <2>1. ScanOK(g)
    <3>1. /\ g.from = p.from /\ g.end = p.end /\ g.start = p.start /\ g.width = 2
          /\ g.rest = p.from /\ g.parts = <<>>
      BY DEF Scan
    <3>2. BodyOK(g)
      BY <1>1, <3>1 DEF BodyOK
    <3>3. PartsOK(<<>>, 2) /\ Adjacent(<<>>, 2)
      BY DEF PartsOK, Adjacent
    <3>4. p.from \in p.from .. p.end /\ \A k \in p.from .. p.from - 1 : FALSE
      BY <1>1, <1>2
    <3> HIDE DEF g, p
    <3> QED
      BY <1>7, <3>1, <3>2, <3>3, <3>4 DEF ScanOK
  <2>2. g \in Call /\ CallOK(g) /\ Held(g) = p.from .. p.end - 1 /\ Owes(g) = Reals(p.path)
    <3>1. <<>> \in Seq(Span) /\ g = Scan(p, 2, p.from, <<>>)
      OBVIOUS
    <3> HIDE DEF g, p, Path, Trail, Span, Call
    <3> QED
      BY <1>1, <2>1, <3>1, ScanCall
  <2> HIDE DEF g
  <2>3. Step(p, <<g>>, {})
    BY <1>3, <1>4, <1>7, <2>2, OneCall
  <2> QED
    BY <1>1, <1>7, <2>3, ReplaceStep
<1> QED
  BY <1>5, <1>6, <1>7 DEF SplitIntoChunks

(* A cut takes the front of what is left, never nothing.                           *)
LEMMA EmitCutsInv ==
  ASSUME IInv, EmitCuts
  PROVE  IInv'
<1> DEFINE p == Head(work)
           n == CutEnd(Places(p.from, p.end))
           end == p.from + n
           c == MakeChunk(p.path, Places(p.from, end), p.start)
           g == Piece("cuts", end, p.end, p.path, p.start + n)
<1>1. /\ Todo("cuts") /\ text \in Texts /\ p \in Call /\ p.kind = "cuts" /\ CutsOK(p)
      /\ p.from \in Nat /\ p.end \in Nat /\ p.path \in Trail /\ p.start \in Int
  <2>1. Todo("cuts")
    BY DEF EmitCuts
  <2> QED
    BY <2>1, FirstCall, CallType DEF CallOK
<1>2. /\ Stretch(p.from, p.end) /\ p.start < p.from /\ (Packed => p.start = p.from - 1)
      /\ p.from <= p.end /\ \A k \in p.from .. p.end - 1 : ~IsBlank(k)
  BY <1>1, PlacesType DEF CutsOK
<1>3. Held(p) = p.from .. p.end - 1 /\ Owes(p) = IF p.from < p.end THEN Reals(p.path) ELSE {}
  BY <1>1 DEF Held, Owes, Emits
<1>4. CASE p.from >= p.end /\ Replace(<<>>)
  <2>1. Held(p) \cup Owes(p) = {}
    BY <1>1, <1>3, <1>4
  <2>2. Step(p, <<>>, {})
    BY <2>1, NoCall
  <2> QED
    BY <1>1, <1>4, <2>2, ReplaceStep
<1>5. CASE p.from < p.end /\ Emit(c, <<g>>)
  <2>1. n \in Nat /\ p.from < end /\ end <= p.end /\ Tokens(Places(p.from, end)) <= 2 * CutTokens
    BY <1>1, <1>2, <1>5, CutEndType
  <2> HIDE DEF n
  <2>2. Stretch(p.from, end) /\ Stretch(end, p.end) /\ end \in Nat
    <3>1. TextEnd \in Nat
      BY <1>1, TextType
    <3> QED
      BY <1>1, <1>2, <2>1, <3>1 DEF Stretch
  <2>3. g \in Call /\ CallOK(g) /\ Held(g) = end .. p.end - 1
    <3> DEFINE start == p.start + n
    <3>1. /\ start \in Int /\ start < end /\ (Packed => start = end - 1)
          /\ \A k \in end .. p.end - 1 : ~IsBlank(k)
      BY <1>1, <1>2, <2>1
    <3>2. g = Piece("cuts", end, p.end, p.path, start) /\ text \in Texts /\ p.path \in Trail
      BY <1>1
    <3> HIDE DEF g, end, start, p, Path, Trail, Call, Stretch, Piece
    <3> QED
      BY <2>2, <3>1, <3>2, CutsCall
  <2>4. SizeOK(Places(p.from, end))
    <3>1. OneParagraph(Places(p.from, end))
      <4>1. /\ DOMAIN Places(p.from, end) = 1 .. end - p.from
            /\ \A i \in 1 .. end - p.from : Places(p.from, end)[i] = p.from + i - 1
        BY <1>1, <2>2, PlacesType
      <4>2. \A i \in 1 .. end - p.from : p.from + i - 1 \in p.from .. p.end - 1
        BY <1>1, <2>1, <2>2
      <4> HIDE DEF end
      <4>3. \A i \in DOMAIN Places(p.from, end) : ~IsBlank(Places(p.from, end)[i])
        BY <1>2, <4>1, <4>2
      <4> QED
        BY <4>3 DEF OneParagraph
    <3> QED
      BY <2>1, <3>1 DEF SizeOK
  <2> HIDE DEF end
  <2>5. /\ GoodChunk(c, p, <<g>>)
        /\ \A k \in Reals(p.path) \cup p.from .. end - 1 : Written({c}, k)
    <3>1. p.from .. end - 1 \subseteq Held(p)
      BY <1>1, <1>3, <2>1, <2>2
    <3>2. \A i \in DOMAIN <<g>> : \A q \in Held(<<g>>[i]) : q \in Int /\ end <= q
      BY <1>1, <2>2, <2>3
    <3>3. c = MakeChunk(p.path, Places(p.from, end), p.start)
      OBVIOUS
    <3> HIDE DEF c, g, p, Path, Trail, Stretch
    <3> QED
      BY <1>1, <1>2, <2>1, <2>2, <2>4, <3>1, <3>2, <3>3, StretchChunk
  <2> HIDE DEF c, g, p
  <2>6. Step(p, <<g>>, {c})
    <3>1. Held(g) \subseteq Held(p)
      BY <1>1, <1>3, <2>1, <2>2, <2>3
    <3>2. \A k \in Held(p) \cup Owes(p) : k \in Reals(p.path) \cup p.from .. end - 1 \/ k \in Held(g)
      BY <1>1, <1>3, <1>5, <2>1, <2>2, <2>3
    <3> QED
      BY <2>3, <2>5, <3>1, <3>2, OneCall DEF Covered
  <2> QED
    BY <1>1, <1>5, <2>6, EmitStep DEF p
<1> QED
  <2>1. ~(p.from >= p.end) <=> p.from < p.end
    BY <1>1
  <2> QED
    BY <1>4, <1>5, <2>1 DEF EmitCuts
-----------------------------------------------------------------------------------
(* The parts of a body, and what one more behind them comes to.                    *)
LEMMA PartType ==
  ASSUME NEW parts \in Seq(Span)
  PROVE  /\ Len(parts) \in Nat /\ DOMAIN parts = 1 .. Len(parts)
         /\ \A i \in DOMAIN parts : parts[i].from \in Nat /\ parts[i].end \in Nat
<1>1. Len(parts) \in Nat /\ DOMAIN parts = 1 .. Len(parts)
  BY LenProperties
<1>2. \A i \in DOMAIN parts : parts[i] \in Span
  BY <1>1, ElementOfSeq
<1> QED
  BY <1>1, <1>2 DEF Span

(* A part more, if it is not empty.                                                *)
LEMMA WithPartType ==
  ASSUME NEW parts \in Seq(Span), NEW from \in Nat, NEW end \in Nat,
         NEW more, more = WithPart(parts, from, end)
  PROVE  /\ more \in Seq(Span) /\ Len(more) \in Nat /\ DOMAIN more = 1 .. Len(more)
         /\ \A i \in DOMAIN parts : i \in DOMAIN more /\ more[i] = parts[i]
         /\ from >= end => more = parts
         /\ from < end => /\ Len(more) = Len(parts) + 1
                          /\ more[Len(more)].from = from /\ more[Len(more)].end = end
         /\ \A i \in DOMAIN more : \/ i \in DOMAIN parts
                                   \/ from < end /\ i = Len(parts) + 1 /\ i = Len(more)
<1> DEFINE part == [from |-> from, end |-> end]
<1>1. part \in Span /\ part.from = from /\ part.end = end
  BY DEF Span
<1>2. Len(parts) \in Nat /\ DOMAIN parts = 1 .. Len(parts)
  BY PartType
<1>3. CASE from < end
  <2>1. more = Append(parts, part)
    BY <1>3 DEF WithPart
  <2> HIDE DEF part, Span
  <2>2. /\ more \in Seq(Span) /\ Len(more) = Len(parts) + 1
        /\ \A i \in 1 .. Len(parts) : more[i] = parts[i]
        /\ more[Len(parts) + 1] = part
    BY <1>1, <2>1, AppendProperties
  <2>3. DOMAIN more = 1 .. Len(parts) + 1
    BY <2>2, LenProperties
  <2> QED
    BY <1>1, <1>2, <1>3, <2>2, <2>3
<1>4. CASE ~(from < end)
  BY <1>2, <1>4 DEF WithPart
<1> QED
  BY <1>3, <1>4

Filled(p, b, parts) ==
  /\ parts \in Seq(Span) /\ PartsOK(parts, p.width)
  /\ \A i \in DOMAIN parts : p.from <= parts[i].from /\ parts[i].end <= b
  /\ \A k \in p.from .. b - 1 : IsBlank(k) \/ \E i \in DOMAIN parts : parts[i].from <= k /\ k < parts[i].end
  /\ Packed => /\ Adjacent(parts, p.width)
               /\ parts = <<>> => p.rest = p.from /\ b = p.from
               /\ parts # <<>> => parts[1].from = p.from
LEMMA AddPart ==
  ASSUME text \in Texts, NEW p, ScanOK(p), p.width \in {1, 2}, p.parts \in Seq(Span),
         NEW b, b \in p.rest .. p.end, \A k \in p.rest .. b - p.width : ~Blanks(k, k + p.width),
         NEW more, more = WithPart(p.parts, p.rest, b)
  PROVE  Filled(p, b, more)
<1> DEFINE w == p.width
           rest == p.rest
           parts == p.parts
<1>1. /\ Stretch(p.from, p.end) /\ rest \in p.from .. p.end
      /\ p.from \in Nat /\ p.end \in Nat /\ 1 <= p.from /\ p.end <= TextEnd /\ TextEnd \in Nat
      /\ rest \in Nat /\ b \in Nat /\ w \in {1, 2}
  <2>1. Stretch(p.from, p.end) /\ rest \in p.from .. p.end
    BY DEF ScanOK, BodyOK
  <2>2. p.from \in Nat /\ p.end \in Nat /\ 1 <= p.from /\ p.end <= TextEnd /\ TextEnd \in Nat
    BY <2>1, PlacesType, TextType
  <2> QED
    BY <2>1, <2>2
<1>2. Len(parts) \in Nat /\ DOMAIN parts = 1 .. Len(parts)
  BY PartType
<1>3. \A i \in DOMAIN parts :
        /\ parts[i].from \in Nat /\ parts[i].end \in Nat
        /\ Stretch(parts[i].from, parts[i].end) /\ parts[i].from < parts[i].end
        /\ p.from <= parts[i].from /\ parts[i].end + w <= rest
        /\ \A k \in parts[i].from .. parts[i].end - w : ~Blanks(k, k + w)
  BY PartType DEF ScanOK, PartsOK
<1>4. \A i, j \in DOMAIN parts : i < j => parts[i].end + w <= parts[j].from
  BY DEF ScanOK, PartsOK
<1>5. \A k \in p.from .. rest - 1 : IsBlank(k) \/ \E i \in DOMAIN parts : parts[i].from <= k /\ k < parts[i].end
  BY DEF ScanOK
<1>6. Packed => /\ Adjacent(parts, w)
                /\ parts = <<>> => rest = p.from
                /\ parts # <<>> => /\ parts[1].from = p.from
                                   /\ rest = parts[Len(parts)].end + w \/ rest = p.end
  BY DEF ScanOK
<1>7. /\ more \in Seq(Span) /\ Len(more) \in Nat /\ DOMAIN more = 1 .. Len(more)
      /\ \A i \in DOMAIN parts : i \in DOMAIN more /\ more[i] = parts[i]
      /\ rest >= b => more = parts
      /\ rest < b => /\ Len(more) = Len(parts) + 1
                     /\ more[Len(more)].from = rest /\ more[Len(more)].end = b
      /\ \A i \in DOMAIN more : \/ i \in DOMAIN parts
                                \/ rest < b /\ i = Len(parts) + 1 /\ i = Len(more)
  <2> HIDE DEF Span
  <2> QED
    BY <1>1, WithPartType
<1>8. \A k \in rest .. b - w : ~Blanks(k, k + w)
  OBVIOUS
<1>9. rest <= b /\ b <= p.end
  BY <1>1
<1> HIDE DEF w, rest, parts
<1>10. Stretch(rest, b)
  BY <1>1, <1>9 DEF Stretch
<1>11. PartsOK(more, w)
  <2>1. \A i \in DOMAIN more :
          /\ Stretch(more[i].from, more[i].end) /\ more[i].from < more[i].end
          /\ \A k \in more[i].from .. more[i].end - w : ~Blanks(k, k + w)
    BY <1>3, <1>7, <1>8, <1>10
  <2>2. ASSUME NEW i \in DOMAIN more, NEW j \in DOMAIN more, i < j
        PROVE  more[i].end + w <= more[j].from
    <3>1. i \in DOMAIN parts
      BY <1>2, <1>7, <2>2
    <3>2. CASE j \in DOMAIN parts
      BY <1>4, <1>7, <2>2, <3>1, <3>2
    <3>3. CASE rest < b /\ j = Len(more)
      BY <1>3, <1>7, <3>1, <3>3
    <3> QED
      BY <1>7, <3>2, <3>3
  <2> QED
    BY <2>1, <2>2 DEF PartsOK
<1>12. \A i \in DOMAIN more : p.from <= more[i].from /\ more[i].end <= b
  <2> SUFFICES ASSUME NEW i \in DOMAIN more PROVE p.from <= more[i].from /\ more[i].end <= b
    OBVIOUS
  <2>1. CASE i \in DOMAIN parts
    BY <1>1, <1>3, <1>7, <1>9, <2>1
  <2>2. CASE rest < b /\ i = Len(more)
    BY <1>1, <1>7, <2>2
  <2> QED
    BY <1>7, <2>1, <2>2
<1>13. ASSUME NEW k \in p.from .. b - 1
       PROVE  IsBlank(k) \/ \E i \in DOMAIN more : more[i].from <= k /\ k < more[i].end
  <2>1. CASE k < rest
    <3>1. k \in p.from .. rest - 1
      BY <1>1, <2>1
    <3>2. IsBlank(k) \/ \E i \in DOMAIN parts : parts[i].from <= k /\ k < parts[i].end
      BY <1>5, <3>1
    <3> QED
      BY <1>7, <3>2
  <2>2. CASE rest <= k
    <3>1. rest < b /\ Len(more) \in DOMAIN more
      BY <1>1, <1>2, <1>7, <2>2
    <3>2. more[Len(more)].from <= k /\ k < more[Len(more)].end
      BY <1>1, <1>7, <2>2, <3>1
    <3> QED
      BY <3>1, <3>2
  <2> QED
    BY <1>1, <2>1, <2>2
<1>14. ASSUME Packed
       PROVE  /\ Adjacent(more, w)
              /\ more = <<>> => rest = p.from /\ b = p.from
              /\ more # <<>> => more[1].from = p.from
  <2>1. CASE rest >= b
    <3>1. more = parts /\ rest = b
      BY <1>1, <1>7, <1>9, <2>1
    <3> QED
      BY <1>6, <1>14, <3>1
  <2>2. CASE rest < b
    <3>1. /\ Len(more) = Len(parts) + 1 /\ more[Len(more)].from = rest /\ Len(more) \in DOMAIN more
      BY <1>2, <1>7, <2>2
    <3>2. more # <<>>
      BY <3>1
    <3>3. CASE parts = <<>>
      <4>1. Len(more) = 1 /\ DOMAIN more = {1}
        BY <1>7, <3>1, <3>3
      <4> QED
        BY <1>6, <1>14, <3>1, <3>2, <3>3, <4>1 DEF Adjacent
    <3>4. CASE parts # <<>>
      <4>1. Len(parts) \in DOMAIN parts /\ 1 \in DOMAIN parts
        <5>1. Len(parts) # 0
          BY <3>4, EmptySeq DEF parts
        <5> QED
          BY <1>2, <5>1
      <4>2. rest = parts[Len(parts)].end + w
        BY <1>1, <1>6, <1>9, <1>14, <2>2, <3>4
      <4>3. ASSUME NEW i \in DOMAIN more, i > 1
            PROVE  more[i].from = more[i - 1].end + w
        <5>1. CASE i \in DOMAIN parts
          <6>1. i - 1 \in DOMAIN parts
            BY <1>2, <4>3, <5>1
          <6> QED
            BY <1>6, <1>7, <1>14, <4>3, <5>1, <6>1 DEF Adjacent
        <5>2. CASE i = Len(more)
          <6>1. i - 1 = Len(parts)
            BY <1>2, <3>1, <5>2
          <6> QED
            BY <1>7, <3>1, <4>1, <4>2, <5>2, <6>1
        <5> QED
          BY <1>7, <5>1, <5>2
      <4> QED
        BY <1>6, <1>7, <1>14, <3>2, <3>4, <4>1, <4>3 DEF Adjacent
    <3> QED
      BY <3>3, <3>4
  <2> QED
    BY <1>1, <2>1, <2>2
<1> QED
  BY <1>7, <1>11, <1>12, <1>13, <1>14 DEF w, rest, Filled

(* What the search for breaks knows.                                               *)
LEMMA ScanType ==
  ASSUME IInv, Todo("scan"), NEW p, p = Head(work)
  PROVE  /\ text \in Texts /\ p \in Call /\ p.kind = "scan" /\ ScanOK(p) /\ BodyOK(p)
         /\ p.from \in Nat /\ p.end \in Nat /\ p.path \in Trail /\ p.start \in Int
         /\ p.width \in {1, 2} /\ p.rest \in Nat /\ p.parts \in Seq(Span)
         /\ p.rest \in p.from .. p.end /\ 1 <= p.from /\ p.end <= TextEnd /\ p.from <= p.end
         /\ p.start < p.from /\ (Packed => p.start = p.from - 1 /\ StartsSolid(p.from, p.end))
         /\ Stretch(p.from, p.end) /\ ~Blanks(p.from, p.end)
         /\ Held(p) = p.from .. p.end - 1 /\ Owes(p) = Reals(p.path)
<1>1. text \in Texts /\ p \in Call /\ p.kind = "scan" /\ ScanOK(p)
  BY FirstCall DEF CallOK
<1>2. /\ p.from \in Nat /\ p.end \in Nat /\ p.path \in Trail /\ p.start \in Int
      /\ p.width \in {1, 2} /\ p.rest \in Nat /\ p.parts \in Seq(Span)
  BY <1>1, CallType
<1>3. /\ p.rest \in p.from .. p.end /\ p.start < p.from /\ BodyOK(p)
      /\ Packed => p.start = p.from - 1 /\ StartsSolid(p.from, p.end)
      /\ Stretch(p.from, p.end) /\ ~Blanks(p.from, p.end)
  BY <1>1 DEF ScanOK, BodyOK
<1>4. 1 <= p.from /\ p.end <= TextEnd /\ p.from <= p.end
  BY <1>1, <1>3, PlacesType
<1>5. Held(p) = p.from .. p.end - 1 /\ Owes(p) = Reals(p.path)
  BY <1>1 DEF Held, Owes, Emits
<1> QED
  BY <1>1, <1>2, <1>3, <1>4, <1>5

(* The next break ends a part, and there was none in between.                      *)
LEMMA NextPartInv ==
  ASSUME IInv, NextPart
  PROVE  IInv'
<1> DEFINE p == Head(work)
           w == p.width
           b == Min(NextBreaks(p))
           more == WithPart(p.parts, p.rest, b)
           g == Scan(p, w, b + w, more)
<1>1. /\ text \in Texts /\ p \in Call /\ p.kind = "scan" /\ ScanOK(p) /\ BodyOK(p)
      /\ p.from \in Nat /\ p.end \in Nat /\ p.path \in Trail /\ p.start \in Int
      /\ w \in {1, 2} /\ p.rest \in Nat /\ p.parts \in Seq(Span)
      /\ p.rest \in p.from .. p.end /\ 1 <= p.from /\ p.end <= TextEnd /\ p.from <= p.end
      /\ (Packed => StartsSolid(p.from, p.end)) /\ ~Blanks(p.from, p.end)
      /\ Held(p) = p.from .. p.end - 1 /\ Owes(p) = Reals(p.path)
  BY ScanType DEF NextPart
<1>2. NextBreaks(p) # {} /\ Replace(<<g>>)
  BY DEF NextPart
<1>3. /\ b \in p.rest .. p.end - w /\ Blanks(b, b + w)
      /\ \A k \in p.rest .. b - w : ~Blanks(k, k + w)
  <2>1. NextBreaks(p) \subseteq Nat
    BY <1>1 DEF NextBreaks
  <2>2. b \in NextBreaks(p) /\ \A j \in NextBreaks(p) : b <= j
    BY <1>2, <2>1, LeastOf
  <2>3. b \in p.rest .. p.end - w /\ Blanks(b, b + w)
    BY <2>2 DEF NextBreaks
  <2> HIDE DEF b
  <2>4. ASSUME NEW k \in p.rest .. b - w, Blanks(k, k + w) PROVE FALSE
    <3>1. k \in p.rest .. p.end - w /\ k < b
      BY <1>1, <2>3
    <3> QED
      BY <1>1, <2>2, <2>3, <2>4, <3>1 DEF NextBreaks
  <2> QED
    BY <2>3, <2>4
<1> HIDE DEF b
<1>4. Filled(p, b, more)
  <2>1. b \in p.rest .. p.end /\ more = WithPart(p.parts, p.rest, b)
    BY <1>1, <1>3
  <2> HIDE DEF more, p, Span
  <2> QED
    BY <1>1, <1>3, <2>1, AddPart
<1>4a. /\ more \in Seq(Span) /\ PartsOK(more, w)
       /\ \A i \in DOMAIN more : p.from <= more[i].from /\ more[i].end <= b
       /\ \A k \in p.from .. b - 1 : IsBlank(k) \/ \E i \in DOMAIN more : more[i].from <= k /\ k < more[i].end
       /\ Packed => /\ Adjacent(more, w)
                    /\ more = <<>> => p.rest = p.from /\ b = p.from
                    /\ more # <<>> => more[1].from = p.from
  BY <1>4 DEF Filled
<1>5. /\ more \in Seq(Span) /\ Len(more) \in Nat /\ DOMAIN more = 1 .. Len(more)
      /\ p.rest >= b => more = p.parts
      /\ p.rest < b => more[Len(more)].end = b
      /\ \A i \in DOMAIN more : more[i].from \in Nat /\ more[i].end \in Nat
  <2>1. b \in Nat /\ more = WithPart(p.parts, p.rest, b)
    BY <1>1, <1>3
  <2> HIDE DEF more, p, Span
  <2> QED
    BY <1>1, <1>4a, <2>1, WithPartType, PartType
<1>6. \A k \in b .. b + w - 1 : IsBlank(k)
  <2>1. Blanks(b, b + w) /\ b \in Nat /\ w \in Nat
    BY <1>1, <1>3
  <2> HIDE DEF w
  <2> QED
    BY <2>1 DEF Blanks
<1> HIDE DEF more, p, w
<1>7. b \in Nat /\ b + w \in p.from .. p.end /\ p.from <= b /\ b < p.end /\ b \in b .. b + w - 1
  BY <1>1, <1>3
<1>8. ASSUME Packed
      PROVE  /\ more # <<>> /\ Blanks((b + w) - w, b + w)
             /\ b + w = more[Len(more)].end + w \/ (w = 1 /\ b + w = p.end)
  <2>1. more # <<>>
    <3>1. b # p.from
      BY <1>1, <1>6, <1>7, <1>8 DEF StartsSolid
    <3> QED
      BY <1>4a, <1>8, <3>1
  <2>2. (b + w) - w = b
    BY <1>1, <1>7
  <2>3. CASE p.rest < b
    BY <1>3, <1>5, <2>1, <2>2, <2>3
  <2>4. CASE p.rest >= b
    <3>1. b = p.rest /\ more = p.parts
      BY <1>1, <1>3, <1>5, <2>4
    <3>2. /\ Blanks(b - w, b)
          /\ w = 1 => \A k \in p.from + 1 .. p.end - 1 : IsBlank(k - 1) /\ IsBlank(k) => k = p.end - 1
          /\ p.rest = p.parts[Len(p.parts)].end + w \/ (w = 1 /\ p.rest = p.end)
      BY <1>1, <1>8, <2>1, <3>1 DEF ScanOK, w
    <3>3. b # p.from
      BY <1>1, <1>6, <1>7, <1>8 DEF StartsSolid
    <3>4. CASE w = 1
      <4>1. b - 1 \in b - w .. b - 1 /\ b \in p.from + 1 .. p.end - 1
        BY <1>1, <1>7, <3>3, <3>4
      <4>2. IsBlank(b - 1) /\ IsBlank(b)
        BY <1>6, <1>7, <3>2, <4>1 DEF Blanks
      <4>3. b = p.end - 1
        BY <3>2, <3>4, <4>1, <4>2
      <4>4. b + w = p.end
        BY <1>1, <1>7, <3>4, <4>3
      <4> QED
        BY <1>3, <2>1, <2>2, <3>4, <4>4
    <3>5. CASE w = 2
      <4>1. p.rest = p.parts[Len(p.parts)].end + 2 /\ Len(p.parts) \in DOMAIN p.parts
        BY <1>5, <2>1, <3>1, <3>2, <3>5, EmptySeq
      <4>2. p.parts[Len(p.parts)].end \in Nat /\ p.from <= p.parts[Len(p.parts)].end
        <5>1. /\ p.from <= p.parts[Len(p.parts)].from
              /\ p.parts[Len(p.parts)].from < p.parts[Len(p.parts)].end
              /\ p.parts[Len(p.parts)].from \in Nat /\ p.parts[Len(p.parts)].end \in Nat
          BY <1>1, <4>1, PartType DEF ScanOK, PartsOK
        <5> QED
          BY <1>1, <5>1
      <4>3. b - 2 \in b - w .. b - 1 /\ b - 1 \in b - w .. b - 1 /\ b - 2 >= 1 /\ b - 2 \in Nat
        <5>1. b - 2 = p.parts[Len(p.parts)].end
          BY <1>7, <3>1, <4>1, <4>2
        <5>2. b - 2 >= 1 /\ b - 2 \in Nat
          BY <1>1, <4>2, <5>1
        <5> QED
          BY <1>7, <3>5, <5>2
      <4>4. IsBlank(b - 2) /\ IsBlank(b - 1) /\ IsBlank(b)
        BY <1>6, <1>7, <3>2, <4>3 DEF Blanks
      <4>5. /\ b - 2 \in DOMAIN text /\ b - 2 # Added /\ ~((b - 2) + 2 > Len(text))
            /\ (b - 2) + 1 = b - 1 /\ (b - 2) + 2 = b
        BY <1>1, <1>7, <4>3, TextType DEF TextEnd, Added
      <4>6. text[b - 2] = "newline"
        BY <4>4, <4>5 DEF IsBlank
      <4> QED
        BY <1>8, <4>4, <4>5, <4>6 DEF Packed
    <3> QED
      BY <1>1, <3>4, <3>5
  <2> QED
    BY <1>1, <1>7, <2>3, <2>4
<1>9. ScanOK(g)
  <2>1. /\ g.from = p.from /\ g.end = p.end /\ g.start = p.start /\ g.path = p.path /\ g.width = w
        /\ g.rest = b + w /\ g.parts = more
    BY DEF Scan
  <2>2. BodyOK(g)
    BY <1>1, <2>1 DEF BodyOK
  <2>3. \E k \in p.from .. p.end - 1 : IsBlank(k)
    <3>1. b \in p.from .. p.end - 1
      BY <1>1, <1>7
    <3> QED
      BY <1>6, <1>7, <3>1
  <2>4. \A i \in DOMAIN more : p.from <= more[i].from /\ more[i].end + w <= b + w
    BY <1>1, <1>4a, <1>5, <1>7
  <2>5. \A k \in p.from .. (b + w) - 1 :
          IsBlank(k) \/ \E i \in DOMAIN more : more[i].from <= k /\ k < more[i].end
    <3> SUFFICES ASSUME NEW k \in p.from .. (b + w) - 1
                 PROVE  IsBlank(k) \/ \E i \in DOMAIN more : more[i].from <= k /\ k < more[i].end
      OBVIOUS
    <3>1. k \in p.from .. b - 1 \/ k \in b .. b + w - 1
      BY <1>1, <1>7
    <3> QED
      BY <1>4a, <1>6, <3>1
  <2>6. Packed => (w = 1 => \A k \in p.from + 1 .. p.end - 1 : IsBlank(k - 1) /\ IsBlank(k) => k = p.end - 1)
    BY <1>1 DEF ScanOK, w
  <2>7. b + w \in p.from .. p.end
    BY <1>7
  <2> HIDE DEF g
  <2> QED
    BY <1>1, <1>4a, <1>8, <2>1, <2>2, <2>3, <2>4, <2>5, <2>6, <2>7 DEF ScanOK
<1>10. g \in Call /\ CallOK(g) /\ Held(g) = p.from .. p.end - 1 /\ Owes(g) = Reals(p.path)
  <2>1. g = Scan(p, w, b + w, more) /\ b + w \in Nat
    BY <1>1, <1>7
  <2> HIDE DEF g, Path, Trail, Span, Call
  <2> QED
    BY <1>1, <1>4a, <1>9, <2>1, ScanCall
<1> HIDE DEF g
<1>11. Step(p, <<g>>, {})
  BY <1>1, <1>10, OneCall
<1> QED
  BY <1>2, <1>11, ReplaceStep DEF p, NextPart

(* All of a body in one part: two newlines can only be at its very end.            *)
LEMMA OnePart ==
  ASSUME text \in Texts, NEW p, ScanOK(p), p.width = 2, p.parts \in Seq(Span), Packed,
         NEW more, more = WithPart(p.parts, p.rest, p.end), Len(more) <= 1,
         Filled(p, p.end, more),
         NEW k \in p.from + 1 .. p.end - 1, IsBlank(k - 1), IsBlank(k)
  PROVE  k = p.end - 1
<1>1. /\ Stretch(p.from, p.end) /\ p.rest \in p.from .. p.end /\ ~Blanks(p.from, p.end)
      /\ StartsSolid(p.from, p.end)
  BY DEF ScanOK, BodyOK
<1>2. /\ p.from \in Nat /\ p.end \in Nat /\ 1 <= p.from /\ p.end <= TextEnd /\ p.rest \in Nat
      /\ Len(text) \in Nat /\ TextEnd = Len(text) + 1 /\ DOMAIN text = 1 .. Len(text)
      /\ p.from <= p.end /\ p.rest <= p.end
  BY <1>1, PlacesType, TextType DEF TextEnd
<1>3. /\ more \in Seq(Span) /\ Len(more) \in Nat /\ DOMAIN more = 1 .. Len(more)
      /\ p.rest >= p.end => more = p.parts
      /\ p.rest < p.end => /\ Len(more) = Len(p.parts) + 1
                           /\ more[Len(more)].from = p.rest /\ more[Len(more)].end = p.end
      /\ Len(p.parts) \in Nat
  <2> DEFINE parts == p.parts
             from == p.rest
             end == p.end
  <2>1. parts \in Seq(Span) /\ from \in Nat /\ end \in Nat /\ more = WithPart(parts, from, end)
    BY <1>2
  <2> HIDE DEF parts, from, end, Span
  <2>2. Len(parts) \in Nat
    BY ONLY <2>1, PartType
  <2>3. /\ more \in Seq(Span) /\ Len(more) \in Nat /\ DOMAIN more = 1 .. Len(more)
        /\ from >= end => more = parts
        /\ from < end => /\ Len(more) = Len(parts) + 1
                         /\ more[Len(more)].from = from /\ more[Len(more)].end = end
    BY ONLY <2>1, WithPartType
  <2> QED
    BY <2>2, <2>3 DEF parts, from, end
<1>4. /\ PartsOK(more, 2)
      /\ more = <<>> => p.end = p.from
      /\ more # <<>> => more[1].from = p.from
  BY DEF Filled
<1>5. p.from # p.end
  BY <1>2
<1>6. more # <<>> /\ Len(more) = 1
  <2>1. more # <<>>
    BY <1>4, <1>5
  <2>2. Len(more) # 0
    BY <1>3, <2>1, EmptySeq
  <2>3. Len(more) \in Nat /\ Len(more) <= 1
    BY <1>3
  <2>4. \A n \in Nat : n <= 1 => n = 0 \/ n = 1
    OBVIOUS
  <2> QED
    BY ONLY <2>1, <2>2, <2>3, <2>4
<1>7. more[1].end \in Nat /\ \A j \in p.from .. more[1].end - 2 : ~Blanks(j, j + 2)
  BY <1>3, <1>4, <1>6, PartType DEF PartsOK
<1> DEFINE e == more[1].end
<1>7a. k \in Int /\ p.from + 1 <= k /\ k <= p.end - 1
  BY <1>2
<1>8. ~(k - 1 <= e - 2)
  <2> SUFFICES ASSUME k - 1 <= e - 2 PROVE FALSE
    OBVIOUS
  <2>1. k - 1 \in p.from .. e - 2
    BY <1>2, <1>7
  <2>2. ~Blanks(k - 1, (k - 1) + 2)
    BY <1>7, <2>1
  <2>3. \A j \in k - 1 .. ((k - 1) + 2) - 1 : j = k - 1 \/ j = k
    BY <1>2
  <2> QED
    BY <2>2, <2>3 DEF Blanks
<1>9. CASE p.rest < p.end
  BY <1>2, <1>3, <1>6, <1>7, <1>8, <1>9
<1>10. CASE p.rest >= p.end
  <2>1. more = p.parts /\ p.rest = p.end
    BY <1>2, <1>3, <1>10
  <2>2. p.rest = e + 2 /\ Blanks(p.end - 2, p.end)
    BY <1>6, <2>1 DEF ScanOK
  <2>3. IsBlank(p.end - 2) /\ IsBlank(p.end - 1)
    <3>1. p.end - 2 \in p.end - 2 .. p.end - 1 /\ p.end - 1 \in p.end - 2 .. p.end - 1
      <4>1. p.end \in Int
        BY <1>2
      <4>2. \A n \in Int : n - 2 \in n - 2 .. n - 1 /\ n - 1 \in n - 2 .. n - 1
        OBVIOUS
      <4> QED
        BY ONLY <4>1, <4>2
    <3> QED
      BY <2>2, <3>1 DEF Blanks
  <2>4. CASE k = p.end - 2
    <3>1. k - 1 \in DOMAIN text /\ k - 1 # Added /\ (k - 1) + 1 = k /\ (k - 1) + 2 = p.end - 1
          /\ ~((k - 1) + 2 > Len(text))
      <4>1. /\ p.from \in Nat /\ p.end \in Nat /\ 1 <= p.from /\ p.end <= Len(text) + 1 /\ Len(text) \in Nat
            /\ k = p.end - 2 /\ p.from + 1 <= k
        BY <1>2, <1>7a, <2>4
      <4>2. /\ k - 1 \in 1 .. Len(text) /\ k - 1 # Added /\ (k - 1) + 1 = k /\ (k - 1) + 2 = p.end - 1
            /\ ~((k - 1) + 2 > Len(text))
        BY ONLY <4>1 DEF Added
      <4> QED
        BY <1>2, <4>2
    <3>2. text[k - 1] = "newline"
      BY <3>1 DEF IsBlank
    <3> QED
      BY <2>3, <3>1, <3>2 DEF Packed
  <2> QED
    <3>1. e \in Nat /\ e + 2 = p.end /\ ~(k - 1 <= e - 2)
      BY <1>7, <1>8, <2>1, <2>2
    <3> HIDE DEF e
    <3>2. p.end \in Nat /\ k \in Int /\ k <= p.end - 1
      BY <1>2, <1>7a
    <3>3. k = p.end - 2 \/ k = p.end - 1
      BY ONLY <3>1, <3>2
    <3> QED
      BY <2>4, <3>3
<1> QED
  BY <1>2, <1>9, <1>10

(* What is behind the last break is a part; a single one is searched for           *)
(* newlines, and cut between characters when it has none.                          *)
LEMMA LastPartInv ==
  ASSUME IInv, LastPart
  PROVE  IInv'
<1> DEFINE p == Head(work)
           w == p.width
           more == WithPart(p.parts, p.rest, p.end)
           d == Gather(p.path, w, more, <<>>, p.start, p.start)
           e == Scan(p, 1, p.from, <<>>)
           g == Piece("cuts", p.from, p.end, p.path, p.start)
<1>1. /\ Todo("scan") /\ text \in Texts /\ p \in Call /\ p.kind = "scan" /\ ScanOK(p) /\ BodyOK(p)
      /\ p.from \in Nat /\ p.end \in Nat /\ p.path \in Trail /\ p.start \in Int
      /\ w \in {1, 2} /\ p.rest \in Nat /\ p.parts \in Seq(Span)
      /\ p.rest \in p.from .. p.end /\ 1 <= p.from /\ p.end <= TextEnd /\ p.from <= p.end
      /\ p.start < p.from /\ (Packed => p.start = p.from - 1 /\ StartsSolid(p.from, p.end))
      /\ Stretch(p.from, p.end) /\ ~Blanks(p.from, p.end)
      /\ Held(p) = p.from .. p.end - 1 /\ Owes(p) = Reals(p.path)
  BY ScanType DEF LastPart
<1>2. NextBreaks(p) = {}
  BY DEF LastPart
<1>3. Filled(p, p.end, more)
  <2>1. \A k \in p.rest .. p.end - w : ~Blanks(k, k + w)
    BY <1>2 DEF NextBreaks
  <2>2. p.end \in p.rest .. p.end /\ more = WithPart(p.parts, p.rest, p.end)
    BY <1>1
  <2> HIDE DEF more, p, Span
  <2> QED
    BY <1>1, <2>1, <2>2, AddPart
<1>4. /\ more \in Seq(Span) /\ Len(more) \in Nat /\ DOMAIN more = 1 .. Len(more) /\ PartsOK(more, w)
      /\ \A i \in DOMAIN more : /\ more[i].from \in Nat /\ more[i].end \in Nat
                                /\ p.from <= more[i].from /\ more[i].end <= p.end
  <2> HIDE DEF more, p, Span
  <2> QED
    BY <1>3, PartType DEF Filled
<1>5. \A k \in p.from .. p.end - 1 : IsBlank(k) \/ \E i \in DOMAIN more : more[i].from <= k /\ k < more[i].end
  BY <1>3 DEF Filled
<1>6. Packed => Adjacent(more, w) /\ (more # <<>> => more[1].from = p.from)
  BY <1>3 DEF Filled
<1>7. more # <<>>
  <2> SUFFICES ASSUME more = <<>> PROVE FALSE
    OBVIOUS
  <2>1. DOMAIN more = {}
    OBVIOUS
  <2> HIDE DEF more
  <2> QED
    BY <1>1, <1>5, <2>1 DEF Blanks
<1>8. \A k \in p.from .. p.end - 1 : k \in DOMAIN text
  BY <1>1, TextType DEF TextEnd
<1>9. CASE (w = 1 \/ Len(more) > 1) /\ Replace(<<d>>)
  <2>1. \E k \in DOMAIN text : IsBlank(k)
    <3>1. w = 1 \/ p.rest # p.from
      <4> SUFFICES ASSUME p.rest = p.from, w # 1 PROVE FALSE
        OBVIOUS
      <4>1. Len(more) > 1 /\ \A i \in DOMAIN p.parts : i \in DOMAIN more /\ more[i] = p.parts[i]
        BY <1>1, <1>9, WithPartType
      <4>2. p.parts = <<>>
        <5> SUFFICES ASSUME p.parts # <<>> PROVE FALSE
          OBVIOUS
        <5>1. 1 \in DOMAIN p.parts
          BY <1>1, EmptySeq, PartType
        <5>2. /\ p.from <= p.parts[1].from /\ p.parts[1].from < p.parts[1].end
              /\ p.parts[1].end + w <= p.rest
              /\ p.parts[1].from \in Nat /\ p.parts[1].end \in Nat
          BY <1>1, <5>1, PartType DEF ScanOK, PartsOK
        <5> QED
          BY <1>1, <5>2
      <4>3. Len(more) <= 1
        <5>1. Len(p.parts) = 0 /\ more = WithPart(p.parts, p.rest, p.end)
          BY <4>2
        <5> HIDE DEF more, p, Span
        <5> QED
          BY <1>1, <5>1, WithPartType
      <4> QED
        BY <1>4, <4>1, <4>3
    <3>2. \E k \in p.from .. p.end - 1 : IsBlank(k)
      BY <1>1, <3>1 DEF ScanOK
    <3> QED
      BY <1>8, <3>2
  <2> HIDE DEF more, p, w
  <2>2. GatherOK(d)
    <3>1. d.parts = more /\ d.width = w /\ d.buf = <<>> /\ d.start = p.start /\ d.pos = p.start
      BY DEF Gather
    <3>2. \A i \in DOMAIN more : p.start < more[i].from
      BY <1>1, <1>4
    <3>3. Increasing(<<>>)
      BY DEF Increasing
    <3>4. Packed => p.start = more[1].from - 1
      BY <1>1, <1>6, <1>7
    <3> HIDE DEF d
    <3> QED
      BY <1>4, <1>6, <2>1, <3>1, <3>2, <3>3, <3>4 DEF GatherOK
  <2>3. /\ d \in Call /\ CallOK(d) /\ Owes(d) = Reals(p.path)
        /\ Held(d) = {k \in DOMAIN text : \E i \in DOMAIN more : more[i].from <= k /\ k < more[i].end}
    <3>1. d = Gather(p.path, w, more, <<>>, p.start, p.start) /\ <<>> \in Path /\ DOMAIN <<>> = {}
      BY DEF Path
    <3>2. /\ d \in Call /\ CallOK(d)
          /\ Held(d) = {k \in DOMAIN text : \/ \E a \in DOMAIN <<>> : <<>>[a] = k
                                            \/ \E i \in DOMAIN more : more[i].from <= k /\ k < more[i].end}
      <4> DEFINE path == p.path
                 start == p.start
                 none == <<>>
      <4>1. /\ path \in Trail /\ w \in {1, 2} /\ more \in Seq(Span) /\ none \in Path /\ start \in Int
            /\ d = Gather(path, w, more, none, start, start) /\ GatherOK(d)
        BY <1>1, <1>4, <2>2, <3>1
      <4> HIDE DEF d, path, start, none, Path, Trail, Span, Call
      <4>2. /\ d \in Call /\ CallOK(d)
            /\ Held(d) = {k \in DOMAIN text : \/ \E a \in DOMAIN none : none[a] = k
                                              \/ \E i \in DOMAIN more : more[i].from <= k /\ k < more[i].end}
        BY ONLY <4>1, GatherCall
      <4> QED
        BY <4>2 DEF none
    <3>3. Owes(d) = Reals(p.path)
      <4> HIDE DEF d, Path, Trail, Span, Call
      <4> QED
        BY <1>1, <1>4, <1>7, <2>2, <3>1, GatherCall
    <3> QED
      BY <3>2, <3>3
  <2> HIDE DEF d
  <2>4. Step(p, <<d>>, {})
    <3>1. Held(d) \subseteq Held(p)
      BY <1>1, <1>4, <2>3, TextType
    <3>2. \A k \in Held(p) : IsBlank(k) \/ k \in Held(d)
      BY <1>1, <1>5, <1>8, <2>3
    <3> QED
      BY <1>1, <2>3, <3>1, <3>2, OneCall DEF Covered
  <2> QED
    BY <1>1, <1>9, <2>4, ReplaceStep DEF p
<1>10. CASE ~(w = 1 \/ Len(more) > 1) /\ (\E k \in p.from .. p.end - 1 : IsBlank(k)) /\ Replace(<<e>>)
  <2>1. Packed => \A k \in p.from + 1 .. p.end - 1 : IsBlank(k - 1) /\ IsBlank(k) => k = p.end - 1
    <3>1. w = 2 /\ Len(more) <= 1 /\ more = WithPart(p.parts, p.rest, p.end)
      BY <1>1, <1>4, <1>10
    <3>2. /\ text \in Texts /\ ScanOK(p) /\ p.width = 2 /\ p.parts \in Seq(Span)
          /\ more = WithPart(p.parts, p.rest, p.end) /\ Len(more) <= 1 /\ Filled(p, p.end, more)
      BY <1>1, <1>3, <3>1
    <3> HIDE DEF p, more, Span
    <3>3. ASSUME Packed, NEW k \in p.from + 1 .. p.end - 1, IsBlank(k - 1), IsBlank(k)
          PROVE  k = p.end - 1
      BY ONLY <3>2, <3>3, OnePart
    <3> QED
      BY <3>3
  <2>2. ScanOK(e)
    <3>1. /\ e.from = p.from /\ e.end = p.end /\ e.start = p.start /\ e.path = p.path /\ e.width = 1
          /\ e.rest = p.from /\ e.parts = <<>>
      BY DEF Scan
    <3>2. BodyOK(e)
      BY <1>1, <3>1 DEF BodyOK
    <3>3. PartsOK(<<>>, 1) /\ Adjacent(<<>>, 1)
      BY DEF PartsOK, Adjacent
    <3>4. p.from \in p.from .. p.end /\ \A k \in p.from .. p.from - 1 : FALSE
      BY <1>1
    <3> HIDE DEF e, p
    <3> QED
      BY <1>1, <1>10, <2>1, <3>1, <3>2, <3>3, <3>4 DEF ScanOK
  <2>3. e \in Call /\ CallOK(e) /\ Held(e) = p.from .. p.end - 1 /\ Owes(e) = Reals(p.path)
    <3>1. <<>> \in Seq(Span) /\ e = Scan(p, 1, p.from, <<>>)
      OBVIOUS
    <3> HIDE DEF e, p, Path, Trail, Span, Call
    <3> QED
      BY <1>1, <2>2, <3>1, ScanCall
  <2> HIDE DEF e, p
  <2>4. Step(p, <<e>>, {})
    BY <1>1, <2>3, OneCall
  <2> QED
    BY <1>1, <1>10, <2>4, ReplaceStep DEF p
<1>11. CASE ~(\E k \in p.from .. p.end - 1 : IsBlank(k)) /\ Replace(<<g>>)
  <2>1. \A k \in p.from .. p.end - 1 : ~IsBlank(k)
    BY <1>11
  <2>2. p.from < p.end
    BY <1>1 DEF Blanks
  <2>3. g \in Call /\ CallOK(g) /\ Held(g) = p.from .. p.end - 1 /\ Owes(g) = Reals(p.path)
    <3>1. g = Piece("cuts", p.from, p.end, p.path, p.start)
      OBVIOUS
    <3> HIDE DEF g, p, Path, Trail, Call, Stretch
    <3>2. /\ g \in Call /\ CallOK(g) /\ Held(g) = p.from .. p.end - 1
          /\ p.from < p.end => Owes(g) = Reals(p.path)
      BY <1>1, <2>1, <3>1, CutsCall
    <3> QED
      BY <2>2, <3>2
  <2> HIDE DEF g, p
  <2>4. Step(p, <<g>>, {})
    BY <1>1, <2>3, OneCall
  <2> QED
    BY <1>1, <1>11, <2>4, ReplaceStep DEF p
<1> QED
  BY <1>9, <1>10, <1>11 DEF LastPart
-----------------------------------------------------------------------------------
(* The buffer with one more part behind it, newlines in between.                   *)
Offset(buf, width) == IF buf = <<>> THEN 0 ELSE Len(buf) + width
LongerBy(more, buf, o, part) ==
  /\ more \in Path /\ o \in Nat /\ Len(buf) \in Nat /\ DOMAIN buf = 1 .. Len(buf) /\ Len(buf) <= o
  /\ Len(more) = o + (part.end - part.from) /\ DOMAIN more = 1 .. Len(more)
  /\ \A a \in DOMAIN buf : a \in DOMAIN more /\ more[a] = buf[a]
  /\ \A a \in 1 .. part.end - part.from : o + a \in DOMAIN more /\ more[o + a] = part.from + a - 1
  /\ \A a \in DOMAIN more : \/ a \in DOMAIN buf
                            \/ a <= o /\ more[a] = Added
                            \/ a > o /\ a - o \in 1 .. part.end - part.from
LEMMA JoinedType ==
  ASSUME text \in Texts, NEW buf \in Path, NEW part, Stretch(part.from, part.end), NEW width \in {1, 2},
         NEW more, more = Joined(buf, part, width)
  PROVE  LongerBy(more, buf, Offset(buf, width), part)
<1> DEFINE places == Places(part.from, part.end)
           n == part.end - part.from
           gap == [i \in 1 .. width |-> Added]
<1>1. /\ places \in Path /\ Len(places) = n /\ DOMAIN places = 1 .. n /\ n \in Nat
      /\ \A i \in 1 .. n : places[i] = part.from + i - 1
  <2>1. /\ part.from \in Nat /\ part.end \in Nat /\ part.from <= part.end
        /\ Places(part.from, part.end) \in Path /\ Len(Places(part.from, part.end)) = part.end - part.from
        /\ DOMAIN Places(part.from, part.end) = 1 .. part.end - part.from
        /\ \A i \in 1 .. part.end - part.from : Places(part.from, part.end)[i] = part.from + i - 1
    BY PlacesType
  <2> QED
    BY <2>1
<1>2. Len(buf) \in Nat /\ DOMAIN buf = 1 .. Len(buf)
  BY LenProperties DEF Path
<1> HIDE DEF places, n
<1>3. CASE buf = <<>>
  <2>1. more = <<>> \o places
    BY <1>3 DEF Joined, places
  <2>2. more = places
    BY <1>1, <2>1, ConcatEmptySeq DEF Path
  <2>3. Offset(buf, width) = 0 /\ Len(buf) = 0
    BY <1>3 DEF Offset
  <2> QED
    BY <1>1, <1>2, <2>2, <2>3 DEF n, LongerBy
<1>4. CASE buf # <<>>
  <2>1. more = (buf \o gap) \o places
    BY <1>4 DEF Joined, places
  <2>2. gap \in Path /\ Len(gap) = width /\ \A i \in 1 .. width : gap[i] = Added
    <3>1. gap \in [1 .. width -> Place] /\ width \in Nat
      BY TextType DEF Place, Added
    <3> HIDE DEF Place
    <3>2. gap \in Seq(Place) /\ Len(gap) = width
      BY <3>1
    <3> QED
      BY <3>2 DEF Path
  <2> HIDE DEF gap
  <2> DEFINE front == buf \o gap
  <2>3. /\ front \in Path /\ Len(front) = Len(buf) + width
        /\ \A i \in 1 .. Len(buf) + width : front[i] = IF i <= Len(buf) THEN buf[i] ELSE gap[i - Len(buf)]
    BY <1>2, <2>2, ConcatProperties DEF Path
  <2> HIDE DEF front
  <2>4. more = front \o places
    BY <2>1 DEF front
  <2>5. /\ more \in Path /\ Len(more) = Len(front) + Len(places)
        /\ \A i \in 1 .. Len(front) + Len(places) :
             more[i] = IF i <= Len(front) THEN front[i] ELSE places[i - Len(front)]
    <3>1. front \in Seq(Place) /\ places \in Seq(Place)
      BY <1>1, <2>3 DEF Path
    <3> HIDE DEF Place
    <3> QED
      BY <2>4, <3>1, ConcatProperties DEF Path
  <2>6. DOMAIN more = 1 .. Len(more)
    BY <2>5, LenProperties DEF Path
  <2>7. Offset(buf, width) = Len(front) /\ Len(front) \in Nat /\ Len(buf) <= Len(front) /\ width \in Nat
    BY <1>2, <1>4, <2>3 DEF Offset
  <2>8. Len(more) = Len(front) + n
    BY <1>1, <2>5
  <2>9. \A a \in DOMAIN buf : a \in DOMAIN more /\ more[a] = buf[a]
    BY <1>1, <1>2, <2>3, <2>5, <2>6, <2>7, <2>8
  <2>10. ASSUME NEW a \in 1 .. n PROVE Len(front) + a \in DOMAIN more /\ more[Len(front) + a] = part.from + a - 1
    <3>1. Len(front) + a \in 1 .. Len(front) + Len(places) /\ ~(Len(front) + a <= Len(front))
          /\ (Len(front) + a) - Len(front) = a
      BY <1>1, <2>7
    <3> QED
      BY <1>1, <2>5, <2>6, <3>1
  <2>11. ASSUME NEW a \in DOMAIN more
         PROVE  a \in DOMAIN buf \/ (a <= Len(front) /\ more[a] = Added) \/ (a > Len(front) /\ a - Len(front) \in 1 .. n)
    <3>1. a \in 1 .. Len(front) + n
      BY <2>6, <2>8
    <3>2. CASE a <= Len(front) /\ a > Len(buf)
      <4>1. a - Len(buf) \in 1 .. width
        BY <1>2, <2>3, <2>7, <3>1, <3>2
      <4>2. more[a] = gap[a - Len(buf)]
        BY <1>1, <1>2, <2>3, <2>5, <2>7, <3>1, <3>2
      <4> QED
        BY <2>2, <3>2, <4>1, <4>2
    <3> QED
      BY <1>1, <1>2, <2>7, <3>1, <3>2
  <2> QED
    BY <1>2, <2>5, <2>6, <2>7, <2>8, <2>9, <2>10, <2>11 DEF n, LongerBy
<1> QED
  BY <1>3, <1>4

(* What the loop that gathers parts knows.                                         *)
LEMMA GatherType ==
  ASSUME IInv, Todo("parts"), NEW p, p = Head(work)
  PROVE  /\ text \in Texts /\ p \in Call /\ p.kind = "parts" /\ GatherOK(p)
         /\ p.path \in Trail /\ p.width \in {1, 2} /\ p.parts \in Seq(Span)
         /\ p.buf \in Path /\ p.start \in Int /\ p.pos \in Int
         /\ Len(p.parts) \in Nat /\ DOMAIN p.parts = 1 .. Len(p.parts)
         /\ \A i \in DOMAIN p.parts :
              /\ p.parts[i].from \in Nat /\ p.parts[i].end \in Nat
              /\ Stretch(p.parts[i].from, p.parts[i].end) /\ p.parts[i].from < p.parts[i].end
              /\ p.pos < p.parts[i].from /\ \A a \in DOMAIN p.buf : p.buf[a] < p.parts[i].from
         /\ Len(p.buf) \in Nat /\ DOMAIN p.buf = 1 .. Len(p.buf) /\ \A a \in DOMAIN p.buf : p.buf[a] \in Nat
         /\ Held(p) = {k \in DOMAIN text :
              \/ \E a \in DOMAIN p.buf : p.buf[a] = k
              \/ \E i \in DOMAIN p.parts : p.parts[i].from <= k /\ k < p.parts[i].end}
         /\ Owes(p) \subseteq Reals(p.path)
         /\ p.buf = <<>> /\ p.parts = <<>> => Owes(p) = {}
<1>1. text \in Texts /\ p \in Call /\ p.kind = "parts" /\ GatherOK(p)
  BY FirstCall DEF CallOK
<1>2. /\ p.path \in Trail /\ p.width \in {1, 2} /\ p.parts \in Seq(Span)
      /\ p.buf \in Path /\ p.start \in Int /\ p.pos \in Int
  BY <1>1, CallType
<1>3. /\ Len(p.parts) \in Nat /\ DOMAIN p.parts = 1 .. Len(p.parts)
      /\ \A i \in DOMAIN p.parts : p.parts[i].from \in Nat /\ p.parts[i].end \in Nat
  BY <1>2, PartType
<1>4. \A i \in DOMAIN p.parts :
        /\ Stretch(p.parts[i].from, p.parts[i].end) /\ p.parts[i].from < p.parts[i].end
        /\ p.pos < p.parts[i].from /\ \A a \in DOMAIN p.buf : p.buf[a] < p.parts[i].from
  BY <1>1 DEF GatherOK, PartsOK
<1>5. Len(p.buf) \in Nat /\ DOMAIN p.buf = 1 .. Len(p.buf) /\ \A a \in DOMAIN p.buf : p.buf[a] \in Nat
  <2>1. Len(p.buf) \in Nat /\ DOMAIN p.buf = 1 .. Len(p.buf) /\ \A a \in 1 .. Len(p.buf) : p.buf[a] \in Place
    BY <1>2, ElementOfSeq, LenProperties DEF Path
  <2> QED
    BY <1>1, <2>1, TextType DEF Place
<1>6. Held(p) = {k \in DOMAIN text :
        \/ \E a \in DOMAIN p.buf : p.buf[a] = k
        \/ \E i \in DOMAIN p.parts : p.parts[i].from <= k /\ k < p.parts[i].end}
  BY <1>1 DEF Held
<1>7. Owes(p) \subseteq Reals(p.path) /\ (p.buf = <<>> /\ p.parts = <<>> => Owes(p) = {})
  BY <1>1 DEF Owes, Emits
<1> QED
  BY <1>1, <1>2, <1>3, <1>4, <1>5, <1>6, <1>7

(* It ends with nothing left,                                                      *)
LEMMA GatheredInv ==
  ASSUME IInv, Gathered
  PROVE  IInv'
<1> DEFINE p == Head(work)
<1>1. /\ Todo("parts") /\ p.buf = <<>> /\ p.parts = <<>> /\ Replace(<<>>)
  BY DEF Gathered
<1>2. Held(p) = {} /\ Owes(p) = {}
  <2>1. /\ Held(p) = {k \in DOMAIN text :
             \/ \E a \in DOMAIN p.buf : p.buf[a] = k
             \/ \E i \in DOMAIN p.parts : p.parts[i].from <= k /\ k < p.parts[i].end}
        /\ Owes(p) = {}
    BY <1>1, GatherType
  <2>2. DOMAIN p.buf = {} /\ DOMAIN p.parts = {}
    BY <1>1
  <2> HIDE DEF p
  <2> QED
    BY <2>1, <2>2
<1>3. Step(p, <<>>, {})
  BY <1>2, NoCall
<1> QED
  BY <1>1, <1>3, ReplaceStep

(* writes what it has gathered,                                                    *)
LEMMA FlushBufferInv ==
  ASSUME IInv, FlushBuffer
  PROVE  IInv'
<1> DEFINE p == Head(work)
           parts == p.parts
           buf == p.buf
           c == MakeChunk(p.path, buf, p.start)
           g == Gather(p.path, p.width, parts, <<>>, p.pos, p.pos)
<1>1. Todo("parts") /\ buf # <<>> /\ Emit(c, <<g>>)
  BY DEF FlushBuffer
<1>2. /\ text \in Texts /\ p \in Call /\ p.kind = "parts" /\ GatherOK(p)
      /\ p.path \in Trail /\ p.width \in {1, 2} /\ parts \in Seq(Span)
      /\ buf \in Path /\ p.start \in Int /\ p.pos \in Int
      /\ \A i \in DOMAIN parts : /\ parts[i].from \in Nat /\ p.pos < parts[i].from
                                 /\ \A a \in DOMAIN buf : buf[a] < parts[i].from
      /\ \A a \in DOMAIN buf : buf[a] \in Nat
      /\ Held(p) = {k \in DOMAIN text : \/ \E a \in DOMAIN buf : buf[a] = k
                                        \/ \E i \in DOMAIN parts : parts[i].from <= k /\ k < parts[i].end}
      /\ Owes(p) \subseteq Reals(p.path)
  BY <1>1, GatherType
<1>3. /\ PlaceOK(buf, p.start) /\ SizeOK(buf) /\ Increasing(buf)
      /\ PartsOK(parts, p.width) /\ \E k \in DOMAIN text : IsBlank(k)
      /\ Packed => Adjacent(parts, p.width) /\ (parts # <<>> => p.pos = parts[1].from - 1)
  BY <1>1, <1>2 DEF GatherOK
<1> HIDE DEF p, parts, buf
<1>4. GatherOK(g)
  <2>1. g.parts = parts /\ g.width = p.width /\ g.buf = <<>> /\ g.start = p.pos /\ g.pos = p.pos
    BY DEF Gather
  <2>2. Increasing(<<>>)
    BY DEF Increasing
  <2> HIDE DEF g
  <2> QED
    BY <1>2, <1>3, <2>1, <2>2 DEF GatherOK
<1>5. /\ g \in Call /\ CallOK(g)
      /\ Held(g) = {k \in DOMAIN text : \E i \in DOMAIN parts : parts[i].from <= k /\ k < parts[i].end}
  <2>1. g = Gather(p.path, p.width, parts, <<>>, p.pos, p.pos) /\ <<>> \in Path /\ DOMAIN <<>> = {}
    BY DEF Path
  <2>2. /\ g \in Call /\ CallOK(g)
        /\ Held(g) = {k \in DOMAIN text : \/ \E a \in DOMAIN <<>> : <<>>[a] = k
                                          \/ \E i \in DOMAIN parts : parts[i].from <= k /\ k < parts[i].end}
    <3> HIDE DEF g, Path, Trail, Span, Call
    <3> QED
      BY <1>2, <1>4, <2>1, GatherCall
  <2> QED
    BY <2>2
<1>6. /\ c \in Chunks /\ c.body = buf /\ FreshOK(c)
      /\ \A k \in Reals(p.path) \cup Reals(buf) : Written({c}, k)
  <2>1. c = MakeChunk(p.path, buf, p.start)
    OBVIOUS
  <2> HIDE DEF c, Path, Trail
  <2>2. MadeOf(c, p.path, buf, p.start)
    BY <1>2, <2>1, MakeChunkType
  <2> QED
    BY <1>3, <2>2 DEF MadeOf
<1> HIDE DEF c, g
<1>7. GoodChunk(c, p, <<g>>)
  <2>1. Reals(buf) \subseteq Held(p)
    BY <1>2 DEF Reals
  <2>2. Behind(buf, <<g>>)
    <3> SUFFICES ASSUME NEW k \in Reals(buf), NEW q \in Held(g) PROVE k < q
      BY DEF Behind
    <3>1. PICK a \in DOMAIN buf : buf[a] = k
      BY DEF Reals
    <3>2. PICK i \in DOMAIN parts : parts[i].from <= q /\ q \in DOMAIN text
      BY <1>5
    <3> QED
      BY <1>2, <3>1, <3>2, TextType
  <2> QED
    BY <1>3, <1>6, <2>1, <2>2 DEF GoodChunk
<1>8. Step(p, <<g>>, {c})
  <2>1. Held(g) \subseteq Held(p)
    BY <1>2, <1>5
  <2>2. \A k \in Held(p) \cup Owes(p) : k \in Reals(p.path) \cup Reals(buf) \/ k \in Held(g)
    BY <1>2, <1>5 DEF Reals
  <2> QED
    BY <1>5, <1>6, <1>7, <2>1, <2>2, OneCall DEF Covered
<1> QED
  BY <1>1, <1>8, EmitStep DEF p

(* or joins the next part to it, which fits or is the first.                       *)
LEMMA GatherPartInv ==
  ASSUME IInv, GatherPart
  PROVE  IInv'
<1> DEFINE p == Head(work)
           w == p.width
           parts == p.parts
           rest == Tail(parts)
           part == Head(parts)
           buf == p.buf
           more == Joined(buf, part, w)
           pos == p.pos + (part.end - part.from) + w
           g == Gather(p.path, w, rest, more, p.start, pos)
           o == Offset(buf, w)
<1>1. Todo("parts") /\ Fits(p) /\ Replace(<<g>>)
  BY DEF GatherPart
<1>2. /\ text \in Texts /\ p \in Call /\ p.kind = "parts" /\ GatherOK(p)
      /\ p.path \in Trail /\ w \in {1, 2} /\ parts \in Seq(Span)
      /\ buf \in Path /\ p.start \in Int /\ p.pos \in Int
      /\ Len(parts) \in Nat /\ DOMAIN parts = 1 .. Len(parts)
      /\ \A i \in DOMAIN parts :
           /\ parts[i].from \in Nat /\ parts[i].end \in Nat
           /\ Stretch(parts[i].from, parts[i].end) /\ parts[i].from < parts[i].end
           /\ p.pos < parts[i].from /\ \A a \in DOMAIN buf : buf[a] < parts[i].from
      /\ Len(buf) \in Nat /\ DOMAIN buf = 1 .. Len(buf) /\ \A a \in DOMAIN buf : buf[a] \in Nat
      /\ Held(p) = {k \in DOMAIN text : \/ \E a \in DOMAIN buf : buf[a] = k
                                        \/ \E i \in DOMAIN parts : parts[i].from <= k /\ k < parts[i].end}
      /\ Owes(p) \subseteq Reals(p.path)
  BY <1>1, GatherType
<1>3. parts # <<>> /\ (buf = <<>> \/ Tokens(more) <= ChunkSize)
  BY <1>1 DEF Fits
<1>4. /\ part = parts[1] /\ 1 \in DOMAIN parts /\ rest \in Seq(Span)
      /\ Len(rest) = Len(parts) - 1 /\ DOMAIN rest = 1 .. Len(parts) - 1
      /\ \A i \in DOMAIN rest : i + 1 \in DOMAIN parts /\ rest[i] = parts[i + 1]
      /\ \A i \in DOMAIN parts : i = 1 \/ i - 1 \in DOMAIN rest
  <2> DEFINE s == parts
  <2>1. s \in Seq(Span) /\ s # <<>> /\ Len(s) \in Nat /\ DOMAIN s = 1 .. Len(s)
    BY <1>2, <1>3
  <2> HIDE DEF s, Span
  <2>2. /\ Head(s) = s[1] /\ Len(s) # 0 /\ Tail(s) \in Seq(Span) /\ Len(Tail(s)) = Len(s) - 1
        /\ \A i \in 1 .. Len(Tail(s)) : Tail(s)[i] = s[i + 1]
    BY <2>1, HeadTailProperties, EmptySeq
  <2>3. DOMAIN Tail(s) = 1 .. Len(s) - 1
    BY <2>2, LenProperties
  <2> QED
    BY <2>1, <2>2, <2>3 DEF s
<1>5. /\ PartsOK(parts, w) /\ \E k \in DOMAIN text : IsBlank(k)
      /\ Increasing(buf) /\ (buf # <<>> => PlaceOK(buf, p.start) /\ p.pos = p.start + Len(buf) + w)
      /\ buf = <<>> => p.start = p.pos
      /\ Packed => /\ Adjacent(parts, w) /\ p.pos = parts[1].from - 1
                   /\ buf # <<>> => p.pos = buf[Len(buf)] + w
  BY <1>2, <1>3 DEF GatherOK
<1> HIDE DEF p, w, parts, rest, buf, part
<1>6. /\ more \in Path /\ o \in Nat /\ Len(buf) <= o
      /\ Len(more) = o + (part.end - part.from) /\ DOMAIN more = 1 .. Len(more)
      /\ \A a \in DOMAIN buf : a \in DOMAIN more /\ more[a] = buf[a]
      /\ \A a \in 1 .. part.end - part.from : o + a \in DOMAIN more /\ more[o + a] = part.from + a - 1
      /\ \A a \in DOMAIN more : \/ a \in DOMAIN buf
                                \/ a <= o /\ more[a] = Added
                                \/ a > o /\ a - o \in 1 .. part.end - part.from
  <2>1. /\ Stretch(part.from, part.end) /\ more = Joined(buf, part, w) /\ text \in Texts
        /\ buf \in Path /\ w \in {1, 2}
    BY <1>2, <1>4
  <2> HIDE DEF more, Path, Trail, Stretch
  <2>2. LongerBy(more, buf, o, part)
    BY <2>1, JoinedType
  <2> QED
    BY <2>2 DEF LongerBy
<1>7. /\ part.from \in Nat /\ part.end \in Nat /\ part.from < part.end /\ 1 <= part.from /\ part.end <= TextEnd
      /\ p.pos < part.from /\ \A a \in DOMAIN buf : buf[a] < part.from
      /\ TextEnd = Len(text) + 1 /\ Len(text) \in Nat /\ DOMAIN text = 1 .. Len(text)
  <2>1. Stretch(part.from, part.end)
    BY <1>2, <1>4
  <2> QED
    BY <1>2, <1>4, <2>1, PlacesType, TextType DEF TextEnd
<1>8. (buf = <<>> => o = 0) /\ (buf # <<>> => o = Len(buf) + w)
  BY DEF Offset
<1> HIDE DEF more, o
<1>9. \A a \in DOMAIN more : /\ more[a] \in Nat /\ more[a] < part.end
                             /\ a > o => more[a] = part.from + (a - o) - 1
  <2> SUFFICES ASSUME NEW a \in DOMAIN more
               PROVE  more[a] \in Nat /\ more[a] < part.end /\ (a > o => more[a] = part.from + (a - o) - 1)
    OBVIOUS
  <2>1. CASE a \in DOMAIN buf
    BY <1>2, <1>6, <1>7, <2>1
  <2>2. CASE a <= o /\ more[a] = Added
    BY <1>6, <1>7, <2>2 DEF Added
  <2>3. CASE a > o /\ a - o \in 1 .. part.end - part.from
    <3>1. o + (a - o) = a
      BY <1>6
    <3>2. more[a] = part.from + (a - o) - 1
      BY <1>6, <2>3, <3>1
    <3> DEFINE i == part.from
               j == part.end
               v == more[a]
    <3>3. i \in Nat /\ j \in Nat /\ a - o \in 1 .. j - i /\ v = i + (a - o) - 1
      BY <1>7, <2>3, <3>2
    <3> HIDE DEF i, j, v
    <3>4. v \in Nat /\ v < j
      BY ONLY <3>3
    <3> QED
      BY <3>2, <3>4 DEF i, j, v
  <2> QED
    BY <1>6, <2>1, <2>2, <2>3
<1>10. more # <<>> /\ Len(more) \in DOMAIN more /\ 1 \in DOMAIN more /\ more[Len(more)] = part.end - 1
  <2>1. Len(more) > o /\ Len(more) \in Nat /\ Len(more) # 0
    BY <1>6, <1>7
  <2>2. Len(more) \in DOMAIN more /\ 1 \in DOMAIN more
    BY <1>6, <2>1
  <2>3. more[Len(more)] = part.end - 1
    <3> DEFINE i == part.from
               j == part.end
               n == Len(more)
               v == more[n]
    <3>1. i \in Nat /\ j \in Nat /\ o \in Nat /\ n = o + (j - i) /\ v = i + (n - o) - 1
      BY <1>6, <1>7, <1>9, <2>1, <2>2
    <3> HIDE DEF i, j, n, v
    <3>2. v = j - 1
      BY ONLY <3>1
    <3> QED
      BY <3>2 DEF j, n, v
  <2> QED
    BY <2>2, <2>3
<1>11. Increasing(more)
  <2> SUFFICES ASSUME NEW a \in DOMAIN more, NEW b \in DOMAIN more, a < b, more[a] # Added, more[b] # Added
               PROVE  more[a] < more[b]
    BY DEF Increasing
  <2>1. CASE b \in DOMAIN buf
    <3>1. a \in DOMAIN buf
      BY <1>2, <1>6, <2>1
    <3> QED
      BY <1>5, <1>6, <2>1, <3>1 DEF Increasing
  <2>2. CASE b \notin DOMAIN buf
    <3>1. b > o /\ more[b] = part.from + (b - o) - 1
      BY <1>6, <1>9, <2>2
    <3>2. CASE a \in DOMAIN buf
      <4>1. more[a] < part.from /\ more[a] \in Nat /\ more[b] >= part.from
        BY <1>2, <1>6, <1>7, <3>1, <3>2
      <4> QED
        BY <1>7, <1>9, <4>1
    <3>3. CASE a \notin DOMAIN buf
      <4>1. a > o /\ more[a] = part.from + (a - o) - 1
        BY <1>6, <1>9, <3>3
      <4> QED
        BY <1>6, <1>7, <3>1, <4>1
    <3> QED
      BY <3>2, <3>3
  <2> QED
    BY <2>1, <2>2
<1>11a. p.pos = p.start + o /\ p.start \in Int /\ w \in Nat
  <2>1. CASE buf = <<>>
    BY <1>2, <1>5, <1>8, <2>1
  <2>2. CASE buf # <<>>
    BY <1>2, <1>5, <1>8, <2>2
  <2> QED
    BY <2>1, <2>2
<1>12. PlaceOK(more, p.start)
  <2> DEFINE s == p.start
             q == p.pos
             i == part.from
             j == part.end
             n == Len(more)
             v == more[Len(more)]
  <2>1. /\ s \in Int /\ q = s + o /\ o \in Nat /\ i \in Nat /\ j \in Nat /\ q < i
        /\ n = o + (j - i) /\ v = j - 1 /\ (Packed => q = i - 1)
    BY <1>4, <1>5, <1>6, <1>7, <1>10, <1>11a
  <2>2. /\ more[1] # Added /\ s < more[1] /\ (Packed => s = more[1] - 1)
    <3>1. CASE buf = <<>>
      <4>1. o = 0 /\ more[1] = i + (1 - o) - 1
        BY <1>8, <1>9, <1>10, <3>1
      <4> HIDE DEF s, q, i, j
      <4>2. more[1] = i /\ i # 0
        BY <1>7, <2>1, <4>1 DEF i
      <4> QED
        BY <2>1, <4>1, <4>2 DEF Added
    <3>2. CASE buf # <<>>
      <4>1. 1 \in DOMAIN buf
        <5>1. Len(buf) # 0
          BY <1>2, <3>2, EmptySeq DEF Path
        <5> QED
          BY <1>2, <5>1
      <4>2. more[1] = buf[1] /\ PlaceOK(buf, s)
        BY <1>5, <1>6, <3>2, <4>1
      <4> QED
        BY <4>2 DEF PlaceOK
    <3> QED
      BY <3>1, <3>2
  <2>3. v # Added
    BY <1>7, <2>1 DEF Added
  <2>4. Packed => \A a \in DOMAIN more : more[a] \in {Added, s + a}
    <3> SUFFICES ASSUME Packed, NEW a \in DOMAIN more PROVE more[a] \in {Added, s + a}
      OBVIOUS
    <3>1. CASE a \in DOMAIN buf
      <4>1. buf # <<>>
        BY <3>1
      <4>2. buf[a] \in {Added, s + a}
        BY <1>5, <3>1, <4>1 DEF PlaceOK
      <4> QED
        BY <1>6, <3>1, <4>2
    <3>2. CASE a <= o /\ more[a] = Added
      BY <3>2
    <3>3. CASE a > o /\ a - o \in 1 .. part.end - part.from
      <4>1. more[a] = i + (a - o) - 1 /\ a \in Nat
        BY <1>6, <1>9, <3>3
      <4> DEFINE u == more[a]
      <4> HIDE DEF s, q, i, j, n, v, u
      <4>2. u = i + (a - o) - 1 /\ q = i - 1 /\ a \in Int
        BY <2>1, <4>1 DEF u
      <4>3. u = s + a
        BY ONLY <2>1, <4>2
      <4> QED
        BY <4>3 DEF u
    <3> QED
      BY <1>6, <3>1, <3>2, <3>3
  <2> HIDE DEF s, q, i, j, n, v
  <2>5. s + n <= v /\ (Packed => s + n = v)
    BY ONLY <2>1
  <2> QED
    BY <1>10, <2>2, <2>3, <2>4, <2>5 DEF s, n, v, PlaceOK
<1>13. SizeOK(more)
  <2>1. CASE buf = <<>>
    <3>1. \A k \in part.from .. part.end - w : ~Blanks(k, k + w)
      BY <1>4, <1>5 DEF PartsOK
    <3>2. OneParagraph(more)
      <4> SUFFICES ASSUME NEW a \in DOMAIN more, a > 1, IsBlank(more[a - 1]), IsBlank(more[a]) PROVE FALSE
        BY DEF OneParagraph
      <4>1. a - 1 \in DOMAIN more /\ o = 0 /\ a \in 1 .. part.end - part.from
        BY <1>6, <1>7, <1>8, <2>1
      <4>2. more[a] = part.from + a - 1 /\ more[a - 1] = part.from + a - 2
        <5> DEFINE i == part.from
                   v == more[a]
                   u == more[a - 1]
        <5>1. a \in Int /\ a - 1 > o /\ a > o /\ i \in Int /\ o = 0
          BY <1>6, <1>7, <4>1
        <5>2. v = i + (a - o) - 1
          BY <1>9, <5>1
        <5>3. u = i + ((a - 1) - o) - 1
          BY <1>9, <4>1, <5>1
        <5> HIDE DEF i, v, u
        <5>4. v = i + a - 1 /\ u = i + a - 2
          BY ONLY <5>1, <5>2, <5>3
        <5> QED
          BY <5>4 DEF i, v, u
      <4>3. CASE w = 1
        <5>1. part.from + a - 1 \in part.from .. part.end - 1
          BY <1>7, <4>1
        <5>2. \A j \in part.from + a - 1 .. ((part.from + a - 1) + 1) - 1 : j = part.from + a - 1
          BY <1>7, <4>1
        <5> QED
          BY <3>1, <4>2, <4>3, <5>1, <5>2 DEF Blanks
      <4>4. CASE w = 2
        <5>1. part.from + a - 2 \in part.from .. part.end - 2
          BY <1>7, <4>1
        <5>2. \A j \in part.from + a - 2 .. ((part.from + a - 2) + 2) - 1 :
                j = part.from + a - 2 \/ j = part.from + a - 1
          <6>1. part.from + a - 2 \in Int
            BY <1>7, <4>1
          <6>2. \A m \in Int : \A j \in m .. (m + 2) - 1 : j = m \/ j = m + 1
            OBVIOUS
          <6>3. part.from \in Int /\ a \in Int
            BY <1>7, <4>1
          <6>4. (part.from + a - 2) + 1 = part.from + a - 1
            BY ONLY <6>3
          <6> QED
            BY ONLY <6>1, <6>2, <6>4
        <5> QED
          BY <3>1, <4>2, <4>4, <5>1, <5>2 DEF Blanks
      <4> QED
        BY <1>2, <4>3, <4>4
    <3> QED
      BY <1>5, <3>2 DEF SizeOK
  <2>2. CASE buf # <<>>
    BY <1>3, <2>2 DEF SizeOK
  <2> QED
    BY <2>1, <2>2
<1>14. pos \in Int /\ pos < part.end + w
  <2> DEFINE i == part.from
             j == part.end
             q == p.pos
  <2>1. i \in Nat /\ j \in Nat /\ i < j /\ q \in Int /\ q < i /\ w \in Int /\ pos = q + (j - i) + w
    BY <1>2, <1>7
  <2> HIDE DEF i, j, q, pos
  <2>2. pos \in Int /\ pos < j + w
    BY ONLY <2>1
  <2> QED
    BY <2>2 DEF j
<1>15. \A i \in DOMAIN rest : /\ pos < rest[i].from /\ \A a \in DOMAIN more : more[a] < rest[i].from
  <2> SUFFICES ASSUME NEW i \in DOMAIN rest
               PROVE  pos < rest[i].from /\ \A a \in DOMAIN more : more[a] < rest[i].from
    OBVIOUS
  <2>1. part.end + w <= rest[i].from /\ rest[i].from \in Nat
    <3>1. i + 1 \in DOMAIN parts /\ 1 < i + 1 /\ rest[i] = parts[i + 1]
      BY <1>2, <1>4
    <3> QED
      BY <1>2, <1>4, <1>5, <3>1 DEF PartsOK
  <2> DEFINE front == rest[i].from
             j == part.end
  <2>2. /\ front \in Nat /\ j \in Nat /\ w \in Nat /\ j + w <= front /\ pos \in Int /\ pos < j + w
        /\ \A a \in DOMAIN more : more[a] \in Nat /\ more[a] < j
    BY <1>2, <1>7, <1>9, <1>14, <2>1
  <2> HIDE DEF front, j, pos
  <2>3. pos < front /\ \A a \in DOMAIN more : more[a] < front
    BY ONLY <2>2
  <2> QED
    BY <2>3 DEF front
<1>16. PartsOK(rest, w)
  <2>1. \A i \in DOMAIN rest :
          /\ Stretch(rest[i].from, rest[i].end) /\ rest[i].from < rest[i].end
          /\ \A k \in rest[i].from .. rest[i].end - w : ~Blanks(k, k + w)
    BY <1>4, <1>5 DEF PartsOK
  <2>2. \A i, j \in DOMAIN rest : i < j => rest[i].end + w <= rest[j].from
    <3> SUFFICES ASSUME NEW i \in DOMAIN rest, NEW j \in DOMAIN rest, i < j
                 PROVE  rest[i].end + w <= rest[j].from
      OBVIOUS
    <3>1. i + 1 < j + 1
      BY <1>2, <1>4
    <3> QED
      BY <1>4, <1>5, <3>1 DEF PartsOK
  <2> QED
    BY <2>1, <2>2 DEF PartsOK
<1>17. Packed => /\ Adjacent(rest, w)
                 /\ rest # <<>> => pos = rest[1].from - 1
  <2> SUFFICES ASSUME Packed PROVE Adjacent(rest, w) /\ (rest # <<>> => pos = rest[1].from - 1)
    OBVIOUS
  <2>1. Adjacent(parts, w) /\ p.pos = part.from - 1
    BY <1>4, <1>5
  <2>2. Adjacent(rest, w)
    <3> SUFFICES ASSUME NEW i \in DOMAIN rest, i > 1 PROVE rest[i].from = rest[i - 1].end + w
      BY DEF Adjacent
    <3>1. i - 1 \in DOMAIN rest /\ (i - 1) + 1 = i /\ i + 1 \in DOMAIN parts /\ i + 1 > 1 /\ (i + 1) - 1 = i
      BY <1>2, <1>4
    <3> QED
      BY <1>4, <2>1, <3>1 DEF Adjacent
  <2>3. rest # <<>> => pos = rest[1].from - 1
    <3> SUFFICES ASSUME rest # <<>> PROVE pos = rest[1].from - 1
      OBVIOUS
    <3>1. 1 \in DOMAIN rest
      <4>1. Len(rest) # 0
        BY <1>4, EmptySeq
      <4> QED
        BY <1>2, <1>4, <4>1
    <3>2. rest[1] = parts[2] /\ 2 \in DOMAIN parts
      <4>1. rest[1] = parts[1 + 1] /\ 1 + 1 \in DOMAIN parts
        BY <1>4, <3>1
      <4> QED
        BY ONLY <4>1
    <3>3. parts[2].from = part.end + w
      <4>1. parts[2].from = parts[2 - 1].end + w
        BY <2>1, <3>2 DEF Adjacent
      <4>2. parts[2 - 1] = parts[1]
        BY ONLY TRUE
      <4> QED
        BY <1>4, <4>1, <4>2
    <3> QED
      BY <1>2, <1>7, <2>1, <3>2, <3>3
  <2> QED
    BY <2>2, <2>3
<1> HIDE DEF pos
<1>18. GatherOK(g)
  <2>1. g.parts = rest /\ g.width = w /\ g.buf = more /\ g.start = p.start /\ g.pos = pos
    BY DEF Gather
  <2>2. Packed => (rest # <<>> => pos = more[Len(more)] + w)
    <3> SUFFICES ASSUME Packed, rest # <<>> PROVE pos = more[Len(more)] + w
      OBVIOUS
    <3>1. p.pos = part.from - 1
      BY <1>4, <1>5
    <3>2. /\ part.from \in Nat /\ part.end \in Nat /\ w \in Nat /\ more[Len(more)] = part.end - 1
          /\ pos = p.pos + (part.end - part.from) + w
      BY <1>2, <1>7, <1>10 DEF pos
    <3> QED
      BY ONLY <3>1, <3>2
  <2>3. pos = p.start + Len(more) + w
    <3> DEFINE i == part.from
               j == part.end
               n == Len(more)
               s == p.start
               q == p.pos
    <3>1. /\ i \in Nat /\ j \in Nat /\ o \in Nat /\ w \in Nat /\ s \in Int /\ q = s + o
          /\ n = o + (j - i) /\ pos = q + (j - i) + w
      BY <1>6, <1>7, <1>11a DEF pos
    <3> HIDE DEF i, j, n, s, q
    <3>2. pos = s + n + w
      BY ONLY <3>1
    <3> QED
      BY <3>2 DEF n, s
  <2> HIDE DEF g
  <2> QED
    BY <1>5, <1>10, <1>11, <1>12, <1>13, <1>15, <1>16, <1>17, <2>1, <2>2, <2>3 DEF GatherOK
<1>19. /\ g \in Call /\ CallOK(g) /\ Owes(g) = Reals(p.path)
       /\ Held(g) = {k \in DOMAIN text : \/ \E a \in DOMAIN more : more[a] = k
                                         \/ \E i \in DOMAIN rest : rest[i].from <= k /\ k < rest[i].end}
  <2> DEFINE start == p.start
  <2>1. /\ g = Gather(p.path, w, rest, more, start, pos) /\ p.path \in Trail /\ w \in {1, 2}
        /\ rest \in Seq(Span) /\ more \in Path /\ start \in Int /\ pos \in Int /\ GatherOK(g) /\ more # <<>>
    BY <1>2, <1>4, <1>6, <1>10, <1>14, <1>18
  <2> HIDE DEF g, start, Path, Trail, Span, Call
  <2> QED
    BY <2>1, GatherCall
<1> HIDE DEF g
<1>20. Held(g) = Held(p)
  <2>1. ASSUME NEW k \in Held(g) PROVE k \in Held(p)
    <3>1. k \in DOMAIN text /\ k \in Nat /\ k # Added
      BY <1>7, <1>19 DEF Added
    <3>2. CASE \E a \in DOMAIN more : more[a] = k
      <4>1. PICK a \in DOMAIN more : more[a] = k
        BY <3>2
      <4>2. CASE a \in DOMAIN buf
        BY <1>2, <1>6, <3>1, <4>1, <4>2
      <4>3. CASE a > o
        <5>1. parts[1].from <= k /\ k < parts[1].end
          <6>1. a \in Nat /\ o \in Nat /\ a > o /\ k = part.from + (a - o) - 1 /\ k < part.end /\ part.from \in Nat
            BY <1>6, <1>7, <1>9, <4>1, <4>3
          <6>2. part.from <= k
            BY ONLY <6>1
          <6> QED
            BY <1>4, <6>1, <6>2
        <5> QED
          BY <1>2, <1>4, <3>1, <5>1
      <4> QED
        BY <1>6, <3>1, <4>1, <4>2, <4>3
    <3>3. CASE \E i \in DOMAIN rest : rest[i].from <= k /\ k < rest[i].end
      BY <1>2, <1>4, <3>1, <3>3
    <3> QED
      BY <1>19, <3>2, <3>3
  <2>2. ASSUME NEW k \in Held(p) PROVE k \in Held(g)
    <3>1. k \in DOMAIN text /\ k \in Nat
      BY <1>2, <1>7
    <3>2. CASE \E a \in DOMAIN buf : buf[a] = k
      BY <1>6, <1>19, <3>1, <3>2
    <3>3. ASSUME NEW i \in DOMAIN parts, parts[i].from <= k, k < parts[i].end PROVE k \in Held(g)
      <4>1. CASE i = 1
        <5>1. k - part.from + 1 \in 1 .. part.end - part.from /\ part.from + (k - part.from + 1) - 1 = k
          BY <1>4, <1>7, <3>1, <3>3, <4>1
        <5>2. \E a \in DOMAIN more : more[a] = k
          BY <1>6, <5>1
        <5> QED
          BY <1>19, <3>1, <5>2
      <4>2. CASE i # 1
        <5>1. i - 1 \in DOMAIN rest /\ (i - 1) + 1 = i
          BY <1>2, <1>4, <4>2
        <5>2. rest[i - 1] = parts[i]
          BY <1>4, <5>1
        <5> QED
          BY <1>19, <3>1, <3>3, <5>1, <5>2
      <4> QED
        BY <4>1, <4>2
    <3> QED
      BY <1>2, <3>2, <3>3
  <2> QED
    BY <2>1, <2>2
<1>21. Step(p, <<g>>, {})
  BY <1>2, <1>19, <1>20, OneCall
<1> QED
  BY <1>1, <1>21, ReplaceStep DEF p, g
-----------------------------------------------------------------------------------
(* The semantic chunker: what its calls hold.                                      *)
GoodCall(g, from, end) == g \in Call /\ CallOK(g) /\ Held(g) = from .. end - 1 /\ Owes(g) = {}

LEMMA SemanticCall ==
  ASSUME NEW from \in Nat, NEW end \in Nat, NEW start \in Int, NEW depth \in Nat,
         NEW g, g = Semantic(from, end, start, depth), SemanticOK(g)
  PROVE  GoodCall(g, from, end)
<1>1. /\ g = [kind |-> "semantic", from |-> from, end |-> end, start |-> start, depth |-> depth]
      /\ g.kind = "semantic" /\ g.from = from /\ g.end = end
  BY DEF Semantic
<1>2. g \in Call
  BY <1>1 DEF Call
<1> QED
  BY <1>1, <1>2 DEF GoodCall, CallOK, Held, Owes, Emits

LEMMA SentencesCall ==
  ASSUME NEW p, p.from \in Nat, p.end \in Nat, p.start \in Int, p.depth \in Nat, NEW marks \in SUBSET Nat,
         NEW g, g = Sentences(p, marks), SentencesOK(g)
  PROVE  g \in Call /\ CallOK(g) /\ Held(g) = p.from .. p.end - 1 /\ Owes(g) = {}
<1>1. /\ g = [kind |-> "sentences", from |-> p.from, end |-> p.end, start |-> p.start, depth |-> p.depth,
              marks |-> marks]
      /\ g.kind = "sentences" /\ g.from = p.from /\ g.end = p.end
  BY DEF Sentences
<1>2. g \in Call
  BY <1>1 DEF Call
<1> QED
  BY <1>1, <1>2 DEF CallOK, Held, Owes, Emits

LEMMA GroupsCall ==
  ASSUME NEW marks \in SUBSET Nat, NEW cut \in SUBSET Nat, NEW start \in Int, NEW depth \in Nat, NEW next \in Nat,
         NEW g, g = Groups(marks, cut, start, depth, next), GroupsOK(g)
  PROVE  GoodCall(g, next, Max(marks))
<1>1. /\ g = [kind |-> "groups", marks |-> marks, cut |-> cut, start |-> start, depth |-> depth, next |-> next]
      /\ g.kind = "groups" /\ g.marks = marks /\ g.next = next
  BY DEF Groups
<1>2. g \in Call
  BY <1>1 DEF Call
<1> QED
  BY <1>1, <1>2 DEF GoodCall, CallOK, Held, Owes, Emits

(* A text is skipped, taken whole or divided into sentences.                       *)
LEMMA SemanticSplitInv ==
  ASSUME IInv, SemanticSplit
  PROVE  IInv'
<1> DEFINE p == Head(work)
           c == MakeChunk(<<>>, Places(p.from, p.end), p.start)
           g == Sentences(p, {p.from})
<1>1. /\ Todo("semantic") /\ text \in Texts /\ p \in Call /\ p.kind = "semantic" /\ SemanticOK(p)
      /\ p.from \in Nat /\ p.end \in Nat /\ p.start \in Int /\ p.depth \in Nat
  <2>1. Todo("semantic")
    BY DEF SemanticSplit
  <2> QED
    BY <2>1, FirstCall, CallType DEF CallOK
<1>2. /\ strategy = "semantic" /\ Stretch(p.from, p.end) /\ p.start = p.from - 1 /\ p.from <= p.end
      /\ p.depth + (p.end - p.from) <= Len(text) /\ (Packed => StartsSolid(p.from, p.end))
  BY <1>1, PlacesType DEF SemanticOK
<1>3. Held(p) = p.from .. p.end - 1 /\ Owes(p) = {}
  BY <1>1 DEF Held, Owes, Emits
<1>4. CASE Blanks(p.from, p.end) /\ Replace(<<>>)
  <2>1. \A k \in Held(p) \cup Owes(p) : IsBlank(k)
    BY <1>3, <1>4 DEF Blanks
  <2>2. Step(p, <<>>, {})
    BY <2>1, NoCall DEF Covered
  <2> QED
    BY <1>1, <1>4, <2>2, ReplaceStep
<1>5. CASE ~Blanks(p.from, p.end) /\ Tokens(Places(p.from, p.end)) <= ChunkSize /\ Emit(c, <<>>)
  <2>1. GoodChunk(c, p, <<>>) /\ \A k \in Reals(<<>>) \cup p.from .. p.end - 1 : Written({c}, k)
    <3>1. p.from < p.end /\ p.start < p.from /\ (Packed => p.start = p.from - 1) /\ <<>> \in Trail
      BY <1>1, <1>2, <1>5, EmptyTrail DEF Blanks
    <3>2. SizeOK(Places(p.from, p.end)) /\ p.from .. p.end - 1 \subseteq Held(p)
      BY <1>3, <1>5 DEF SizeOK
    <3>3. \A i \in DOMAIN <<>> : \A q \in Held(<<>>[i]) : q \in Int /\ p.end <= q
      OBVIOUS
    <3>4. c = MakeChunk(<<>>, Places(p.from, p.end), p.start)
      OBVIOUS
    <3> HIDE DEF c, p, Path, Trail, Stretch
    <3> QED
      BY <1>1, <1>2, <3>1, <3>2, <3>3, <3>4, StretchChunk
  <2> HIDE DEF c
  <2>2. Step(p, <<>>, {c})
    BY <1>3, <2>1, NoCall DEF Covered
  <2> QED
    BY <1>1, <1>5, <2>2, EmitStep
<1>6. CASE Replace(<<g>>)
  <2>1. SentencesOK(g)
    <3>1. /\ g.from = p.from /\ g.end = p.end /\ g.start = p.start /\ g.depth = p.depth /\ g.marks = {p.from}
      BY DEF Sentences
    <3>2. p.from \in p.from .. p.end
      BY <1>1, <1>2
    <3> HIDE DEF g, p
    <3> QED
      BY <1>1, <1>2, <3>1, <3>2 DEF SentencesOK, SemanticOK, StartsSolid
  <2>2. g \in Call /\ CallOK(g) /\ Held(g) = p.from .. p.end - 1 /\ Owes(g) = {}
    <3>1. g = Sentences(p, {p.from}) /\ {p.from} \in SUBSET Nat
      BY <1>1
    <3> HIDE DEF g, p, Call
    <3> QED
      BY <1>1, <2>1, <3>1, SentencesCall
  <2> HIDE DEF g, p
  <2>3. Step(p, <<g>>, {})
    BY <1>3, <2>2, OneCall
  <2> QED
    BY <1>1, <1>6, <2>3, ReplaceStep DEF p
<1> QED
  BY <1>4, <1>5, <1>6 DEF SemanticSplit

(* What the search for sentences knows.                                            *)
LEMMA SentencesType ==
  ASSUME IInv, Todo("sentences"), NEW p, p = Head(work)
  PROVE  /\ text \in Texts /\ p \in Call /\ p.kind = "sentences" /\ SentencesOK(p) /\ SemanticOK(p)
         /\ strategy = "semantic"
         /\ p.from \in Nat /\ p.end \in Nat /\ p.start \in Int /\ p.depth \in Nat
         /\ Stretch(p.from, p.end) /\ 1 <= p.from /\ p.from <= p.end /\ p.end <= Len(text) + 1 /\ p.start = p.from - 1
         /\ Len(text) \in Nat /\ DOMAIN text = 1 .. Len(text)
         /\ p.marks \subseteq p.from .. p.end /\ p.from \in p.marks
         /\ Max(p.marks) \in p.marks /\ Max(p.marks) \in p.from .. p.end /\ \A m \in p.marks : m <= Max(p.marks)
         /\ Held(p) = p.from .. p.end - 1 /\ Owes(p) = {}
<1>1. /\ text \in Texts /\ p \in Call /\ p.kind = "sentences" /\ SentencesOK(p)
  BY FirstCall DEF CallOK
<1>2. p.from \in Nat /\ p.end \in Nat /\ p.start \in Int /\ p.depth \in Nat
  BY <1>1, CallType
<1>3. /\ SemanticOK(p) /\ strategy = "semantic" /\ Stretch(p.from, p.end) /\ p.start = p.from - 1
      /\ p.marks \subseteq p.from .. p.end /\ p.from \in p.marks
  BY <1>1 DEF SentencesOK, SemanticOK
<1>4. 1 <= p.from /\ p.from <= p.end /\ p.end <= Len(text) + 1 /\ Len(text) \in Nat /\ DOMAIN text = 1 .. Len(text)
  BY <1>1, <1>3, PlacesType, TextType DEF TextEnd
<1>5. Max(p.marks) \in p.marks /\ \A m \in p.marks : m <= Max(p.marks)
  <2>1. p.marks \subseteq 0 .. p.end /\ p.marks # {}
    BY <1>2, <1>3
  <2> QED
    BY <1>2, <2>1, GreatestOf
<1>6. Held(p) = p.from .. p.end - 1 /\ Owes(p) = {}
  BY <1>1 DEF Held, Owes, Emits
<1> QED
  BY <1>1, <1>2, <1>3, <1>4, <1>5, <1>6

(* One more mark behind the others.                                                *)
LEMMA MarkStep ==
  ASSUME IInv, Todo("sentences"), NEW p, p = Head(work), NEW m \in p.from .. p.end,
         Packed => (m < p.end => ~IsBlank(m)), NEW g, g = Sentences(p, p.marks \cup {m}), Replace(<<g>>)
  PROVE  IInv'
<1>1. /\ text \in Texts /\ SentencesOK(p) /\ SemanticOK(p)
      /\ p.from \in Nat /\ p.end \in Nat /\ p.start \in Int /\ p.depth \in Nat
      /\ p.marks \subseteq p.from .. p.end /\ p.from \in p.marks
      /\ Held(p) = p.from .. p.end - 1 /\ Owes(p) = {}
  BY SentencesType
<1> DEFINE marks == p.marks \cup {m}
<1>2. SentencesOK(g)
  <2>1. /\ g.from = p.from /\ g.end = p.end /\ g.start = p.start /\ g.depth = p.depth /\ g.marks = marks
    BY DEF Sentences
  <2>2. SemanticOK(g)
    BY <1>1, <2>1 DEF SemanticOK
  <2> QED
    BY <1>1, <2>1, <2>2 DEF SentencesOK
<1>3. g \in Call /\ CallOK(g) /\ Held(g) = p.from .. p.end - 1 /\ Owes(g) = {}
  <2>1. marks \in SUBSET Nat /\ g = Sentences(p, marks)
    BY <1>1
  <2> HIDE DEF marks, Call
  <2> QED
    BY <1>1, <1>2, <2>1, SentencesCall
<1>4. Step(p, <<g>>, {})
  BY <1>1, <1>3, OneCall
<1> QED
  BY <1>4, ReplaceStep

(* The next sentence ends at a mark that does not begin with a blank, in a         *)
(* packed text.                                                                    *)
LEMMA NextSentenceInv ==
  ASSUME IInv, NextSentence
  PROVE  IInv'
<1> DEFINE p == Head(work)
           last == Min(SentenceEnds(p))
           m == IF BlankLine(p, last) THEN last + 2 ELSE last + 1
<1>1. Todo("sentences") /\ SentenceEnds(p) # {} /\ Replace(<<Sentences(p, p.marks \cup {m})>>)
  BY DEF NextSentence
<1>2. /\ strategy = "semantic" /\ p.from \in Nat /\ p.end \in Nat /\ 1 <= p.from /\ p.end <= Len(text) + 1
      /\ Len(text) \in Nat /\ DOMAIN text = 1 .. Len(text) /\ Max(p.marks) \in p.from .. p.end
  BY <1>1, SentencesType
<1>3. /\ last \in Max(p.marks) .. p.end - 1
      /\ text[last] = "stop" \/ BlankLine(p, last) \/ IsBlank(last)
  <2>1. SentenceEnds(p) \subseteq Nat
    BY <1>2 DEF SentenceEnds
  <2>2. last \in SentenceEnds(p)
    BY <1>1, <2>1, LeastOf
  <2> QED
    BY <2>2 DEF SentenceEnds
<1> HIDE DEF last, p
<1>4. last \in DOMAIN text /\ last \in Nat /\ p.from <= last /\ last < p.end /\ last # Added
  BY <1>2, <1>3 DEF Added
<1>5. m \in p.from .. p.end
  BY <1>2, <1>4 DEF BlankLine
<1>6. ASSUME Packed, m < p.end PROVE ~IsBlank(m)
  <2>1. CASE BlankLine(p, last)
    <3>1. m = last + 2 /\ IsBlank(last) /\ IsBlank(last + 1)
      BY <2>1 DEF BlankLine
    <3>2. text[last] = "newline" /\ ~(last + 2 > Len(text))
      BY <1>2, <1>4, <1>6, <3>1 DEF IsBlank
    <3> QED
      BY <1>4, <1>6, <3>1, <3>2 DEF Packed
  <2>2. CASE ~BlankLine(p, last) /\ text[last] = "stop"
    <3>1. m = last + 1 /\ last + 1 \in DOMAIN text /\ last + 1 # Added /\ (last + 1) - 1 = last
      BY <1>2, <1>4, <1>6, <2>2 DEF Added
    <3> HIDE DEF m
    <3> QED
      BY <1>2, <1>6, <2>2, <3>1 DEF Packed, IsBlank
  <2>3. CASE ~BlankLine(p, last) /\ IsBlank(last)
    <3>1. m = last + 1 /\ last + 1 < p.end
      BY <1>6, <2>3
    <3> QED
      BY <2>3, <3>1 DEF BlankLine
  <2> QED
    BY <1>3, <2>1, <2>2, <2>3
<1> HIDE DEF m
<1> QED
  BY <1>1, <1>5, <1>6, MarkStep DEF p

(* What is left is a sentence, without the blanks at the end.                      *)
LEMMA LastSentenceInv ==
  ASSUME IInv, LastSentence
  PROVE  IInv'
<1> DEFINE p == Head(work)
           last == Max(Solid(p))
           m == last + 1
<1>1. /\ Todo("sentences") /\ SentenceEnds(p) = {} /\ Solid(p) # {}
      /\ Replace(<<Sentences(p, p.marks \cup {m})>>)
  BY DEF LastSentence
<1>2. p.from \in Nat /\ p.end \in Nat /\ Max(p.marks) \in p.from .. p.end
  BY <1>1, SentencesType
<1>3. last \in Max(p.marks) .. p.end - 1
  <2>1. Solid(p) \subseteq 0 .. p.end
    BY <1>2 DEF Solid
  <2>2. last \in Solid(p)
    BY <1>1, <1>2, <2>1, GreatestOf
  <2> QED
    BY <2>2 DEF Solid
<1> HIDE DEF last, p
<1>4. m \in p.from .. p.end /\ m > Max(p.marks)
  BY <1>2, <1>3
<1>5. m < p.end => ~IsBlank(m)
  <2> SUFFICES ASSUME m < p.end, IsBlank(m) PROVE FALSE
    OBVIOUS
  <2>1. m \in Max(p.marks) .. p.end - 1
    BY <1>2, <1>4
  <2> HIDE DEF m
  <2> QED
    BY <1>1, <1>4, <2>1 DEF SentenceEnds
<1> HIDE DEF m
<1> QED
  BY <1>1, <1>4, <1>5, MarkStep DEF p

(* The sentences are grouped, or the text is left to splitIntoChunks.              *)
LEMMA FindBreakpointsInv ==
  ASSUME IInv, FindBreakpoints
  PROVE  IInv'
<1> DEFINE p == Head(work)
           marks == p.marks
           g == Piece("body", p.from, p.end, <<>>, p.start)
<1>1. /\ Todo("sentences") /\ Solid(p) = {}
      /\ \/ Replace(<<g>>)
         \/ \E cut \in Breakpoints(marks) :
              Useful(cut) /\ Replace(<<Groups(marks, cut, p.start, p.depth, p.from)>>)
  BY DEF FindBreakpoints
<1>2. /\ text \in Texts /\ SentencesOK(p) /\ SemanticOK(p) /\ strategy = "semantic"
      /\ p.from \in Nat /\ p.end \in Nat /\ p.start \in Int /\ p.depth \in Nat
      /\ Stretch(p.from, p.end) /\ 1 <= p.from /\ p.from <= p.end /\ p.end <= Len(text) + 1 /\ p.start = p.from - 1
      /\ Len(text) \in Nat /\ marks \subseteq p.from .. p.end /\ p.from \in marks
      /\ Max(marks) \in marks /\ Max(marks) \in p.from .. p.end /\ \A m \in marks : m <= Max(marks)
      /\ Held(p) = p.from .. p.end - 1 /\ Owes(p) = {}
  BY <1>1, SentencesType
<1>3. /\ p.depth + (p.end - p.from) <= Len(text) /\ (Packed => StartsSolid(p.from, p.end))
      /\ Packed => \A m \in marks : m < p.end => ~IsBlank(m)
  BY <1>2 DEF SentencesOK, SemanticOK
<1>4. Min(marks) = p.from
  <2>1. marks \subseteq Nat /\ marks # {}
    BY <1>2
  <2>2. Min(marks) \in marks /\ \A j \in marks : Min(marks) <= j
    BY <2>1, LeastOf
  <2> HIDE DEF marks
  <2>3. Min(marks) <= p.from /\ Min(marks) \in p.from .. p.end
    BY <1>2, <2>2
  <2> QED
    BY <1>2, <2>3
<1> HIDE DEF marks
<1>5. CASE Replace(<<g>>)
  <2>1. g \in Call /\ CallOK(g) /\ Held(g) = p.from .. p.end - 1
    <3>1. g = Piece("body", p.from, p.end, <<>>, p.start) /\ <<>> \in Trail
      BY EmptyTrail
    <3>2. p.start < p.from /\ (Packed => p.start = p.from - 1 /\ StartsSolid(p.from, p.end))
      BY <1>2, <1>3
    <3> HIDE DEF g, p, Path, Trail, Call, Stretch
    <3> QED
      BY <1>2, <3>1, <3>2, BodyCall
  <2> HIDE DEF g, p
  <2>2. Step(p, <<g>>, {})
    BY <1>2, <2>1, OneCall
  <2> QED
    BY <1>1, <1>5, <2>2, ReplaceStep DEF p
<1>6. ASSUME NEW cut \in Breakpoints(marks), Useful(cut),
             NEW h, h = Groups(marks, cut, p.start, p.depth, p.from), Replace(<<h>>)
      PROVE  IInv'
  <2>1. cut \subseteq marks \ {Min(marks), Max(marks)} /\ cut # {}
    BY <1>6 DEF Breakpoints, Useful
  <2> HIDE DEF p
  <2>2. GroupsOK(h)
    <3>1. /\ h.marks = marks /\ h.cut = cut /\ h.start = p.start /\ h.depth = p.depth /\ h.next = p.from
      BY <1>6 DEF Groups
    <3>2. marks \subseteq 1 .. TextEnd
      BY <1>2, TextType DEF TextEnd
    <3>3. p.depth + (Max(marks) - Min(marks)) <= Len(text)
      BY <1>2, <1>3, <1>4
    <3>4. Packed => \A m \in marks : m < Max(marks) => ~IsBlank(m)
      BY <1>2, <1>3
    <3> QED
      BY <1>2, <1>4, <2>1, <3>1, <3>2, <3>3, <3>4 DEF GroupsOK
  <2>3. h \in Call /\ CallOK(h) /\ Held(h) = p.from .. Max(marks) - 1
    <3> DEFINE start == p.start
               depth == p.depth
               from == p.from
    <3>1. /\ marks \in SUBSET Nat /\ cut \in SUBSET Nat /\ start \in Int /\ depth \in Nat /\ from \in Nat
          /\ h = Groups(marks, cut, start, depth, from) /\ GroupsOK(h)
      BY <1>2, <1>6, <2>1, <2>2
    <3> HIDE DEF start, depth, from
    <3>2. GoodCall(h, from, Max(marks))
      BY ONLY <3>1, GroupsCall
    <3> QED
      BY <3>2 DEF GoodCall, from
  <2>4. Step(p, <<h>>, {})
    <3>1. Held(h) \subseteq Held(p)
      BY <1>2, <2>3
    <3>2. \A k \in Held(p) : IsBlank(k) \/ k \in Held(h)
      <4> SUFFICES ASSUME NEW k \in Held(p), k \notin Held(h) PROVE IsBlank(k)
        OBVIOUS
      <4>1. k \in Max(marks) .. p.end - 1
        BY <1>2, <2>3
      <4> QED
        BY <1>1, <4>1 DEF Solid, marks
    <3> QED
      BY <1>2, <2>3, <3>1, <3>2, OneCall DEF Covered
  <2> QED
    BY <1>1, <1>6, <2>4, ReplaceStep DEF p
<1> QED
  BY <1>1, <1>5, <1>6

(* A group is a chunk, or split again, and is shorter than the text it is a part   *)
(* of.                                                                             *)
LEMMA BuildChunkInv ==
  ASSUME IInv, BuildChunk
  PROVE  IInv'
<1> DEFINE p == Head(work)
           marks == p.marks
           next == p.next
           top == Max(marks)
           low == Min(marks)
           end == Min({c \in p.cut : c > next} \cup {top})
           later == Groups(marks, p.cut, p.start, p.depth, end)
           start == StartOf(p)
           c == MakeChunk(<<>>, Places(next, end), start)
           g == Semantic(next, end, start, p.depth + 1)
           h == Piece("body", next, end, <<>>, start)
<1>1. Todo("groups") /\ text \in Texts /\ p \in Call /\ p.kind = "groups" /\ GroupsOK(p)
  <2>1. Todo("groups")
    BY DEF BuildChunk
  <2> QED
    BY <2>1, FirstCall DEF CallOK
<1>2. /\ marks \in SUBSET Nat /\ p.cut \in SUBSET Nat /\ p.start \in Int /\ p.depth \in Nat /\ next \in Nat
  BY <1>1, CallType
<1>3. /\ strategy = "semantic" /\ marks \subseteq 1 .. TextEnd /\ marks # {}
      /\ p.cut \subseteq marks \ {low, top} /\ p.cut # {}
      /\ next \in marks /\ p.start = low - 1 /\ p.depth + (top - low) <= Len(text)
      /\ Packed => \A m \in marks : m < top => ~IsBlank(m)
  BY <1>1 DEF GroupsOK
<1>4. /\ low \in marks /\ top \in marks /\ \A m \in marks : low <= m /\ m <= top
      /\ low \in Nat /\ top \in Nat /\ 1 <= low /\ top <= TextEnd /\ TextEnd = Len(text) + 1 /\ Len(text) \in Nat
  <2>1. low \in marks /\ \A m \in marks : low <= m
    BY <1>2, <1>3, LeastOf
  <2>2. TextEnd = Len(text) + 1 /\ Len(text) \in Nat
    BY <1>1, TextType DEF TextEnd
  <2>3. marks \subseteq 0 .. TextEnd /\ TextEnd \in Nat
    BY <1>3, <2>2
  <2>4. top \in marks /\ \A m \in marks : m <= top
    BY <1>3, <2>3, GreatestOf
  <2> QED
    BY <1>2, <1>3, <2>1, <2>2, <2>4
<1>5. next < top => /\ end \in marks /\ next < end /\ end <= top
                    /\ \A j \in p.cut : j > next => end <= j
  <2> DEFINE T == {j \in p.cut : j > next} \cup {top}
  <2>1. T \subseteq Nat /\ T # {} /\ T \subseteq marks
    BY <1>2, <1>3, <1>4
  <2>2. end \in T /\ \A j \in T : end <= j
    BY <2>1, LeastOf
  <2> QED
    BY <2>1, <2>2
<1>6. start = next - 1
  <2>1. start = (low - 1) + (next - low)
    BY <1>3 DEF StartOf
  <2> HIDE DEF start
  <2> QED
    BY <1>2, <1>4, <2>1
<1>7. Held(p) = next .. top - 1 /\ Owes(p) = {}
  BY <1>1 DEF Held, Owes, Emits
<1> HIDE DEF start, end, low, top
<1>8. CASE next = top /\ Replace(<<>>)
  <2>1. Held(p) \cup Owes(p) = {}
    BY <1>2, <1>7, <1>8
  <2>2. Step(p, <<>>, {})
    BY <2>1, NoCall
  <2> QED
    BY <1>1, <1>8, <2>2, ReplaceStep
<1>9. ASSUME next # top
      PROVE  /\ end \in marks /\ next < end /\ end <= top /\ end \in Nat
             /\ Stretch(next, end) /\ start \in Int /\ start < next
             /\ Packed => start = next - 1 /\ StartsSolid(next, end)
             /\ \A j \in p.cut : j > next => end <= j
  <2>1. next < top
    BY <1>2, <1>3, <1>4, <1>9
  <2>2. /\ end \in marks /\ next < end /\ end <= top /\ \A j \in p.cut : j > next => end <= j
    BY <1>5, <2>1
  <2>3. end \in Nat /\ start \in Int /\ start < next
    BY <1>2, <1>6, <2>2
  <2>4. Stretch(next, end)
    BY <1>2, <1>3, <1>4, <2>2, <2>3 DEF Stretch
  <2>5. Packed => start = next - 1 /\ StartsSolid(next, end)
    BY <1>3, <1>6, <2>1 DEF StartsSolid
  <2> QED
    BY <2>2, <2>3, <2>4, <2>5
<1>10. ASSUME next # top
       PROVE  later \in Call /\ CallOK(later) /\ Held(later) = end .. top - 1
  <2>1. GroupsOK(later)
    <3>1. /\ later.marks = marks /\ later.cut = p.cut /\ later.start = p.start /\ later.depth = p.depth
          /\ later.next = end
      BY DEF Groups
    <3>2. end \in marks
      BY <1>9, <1>10
    <3> HIDE DEF later, p, marks
    <3> QED
      BY <1>3, <3>1, <3>2 DEF GroupsOK, low, top
  <2> DEFINE from == p.start
             depth == p.depth
             cut == p.cut
  <2>2. /\ marks \in SUBSET Nat /\ cut \in SUBSET Nat /\ from \in Int /\ depth \in Nat /\ end \in Nat
        /\ later = Groups(marks, cut, from, depth, end) /\ GroupsOK(later)
    BY <1>2, <1>9, <1>10, <2>1
  <2> HIDE DEF later, from, depth, cut, marks
  <2>3. GoodCall(later, end, Max(marks))
    BY ONLY <2>2, GroupsCall
  <2> QED
    BY <2>3 DEF GoodCall, top
<1> HIDE DEF later
<1>11. CASE next # top /\ Tokens(Places(next, end)) <= ChunkSize /\ Emit(c, <<later>>)
  <2>1. GoodChunk(c, p, <<later>>) /\ \A k \in Reals(<<>>) \cup next .. end - 1 : Written({c}, k)
    <3>1. c = MakeChunk(<<>>, Places(next, end), start) /\ <<>> \in Trail
      BY EmptyTrail
    <3>2. SizeOK(Places(next, end))
      BY <1>11 DEF SizeOK
    <3>3. next .. end - 1 \subseteq Held(p)
      BY <1>2, <1>4, <1>7, <1>9, <1>11
    <3>4. \A i \in DOMAIN <<later>> : \A q \in Held(<<later>>[i]) : q \in Int /\ end <= q
      <4>1. Held(later) = end .. top - 1 /\ end \in Nat /\ top \in Nat
        BY <1>4, <1>9, <1>10, <1>11
      <4>2. \A q \in Held(later) : q \in Int /\ end <= q
        BY ONLY <4>1
      <4>3. DOMAIN <<later>> = {1} /\ <<later>>[1] = later
        OBVIOUS
      <4> QED
        BY ONLY <4>2, <4>3
    <3> HIDE DEF c, p, next, Path, Trail, Stretch
    <3> QED
      BY <1>1, <1>9, <1>11, <3>1, <3>2, <3>3, <3>4, StretchChunk
  <2> HIDE DEF c, p, next
  <2>2. Step(p, <<later>>, {c})
    <3>1. Held(later) \subseteq Held(p)
      BY <1>2, <1>7, <1>9, <1>10, <1>11
    <3>2. \A k \in Held(p) : k \in next .. end - 1 \/ k \in Held(later)
      BY <1>2, <1>7, <1>9, <1>10, <1>11
    <3> QED
      BY <1>7, <1>10, <1>11, <2>1, <3>1, <3>2, OneCall DEF Covered
  <2> QED
    BY <1>1, <1>11, <2>2, EmitStep DEF p
<1>12. ASSUME next # top, NEW f \in Call, CallOK(f), Held(f) = next .. end - 1, Replace(<<f, later>>)
       PROVE  IInv'
  <2> HIDE DEF p, next
  <2>1. Step(p, <<f, later>>, {})
    <3>1. Held(f) \subseteq Held(p) /\ Held(later) \subseteq Held(p)
      BY <1>2, <1>4, <1>7, <1>9, <1>10, <1>12
    <3>2. \A a \in Held(f), b \in Held(later) : a < b
      BY <1>2, <1>9, <1>10, <1>12
    <3>3. \A k \in Held(p) \cup Owes(p) : k \in Held(f) \/ k \in Held(later)
      BY <1>2, <1>7, <1>9, <1>10, <1>12
    <3> QED
      BY <1>10, <1>12, <3>1, <3>2, <3>3, TwoCalls
  <2> QED
    BY <1>1, <1>12, <2>1, ReplaceStep DEF p
<1>13. CASE next # top /\ Replace(<<g, later>>)
  <2>1. SemanticOK(g)
    <3>1. /\ g.from = next /\ g.end = end /\ g.start = start /\ g.depth = p.depth + 1
      BY DEF Semantic
    <3>2. end - next < top - low
      <4>1. PICK j \in p.cut : TRUE
        BY <1>3
      <4>2. j \in marks /\ low < j /\ j < top /\ j \in Nat
        BY <1>2, <1>3, <1>4
      <4>3. next = low => end <= j
        BY <1>9, <1>13, <4>2
      <4>4. low <= next /\ end <= top /\ end \in Nat
        BY <1>3, <1>4, <1>9, <1>13
      <4> HIDE DEF next
      <4> QED
        BY <1>2, <1>4, <4>2, <4>3, <4>4
    <3>3. (p.depth + 1) + (end - next) <= Len(text)
      <4> DEFINE d == p.depth
                 n == Len(text)
                 j == next
      <4>1. /\ d \in Int /\ n \in Int /\ j \in Int /\ end \in Int /\ top \in Int /\ low \in Int
            /\ d + (top - low) <= n /\ end - j < top - low
        BY <1>2, <1>3, <1>4, <1>9, <1>13, <3>2
      <4> HIDE DEF d, n, j
      <4>2. (d + 1) + (end - j) <= n
        BY ONLY <4>1
      <4> QED
        BY <4>2 DEF d, n, j
    <3> HIDE DEF g, p, next
    <3> QED
      BY <1>3, <1>6, <1>9, <1>13, <3>1, <3>3 DEF SemanticOK
  <2>2. g \in Call /\ CallOK(g) /\ Held(g) = next .. end - 1
    <3> DEFINE depth == p.depth + 1
    <3>1. /\ depth \in Nat /\ next \in Nat /\ end \in Nat /\ start \in Int
          /\ g = Semantic(next, end, start, depth) /\ SemanticOK(g)
      BY <1>2, <1>9, <1>13, <2>1
    <3> HIDE DEF g, next, depth
    <3>2. GoodCall(g, next, end)
      BY ONLY <3>1, SemanticCall
    <3> QED
      BY <3>2 DEF GoodCall
  <2> HIDE DEF g
  <2> QED
    BY <1>12, <1>13, <2>2
<1>14. CASE next # top /\ Replace(<<h, later>>)
  <2>1. h \in Call /\ CallOK(h) /\ Held(h) = next .. end - 1
    <3>1. h = Piece("body", next, end, <<>>, start) /\ <<>> \in Trail
      BY EmptyTrail
    <3> HIDE DEF h, p, next, Path, Trail, Call, Stretch
    <3> QED
      BY <1>1, <1>9, <1>14, <3>1, BodyCall
  <2> HIDE DEF h
  <2> QED
    BY <1>12, <1>14, <2>1
<1> QED
  BY <1>8, <1>11, <1>13, <1>14 DEF BuildChunk, later, start, end, top
-----------------------------------------------------------------------------------
(* The first call is of the whole text.                                            *)
LEMMA StartInv ==
  ASSUME IInv, stage = "start", stage' = "split", UNCHANGED <<text, strategy, chunks, at>>,
         NEW g \in Call, CallOK(g), 1 .. TextEnd - 1 \subseteq Held(g), work' = <<g>>
  PROVE  IInv'
<1>1. /\ TypeOK /\ text \in Texts /\ work = <<>> /\ chunks = <<>> /\ ChunksInv
      /\ Len(text) \in Nat /\ DOMAIN text = 1 .. Len(text) /\ TextEnd = Len(text) + 1
  BY TextType DEF IInv, TypeOK, StageInv, TextEnd
<1>2. work' \in Seq(Call) /\ DOMAIN work' = {1} /\ work'[1] = g
  <2> HIDE DEF Call
  <2> QED
    OBVIOUS
<1>3. TypeOK'
  BY <1>1, <1>2, SamePlaces DEF TypeOK
<1>4. (\A i \in DOMAIN work : CallOK(work[i]))'
  BY <1>2, SameCalls
<1>5. Apart(work)'
  BY <1>2 DEF Apart
<1>6. DOMAIN chunks' = {}
  BY <1>1
<1>7. (\A k \in DOMAIN text : Promised(k))'
  <2> SUFFICES ASSUME NEW k \in DOMAIN text PROVE Promised(k)'
    OBVIOUS
  <2>1. k \in Held(g)
    BY <1>1
  <2>2. Held(g)' = Held(g)
    BY SameCalls
  <2> QED
    BY <1>2, <2>1, <2>2, SameCalls DEF Promised
<1>8. SplitInv'
  BY <1>4, <1>5, <1>6, <1>7 DEF SplitInv
<1>9. ChunksInv'
  BY <1>6 DEF ChunksInv, InOrder
<1> QED
  BY <1>3, <1>8, <1>9 DEF IInv, StageInv

(* A text is refused, or taken by the chunker of the strategy.                     *)
LEMMA ChunkInv ==
  ASSUME IInv, Chunk
  PROVE  IInv'
<1> DEFINE s == Semantic(1, TextEnd, 0, 0)
           b == Piece("body", 1, TextEnd, <<>>, 0)
           n == Section(Root, <<>>)
           first == CASE strategy = "semantic" -> s
                      [] strategy = "title" /\ Headings = {} -> b
                      [] OTHER -> n
<1>1. /\ TypeOK /\ text \in Texts /\ strategy \in {"title", "semantic"} /\ work = <<>> /\ chunks = <<>>
      /\ ChunksInv /\ stage = "start" /\ UNCHANGED <<text, strategy, chunks, at>>
      /\ Len(text) \in Nat /\ DOMAIN text = 1 .. Len(text) /\ TextEnd = Len(text) + 1
      /\ \/ Blanks(1, TextEnd) /\ stage' = "refused" /\ UNCHANGED work
         \/ ~Blanks(1, TextEnd) /\ stage' = "split" /\ work' = <<first>>
  BY ChunkAssumption, TextType DEF IInv, TypeOK, StageInv, TextEnd, Chunk
<1> HIDE DEF first
<1>2. CASE stage' = "refused" /\ UNCHANGED work
  <2>1. TypeOK'
    BY <1>1, <1>2, SamePlaces DEF TypeOK
  <2>2. ChunksInv'
    BY <1>1, SamePlaces DEF ChunksInv, InOrder
  <2> QED
    BY <1>1, <1>2, <2>1, <2>2 DEF IInv, StageInv
<1>3. 1 \in Nat /\ TextEnd \in Nat /\ Stretch(1, TextEnd)
  BY <1>1 DEF Stretch
<1>4. ASSUME ~Blanks(1, TextEnd), Packed PROVE StartsSolid(1, TextEnd)
  <2> SUFFICES ASSUME 1 < TextEnd, IsBlank(1) PROVE FALSE
    BY DEF StartsSolid
  <2>1. text[1] = "newline" /\ 1 \in DOMAIN text
    BY <1>1 DEF IsBlank, Added
  <2> QED
    BY <1>4, <2>1 DEF Packed
<1>5. ASSUME ~Blanks(1, TextEnd), strategy = "semantic"
      PROVE  s \in Call /\ CallOK(s) /\ Held(s) = 1 .. TextEnd - 1
  <2>1. SemanticOK(s)
    <3>1. s.from = 1 /\ s.end = TextEnd /\ s.start = 0 /\ s.depth = 0
      BY DEF Semantic
    <3> HIDE DEF s
    <3> QED
      BY <1>1, <1>3, <1>4, <1>5, <3>1 DEF SemanticOK
  <2>2. 1 \in Nat /\ TextEnd \in Nat /\ 0 \in Int /\ 0 \in Nat /\ s = Semantic(1, TextEnd, 0, 0) /\ SemanticOK(s)
    BY <1>3, <2>1
  <2> HIDE DEF s
  <2>3. GoodCall(s, 1, TextEnd)
    BY ONLY <2>2, SemanticCall
  <2> QED
    BY <2>3 DEF GoodCall
<1>6. ASSUME ~Blanks(1, TextEnd) PROVE b \in Call /\ CallOK(b) /\ Held(b) = 1 .. TextEnd - 1
  <2>1. b = Piece("body", 1, TextEnd, <<>>, 0) /\ <<>> \in Trail /\ 0 \in Int /\ 0 < 1
    BY EmptyTrail
  <2>2. Packed => 0 = 1 - 1 /\ StartsSolid(1, TextEnd)
    BY <1>4, <1>6
  <2> HIDE DEF b, Path, Trail, Call, Stretch
  <2> QED
    BY <1>1, <1>3, <2>1, <2>2, BodyCall
<1>7. ASSUME strategy = "title", Headings # {}
      PROVE  n \in Call /\ CallOK(n) /\ Held(n) = 1 .. TextEnd - 1
  <2>1. Root \in Nodes /\ <<>> \in Trail
    BY EmptyTrail DEF Nodes
  <2>2. ContentStart(Root) = 1 /\ ContentEnd(Root) = TextEnd
    BY <1>1, <1>7, RootType
  <2>3. n = Section(Root, <<>>)
    OBVIOUS
  <2> HIDE DEF n, Path, Trail, Call, Nodes, Root
  <2>4. n \in Call /\ CallOK(n) /\ Held(n) = ContentStart(Root) .. ContentEnd(Root) - 1
    BY <1>1, <1>7, <2>1, <2>3, SectionCall
  <2> QED
    BY <2>2, <2>4
<1> HIDE DEF s, b, n
<1>8. ASSUME ~Blanks(1, TextEnd) PROVE first \in Call /\ CallOK(first) /\ Held(first) = 1 .. TextEnd - 1
  <2>1. CASE strategy = "semantic"
    BY <1>5, <1>8, <2>1 DEF first
  <2>2. CASE strategy # "semantic" /\ Headings = {}
    <3>1. first = b
      BY <1>1, <2>2 DEF first
    <3> QED
      BY <1>6, <1>8, <3>1
  <2>3. CASE strategy # "semantic" /\ Headings # {}
    <3>1. first = n
      BY <1>1, <2>3 DEF first
    <3> QED
      BY <1>1, <1>7, <2>3, <3>1
  <2> QED
    BY <2>1, <2>2, <2>3
<1>9. CASE ~Blanks(1, TextEnd) /\ stage' = "split" /\ work' = <<first>>
  BY <1>1, <1>8, <1>9, StartInv
<1> QED
  BY <1>1, <1>2, <1>9

(* No call is left: what was promised has been kept.                               *)
LEMMA StartOverlapInv ==
  ASSUME IInv, StartOverlap
  PROVE  IInv'
<1>1. /\ TypeOK /\ SplitInv /\ ChunksInv /\ work = <<>> /\ stage = "split" /\ stage' = "overlap" /\ at' = 2
      /\ UNCHANGED <<text, strategy, work, chunks>>
  BY DEF IInv, StageInv, StartOverlap
<1>2. TypeOK'
  BY <1>1, SamePlaces DEF TypeOK
<1>3. ChunksInv'
  BY <1>1, SamePlaces DEF ChunksInv, InOrder
<1>4. \A k \in DOMAIN text : IsBlank(k) \/ InSome(k) \/ Left(k)
  BY <1>1 DEF SplitInv, Promised
<1>5. (\A k \in DOMAIN text : IsBlank(k) \/ InSome(k) \/ Left(k))'
  BY <1>1, <1>4, SameText, SamePlaces DEF InSome
<1>6. \A i \in DOMAIN chunks : FreshOK(chunks[i])
  BY <1>1 DEF SplitInv
<1>7. \A i \in DOMAIN chunks : MarkOK(chunks, i) /\ chunks[i].lap = <<>>
  <2> SUFFICES ASSUME NEW i \in DOMAIN chunks PROVE MarkOK(chunks, i) /\ chunks[i].lap = <<>>
    OBVIOUS
  <2> DEFINE c == chunks[i]
  <2>1. FreshOK(c) /\ c.start \in Int /\ Len(c.body) \in Nat
    <3>1. c \in Chunks
      <4> HIDE DEF Chunks
      <4> QED
        BY <1>1 DEF TypeOK
    <3>2. c.start \in Int /\ c.body \in Path
      BY <3>1 DEF Chunks
    <3> HIDE DEF c
    <3> QED
      BY <1>6, <3>2, LenProperties DEF Path, c
  <2>2. c.end - Len(c.body) = c.start
    BY <2>1 DEF FreshOK
  <2> HIDE DEF c
  <2>3. PlaceOK(c.body, c.end - Len(c.body)) /\ c.start < c.body[1]
    BY <2>1, <2>2 DEF FreshOK, PlaceOK
  <2> QED
    BY <2>1, <2>2, <2>3 DEF FreshOK, MarkOK, c
<1>8. /\ (\A i \in DOMAIN chunks : MarkOK(chunks, i))'
      /\ \A i \in DOMAIN chunks' : chunks'[i].lap = <<>>
  BY <1>1, <1>7, SamePlaces
<1> QED
  BY <1>1, <1>2, <1>3, <1>5, <1>8 DEF IInv, StageInv
-----------------------------------------------------------------------------------
(* A slice of a path is a path and keeps the places it spans; and so does what is  *)
(* put in front of or behind one.                                                  *)
Has(content, k) == \E a \in DOMAIN content : content[a] = k

LEMMA SliceType ==
  ASSUME NEW s \in Path, NEW m \in 1 .. Len(s) + 1, NEW n \in 0 .. Len(s), NEW t, t = SubSeq(s, m, n)
  PROVE  /\ t \in Path /\ \A a \in m .. n : Has(t, s[a])
         /\ DOMAIN t = 1 .. Len(t) /\ Len(t) = (IF m <= n THEN n - m + 1 ELSE 0)
         /\ \A i \in 1 .. n - m + 1 : t[i] = s[m + i - 1]
<1>1. s \in Seq(Place) /\ Len(s) \in Nat /\ \A a \in 1 .. Len(s) : s[a] \in Place
  BY LenProperties DEF Path
<1>2. m \in Int /\ n \in Int /\ \A i \in m .. n : s[i] \in Place
  BY <1>1
<1> HIDE DEF Place
<1>3. /\ t \in Seq(Place) /\ Len(t) = (IF m <= n THEN n - m + 1 ELSE 0)
      /\ \A i \in 1 .. n - m + 1 : t[i] = s[m + i - 1]
  BY <1>2, SubSeqProperties
<1>4. DOMAIN t = 1 .. Len(t)
  BY <1>3, LenProperties
<1>5. ASSUME NEW a \in m .. n PROVE Has(t, s[a])
  <2>1. /\ a - m + 1 \in 1 .. n - m + 1 /\ m <= n /\ m + (a - m + 1) - 1 = a
    BY <1>2
  <2>2. a - m + 1 \in DOMAIN t /\ t[a - m + 1] = s[a]
    BY <1>3, <1>4, <2>1
  <2> QED
    BY <2>2 DEF Has
<1> QED
  BY <1>3, <1>4, <1>5 DEF Path

(* The rest of a path is what it ends with; and what a path ends with ends with    *)
(* any shorter end of it.                                                          *)
LEMMA RestEnds ==
  ASSUME NEW s \in Path, NEW n \in 0 .. Len(s), NEW t, t = SubSeq(s, n + 1, Len(s))
  PROVE  Len(t) = Len(s) - n /\ Ends(s, t)
<1> DEFINE m == n + 1
           l == Len(s)
<1>1. l \in Nat /\ n \in Nat /\ n <= l /\ m \in 1 .. l + 1 /\ l \in 0 .. l
  BY LenProperties DEF Path
<1>2. /\ DOMAIN t = 1 .. Len(t) /\ Len(t) = (IF m <= l THEN l - m + 1 ELSE 0)
      /\ \A i \in 1 .. l - m + 1 : t[i] = s[m + i - 1]
  <2> HIDE DEF Path
  <2> QED
    BY <1>1, SliceType
<1>3. Len(t) = l - n
  BY <1>1, <1>2
<1>4. ASSUME NEW a \in DOMAIN t PROVE t[a] = s[Len(s) - Len(t) + a]
  <2>1. a \in 1 .. l - m + 1 /\ m + a - 1 = l - Len(t) + a
    BY <1>1, <1>2, <1>3
  <2> QED
    BY <1>2, <2>1
<1> QED
  BY <1>1, <1>3, <1>4 DEF Ends

LEMMA EndsTwice ==
  ASSUME NEW s \in Path, NEW t \in Path, NEW u \in Path, Ends(s, t), Ends(t, u)
  PROVE  Ends(s, u)
<1>1. /\ Len(s) \in Nat /\ Len(t) \in Nat /\ Len(u) \in Nat /\ Len(t) <= Len(s) /\ Len(u) <= Len(t)
      /\ DOMAIN t = 1 .. Len(t) /\ DOMAIN u = 1 .. Len(u)
  BY LenProperties DEF Path, Ends
<1>2. ASSUME NEW a \in DOMAIN u PROVE s[Len(s) - Len(u) + a] = u[a]
  <2>1. Len(t) - Len(u) + a \in DOMAIN t /\ Len(s) - Len(t) + (Len(t) - Len(u) + a) = Len(s) - Len(u) + a
    BY <1>1
  <2> QED
    BY <2>1 DEF Ends
<1> QED
  BY <1>1, <1>2 DEF Ends

LEMMA EndsShorter ==
  ASSUME NEW s \in Path, NEW t \in Path, NEW u \in Path, Ends(s, t), Ends(s, u), Len(u) <= Len(t)
  PROVE  Ends(t, u)
<1>1. /\ Len(s) \in Nat /\ Len(t) \in Nat /\ Len(u) \in Nat
      /\ DOMAIN t = 1 .. Len(t) /\ DOMAIN u = 1 .. Len(u)
  BY LenProperties DEF Path
<1>2. ASSUME NEW a \in DOMAIN u PROVE t[Len(t) - Len(u) + a] = u[a]
  <2>1. Len(t) - Len(u) + a \in DOMAIN t /\ Len(s) - Len(t) + (Len(t) - Len(u) + a) = Len(s) - Len(u) + a
    BY <1>1
  <2> QED
    BY <2>1 DEF Ends
<1> QED
  BY <1>2 DEF Ends

(* Two paths, one behind the other, make a path that has what they have.           *)
LEMMA JoinType ==
  ASSUME NEW s \in Path, NEW t \in Path, NEW u, u = s \o t
  PROVE  u \in Path /\ Ends(u, t) /\ \A k : Has(s, k) \/ Has(t, k) => Has(u, k)
<1> HIDE DEF Place
<1>1. /\ u \in Seq(Place) /\ Len(u) = Len(s) + Len(t) /\ Len(s) \in Nat /\ Len(t) \in Nat
      /\ \A i \in 1 .. Len(s) + Len(t) : u[i] = IF i <= Len(s) THEN s[i] ELSE t[i - Len(s)]
      /\ DOMAIN s = 1 .. Len(s) /\ DOMAIN t = 1 .. Len(t)
  BY ConcatProperties, LenProperties DEF Path
<1>2. DOMAIN u = 1 .. Len(s) + Len(t)
  BY <1>1, LenProperties
<1>3. ASSUME NEW k, Has(s, k) PROVE Has(u, k)
  <2>1. PICK a \in DOMAIN s : s[a] = k
    BY <1>3 DEF Has
  <2>2. a \in DOMAIN u /\ u[a] = k
    BY <1>1, <1>2, <2>1
  <2> QED
    BY <2>2 DEF Has
<1>4. ASSUME NEW k, Has(t, k) PROVE Has(u, k)
  <2>1. PICK a \in DOMAIN t : t[a] = k
    BY <1>4 DEF Has
  <2>2. Len(s) + a \in DOMAIN u /\ u[Len(s) + a] = k
    BY <1>1, <1>2, <2>1
  <2> QED
    BY <2>2 DEF Has
<1>5. Ends(u, t)
  BY <1>1 DEF Ends
<1> QED
  BY <1>1, <1>3, <1>4, <1>5 DEF Path

(* The path and the body that a content is taken apart into.                       *)
LEMMA ExtractType ==
  ASSUME NEW content \in Path
  PROVE  /\ ExtractPath(content) \in Path /\ ExtractBody(content) \in Path
         /\ Ends(content, ExtractBody(content))
         /\ \A m \in 0 .. Len(content) \div 2 :
              2 * m < Len(content) /\ ~IsHeading(content[2 * m + 1])
                => Len(ExtractBody(content)) >= Len(content) - 2 * m
         /\ \A k : Has(content, k) => Has(ExtractPath(content), k) \/ Has(ExtractBody(content), k)
<1> DEFINE n == Len(content)
           past == {i \in 0 .. n \div 2 : \A k \in 0 .. i - 1 : IsHeading(content[2 * k + 1])}
           len == PathLength(content)
           path == ExtractPath(content)
           body == ExtractBody(content)
<1>1. n \in Nat /\ DOMAIN content = 1 .. n
  BY LenProperties DEF Path
<1>2. /\ len \in 0 .. n
      /\ \A m \in 0 .. n \div 2 : 2 * m < n /\ ~IsHeading(content[2 * m + 1]) => len <= 2 * m
  <2> HIDE DEF n
  <2>1. n \div 2 \in Nat /\ 2 * (n \div 2) <= n
    BY <1>1
  <2>2. past \subseteq 0 .. n \div 2 /\ 0 \in past
    BY <2>1
  <2>3. len = 2 * Max(past)
    BY DEF PathLength, n
  <2> HIDE DEF past, len
  <2>4. Max(past) \in past /\ Max(past) \in 0 .. n \div 2
    BY <2>1, <2>2, GreatestOf
  <2>5. ASSUME NEW m \in 0 .. n \div 2, ~IsHeading(content[2 * m + 1]) PROVE len <= 2 * m
    <3>1. ~(m \in 0 .. Max(past) - 1)
      BY <2>4, <2>5 DEF past
    <3>2. Max(past) <= m /\ m \in Nat /\ Max(past) \in Nat
      BY <2>1, <2>4, <3>1
    <3> QED
      BY <2>3, <3>2
  <2> QED
    BY <1>1, <2>1, <2>3, <2>4, <2>5
<1> DEFINE cut == IF AllHeadings(content) THEN 0 ELSE len
<1>3. cut \in 0 .. n
  BY <1>1, <1>2
<1>4. path \in Path /\ \A a \in 1 .. cut : Has(path, content[a])
  <2>1. CASE AllHeadings(content)
    BY <2>1 DEF ExtractPath, Path
  <2>2. CASE ~AllHeadings(content)
    <3>1. path = SubSeq(content, 1, len) /\ cut = len
      BY <2>2 DEF ExtractPath
    <3> HIDE DEF path, len, cut
    <3>2. 1 \in 1 .. n + 1
      BY <1>1
    <3> HIDE DEF n, Path, Trail
    <3> QED
      BY <1>2, <3>1, <3>2, SliceType DEF n
  <2> QED
    BY <2>1, <2>2
<1>5. Len(path) = cut
  <2>1. CASE AllHeadings(content)
    BY <2>1 DEF ExtractPath
  <2>2. CASE ~AllHeadings(content)
    <3>1. path = SubSeq(content, 1, len) /\ cut = len
      BY <2>2 DEF ExtractPath
    <3>2. 1 \in Int /\ len \in Int /\ \A i \in 1 .. len : content[i] \in Place
      <4>1. content \in [1 .. n -> Place]
        BY LenProperties DEF Path
      <4> HIDE DEF len, n, Place
      <4> QED
        BY <1>1, <1>2, <4>1
    <3> HIDE DEF path, len, cut, Place
    <3>3. Len(path) = IF 1 <= len THEN len - 1 + 1 ELSE 0
      BY <3>1, <3>2, SubSeqProperties
    <3> QED
      BY <1>1, <1>2, <3>1, <3>3
  <2> QED
    BY <2>1, <2>2
<1>6. /\ body \in Path /\ \A a \in cut + 1 .. n : Has(body, content[a])
      /\ Len(body) = n - cut /\ Ends(content, body)
  <2>1. body = SubSeq(content, Len(path) + 1, n)
    BY DEF ExtractBody
  <2>2. cut + 1 \in 1 .. n + 1 /\ n \in 0 .. n
    BY <1>1, <1>3
  <2> HIDE DEF body, path, cut, Path, Trail
  <2> QED
    BY <1>3, <1>5, <2>1, <2>2, SliceType, RestEnds
<1>8. ASSUME NEW m \in 0 .. n \div 2, 2 * m < n, ~IsHeading(content[2 * m + 1])
      PROVE  Len(body) >= n - 2 * m
  <2>1. cut <= 2 * m /\ m \in Nat
    BY <1>1, <1>2, <1>8
  <2> HIDE DEF body, cut
  <2> QED
    BY <1>1, <1>3, <1>6, <2>1
<1> HIDE DEF path, body, cut
<1>7. ASSUME NEW k, Has(content, k) PROVE Has(path, k) \/ Has(body, k)
  <2>1. PICK a \in DOMAIN content : content[a] = k
    BY <1>7 DEF Has
  <2>2. a \in 1 .. cut \/ a \in cut + 1 .. n
    BY <1>1, <1>3, <2>1
  <2> QED
    BY <1>4, <1>6, <2>1, <2>2
<1> QED
  BY <1>4, <1>6, <1>7, <1>8 DEF path, body

(* A body that does not begin with a heading is not cut into.                      *)
LEMMA ExtractKeeps ==
  ASSUME NEW content \in Path, NEW body \in Path, body # <<>>, Ends(content, body),
         Even(Len(content) - Len(body)), ~IsHeading(body[1])
  PROVE  Ends(ExtractBody(content), body)
<1>1. PICK h \in Nat : Len(content) - Len(body) = 2 * h
  BY DEF Even
<1>2. Len(content) \in Nat /\ Len(body) \in Nat /\ Len(body) # 0 /\ DOMAIN body = 1 .. Len(body)
  BY LenProperties, EmptySeq DEF Path
<1>3. h \in 0 .. Len(content) \div 2 /\ 2 * h < Len(content) /\ 2 * h + 1 = Len(content) - Len(body) + 1
  BY <1>1, <1>2
<1>4. content[2 * h + 1] = body[1]
  BY <1>2, <1>3 DEF Ends
<1>5. Len(content) - 2 * h = Len(body)
  BY <1>1, <1>2
<1>6. /\ ExtractBody(content) \in Path /\ Ends(content, ExtractBody(content))
      /\ Len(ExtractBody(content)) >= Len(content) - 2 * h
  BY <1>3, <1>4, ExtractType
<1>7. Len(body) <= Len(ExtractBody(content))
  BY <1>2, <1>5, <1>6, LenProperties DEF Path
<1> QED
  BY <1>6, <1>7, EndsShorter

(* The end of a body is a body.                                                    *)
LEMMA TailType ==
  ASSUME NEW body \in Path, NEW n \in Nat
  PROVE  TailRunes(body, n) \in Path /\ Len(TailRunes(body, n)) \in Nat /\ Ends(body, TailRunes(body, n))
<1>1. Len(body) \in Nat
  BY LenProperties DEF Path
<1>2. CASE n >= Len(body)
  BY <1>1, <1>2 DEF TailRunes, Ends
<1>3. CASE ~(n >= Len(body))
  <2> DEFINE m == Len(body) - n + 1
  <2>1. m \in 1 .. Len(body) + 1 /\ Len(body) \in 0 .. Len(body) /\ TailRunes(body, n) = SubSeq(body, m, Len(body))
    BY <1>1, <1>3 DEF TailRunes
  <2> HIDE DEF m, Path, Trail
  <2>2. TailRunes(body, n) \in Path
    BY <2>1, SliceType
  <2>3. Ends(body, TailRunes(body, n))
    <3>1. Len(body) - n \in 0 .. Len(body) /\ m = (Len(body) - n) + 1
      BY <1>1, <1>3 DEF m
    <3> QED
      BY <2>1, <3>1, RestEnds
  <2> QED
    BY <2>2, <2>3, LenProperties DEF Path
<1> QED
  BY <1>2, <1>3

(* A chunk that repeats the end of the one before it keeps all it had, and ends as *)
(* it did unless it begins with a heading.                                         *)
LEMMA RepeatingType ==
  ASSUME text \in Texts, NEW before \in Path, NEW last \in Chunks, NEW chunk \in Chunks,
         NEW c, c = Repeating(before, last, chunk)
  PROVE  /\ c \in Chunks /\ c.body = chunk.body /\ c.end = chunk.end
         /\ c.lap = before /\ c.start = last.end - Len(before)
         /\ \A k : Has(chunk.content, k) => Has(c.content, k)
         /\ /\ chunk.body # <<>> /\ ~IsHeading(chunk.body[1])
            /\ Ends(chunk.content, chunk.body) /\ Even(Len(chunk.content) - Len(chunk.body))
            => Ends(c.content, c.body)
<1> DEFINE path == ExtractPath(chunk.content)
           body == ExtractBody(chunk.content)
           content == path \o before \o <<Added>> \o body
<1>1. /\ chunk.content \in Path /\ chunk.body \in Path /\ chunk.end \in Int /\ last.end \in Int
  BY DEF Chunks
<1>2. /\ path \in Path /\ body \in Path
      /\ \A k : Has(chunk.content, k) => Has(path, k) \/ Has(body, k)
  BY <1>1, ExtractType
<1>3. c = [content |-> content, body |-> chunk.body, lap |-> before, start |-> last.end - Len(before),
           end |-> chunk.end]
  BY DEF Repeating, Joining
<1> HIDE DEF path, body
<1>4. /\ content \in Path /\ \A k : Has(path, k) \/ Has(body, k) => Has(content, k)
      /\ Ends(content, body)
  <2> DEFINE one == <<Added>>
             front == path \o before
             middle == front \o one
  <2>1. one \in Path
    <3>1. Added \in Place /\ one = <<Added>>
      BY TextType DEF Added, Place
    <3> HIDE DEF Place, one
    <3> QED
      BY <3>1 DEF Path
  <2>2. front \in Path /\ \A k : Has(path, k) => Has(front, k)
    BY <1>2, JoinType
  <2> HIDE DEF one, front
  <2>3. middle \in Path /\ \A k : Has(front, k) => Has(middle, k)
    BY <2>1, <2>2, JoinType
  <2> HIDE DEF middle
  <2>4. content = middle \o body
    BY DEF middle, front, one
  <2> HIDE DEF content
  <2>5. /\ content \in Path /\ \A k : Has(middle, k) \/ Has(body, k) => Has(content, k)
        /\ Ends(content, body)
    BY <1>2, <2>3, <2>4, JoinType
  <2> QED
    BY <2>2, <2>3, <2>5
<1> HIDE DEF content
<1>5. Len(before) \in Nat
  BY LenProperties DEF Path
<1>6. /\ c.content = content /\ c.body = chunk.body /\ c.end = chunk.end
      /\ c.lap = before /\ c.start = last.end - Len(before)
  BY <1>3
<1>7. c \in Chunks
  <2>1. last.end - Len(before) \in Int
    BY <1>1, <1>5
  <2> HIDE DEF Path, Trail
  <2> QED
    BY <1>1, <1>3, <1>4, <2>1 DEF Chunks
<1>8. ASSUME chunk.body # <<>>, ~IsHeading(chunk.body[1]), Ends(chunk.content, chunk.body),
             Even(Len(chunk.content) - Len(chunk.body))
      PROVE  Ends(c.content, c.body)
  <2>1. Ends(body, chunk.body)
    BY <1>1, <1>8, ExtractKeeps DEF body
  <2> QED
    BY <1>1, <1>2, <1>4, <1>6, <2>1, EndsTwice
<1> QED
  BY <1>2, <1>4, <1>6, <1>7, <1>8

(* What it repeats is in its place when that is of the body before it.             *)
LEMMA RepeatingInPlace ==
  ASSUME NEW last \in Chunks, NEW before \in Path, NEW c, c.lap = before, c.start = last.end - Len(before),
         Ends(last.content, before), last.lap = <<>> \/ ~IsHeading(last.body[1]) => Ends(last.content, last.body),
         PlaceOK(last.body, last.end - Len(last.body)), Packed
  PROVE  LapInPlace(last, c)
<1> DEFINE body == last.body
           end == last.end
           n == Len(body)
           l == Len(before)
<1>1. /\ last.content \in Path /\ body \in Path /\ end \in Int /\ n \in Nat /\ l \in Nat
      /\ DOMAIN body = 1 .. n /\ DOMAIN before = 1 .. l
  <2>1. last.content \in Path /\ body \in Path /\ end \in Int
    BY DEF Chunks
  <2> HIDE DEF body
  <2> QED
    BY <2>1, LenProperties DEF Path
<1> SUFFICES ASSUME last.lap = <<>> \/ ~IsHeading(last.body[1]), l <= n, NEW k \in DOMAIN before
             PROVE  before[k] \in {Added, c.start + k}
  BY DEF LapInPlace
<1>2. Ends(body, before)
  <2> HIDE DEF body
  <2> QED
    BY <1>1, EndsShorter DEF body
<1>3. before[k] = body[n - l + k] /\ n - l + k \in DOMAIN body
  <2>1. body[n - l + k] = before[k]
    BY <1>2 DEF Ends
  <2>2. k \in 1 .. l /\ l <= n
    BY <1>1
  <2> HIDE DEF n, l, body
  <2>3. n - l + k \in DOMAIN body
    BY <1>1, <2>2
  <2> QED
    BY <2>1, <2>3
<1>4. body[n - l + k] \in {Added, (end - n) + (n - l + k)}
  BY <1>3 DEF PlaceOK
<1>5. (end - n) + (n - l + k) = end - l + k
  BY <1>1
<1> QED
  BY <1>3, <1>4, <1>5

(* A turn of the loop of applyOverlap.                                             *)
LEMMA ApplyOverlapInv ==
  ASSUME IInv, ApplyOverlap
  PROVE  IInv'
<1> DEFINE last == chunks[at - 1]
           chunk == chunks[at]
           before == TailRunes(ExtractBody(last.content), 2 * Overlap)
           c == Repeating(before, last, chunk)
<1>1. /\ TypeOK /\ text \in Texts /\ chunks \in Seq(Chunks) /\ ChunksInv /\ work = <<>> /\ stage = "overlap"
      /\ at \in Nat /\ at > 1 /\ Overlap \in Nat
      /\ \A k \in DOMAIN text : IsBlank(k) \/ InSome(k) \/ Left(k)
      /\ \A i \in DOMAIN chunks : MarkOK(chunks, i)
      /\ \A i \in DOMAIN chunks : i >= at => chunks[i].lap = <<>>
      /\ UNCHANGED <<text, strategy, work>>
      /\ \/ stage' = "done" /\ UNCHANGED <<chunks, at>>
         \/ /\ ~(at > Len(chunks)) /\ at' = at + 1 /\ UNCHANGED stage
            /\ chunks' = chunks \/ (before # <<>> /\ chunks' = [chunks EXCEPT ![at] = c])
  <2>1. Overlap \in Nat
    BY ChunkAssumption
  <2> QED
    BY <2>1 DEF IInv, TypeOK, StageInv, ApplyOverlap
<1>2. CASE UNCHANGED chunks /\ stage' \in {"overlap", "done"} /\ at' \in {at, at + 1}
  <2>1. TypeOK'
    BY <1>1, <1>2, SamePlaces DEF TypeOK
  <2>2. ChunksInv'
    BY <1>1, <1>2, SamePlaces DEF ChunksInv, InOrder
  <2>3. (\A k \in DOMAIN text : IsBlank(k) \/ InSome(k) \/ Left(k))'
    BY <1>1, <1>2, SameText, SamePlaces DEF InSome
  <2>4. at' > 1
    BY <1>1, <1>2
  <2>5. (\A i \in DOMAIN chunks : MarkOK(chunks, i))'
    BY <1>1, <1>2, SamePlaces
  <2>6. \A i \in DOMAIN chunks' : i >= at' => chunks'[i].lap = <<>>
    <3>1. DOMAIN chunks' \subseteq Nat /\ at \in Nat /\ at' \in {at, at + 1}
      <4> HIDE DEF Chunks
      <4> QED
        BY <1>1, <1>2, LenProperties
    <3> QED
      BY <1>1, <1>2, <3>1
  <2> QED
    BY <1>1, <1>2, <2>1, <2>2, <2>3, <2>4, <2>5, <2>6 DEF IInv, StageInv
<1>3. CASE before # <<>> /\ chunks' = [chunks EXCEPT ![at] = c] /\ ~(at > Len(chunks)) /\ at' = at + 1 /\ UNCHANGED stage
  <2>1. /\ Len(chunks) \in Nat /\ DOMAIN chunks = 1 .. Len(chunks) /\ \A i \in 1 .. Len(chunks) : chunks[i] \in Chunks
    <3> HIDE DEF Chunks
    <3> QED
      BY <1>1, LenProperties
  <2>2. at \in 1 .. Len(chunks) /\ at - 1 \in 1 .. Len(chunks)
    BY <1>1, <1>3, <2>1
  <2>3. last \in Chunks /\ chunk \in Chunks
    BY <2>1, <2>2
  <2> HIDE DEF last, chunk
  <2>4. before \in Path /\ Ends(last.content, before)
    <3>1. last.content \in Path
      BY <2>3 DEF Chunks
    <3>2. ExtractBody(last.content) \in Path /\ Ends(last.content, ExtractBody(last.content))
      BY <3>1, ExtractType
    <3>3. 2 * Overlap \in Nat
      BY <1>1
    <3>4. before \in Path /\ Ends(ExtractBody(last.content), before)
      BY <3>2, <3>3, TailType
    <3> HIDE DEF before, Path
    <3> QED
      BY <3>1, <3>2, <3>4, EndsTwice
  <2> HIDE DEF before
  <2>5. /\ c \in Chunks /\ c.body = chunk.body /\ c.end = chunk.end
        /\ c.lap = before /\ c.start = last.end - Len(before)
        /\ \A k : Has(chunk.content, k) => Has(c.content, k)
        /\ /\ chunk.body # <<>> /\ ~IsHeading(chunk.body[1])
           /\ Ends(chunk.content, chunk.body) /\ Even(Len(chunk.content) - Len(chunk.body))
           => Ends(c.content, c.body)
    BY <1>1, <2>3, <2>4, RepeatingType
  <2> HIDE DEF c
  <2>6. /\ chunks' \in Seq(Chunks) /\ DOMAIN chunks' = DOMAIN chunks
        /\ \A i \in DOMAIN chunks : chunks'[i] = IF i = at THEN c ELSE chunks[i]
    <3> HIDE DEF Chunks
    <3>1. /\ chunks' \in Seq(Chunks) /\ Len(chunks') = Len(chunks)
          /\ \A i \in 1 .. Len(chunks) : chunks'[i] = IF i = at THEN c ELSE chunks[i]
      BY <1>1, <1>3, <2>2, <2>5, ExceptSeq
    <3> QED
      BY <2>1, <3>1, LenProperties
  <2>7. /\ \A i \in DOMAIN chunks : chunks'[i].body = chunks[i].body
        /\ \A i \in DOMAIN chunks : \A k : Has(chunks[i].content, k) => Has(chunks'[i].content, k)
    <3> SUFFICES ASSUME NEW i \in DOMAIN chunks
                 PROVE  /\ chunks'[i].body = chunks[i].body
                        /\ \A k : Has(chunks[i].content, k) => Has(chunks'[i].content, k)
      OBVIOUS
    <3>1. CASE i = at
      BY <2>5, <2>6, <3>1 DEF chunk
    <3>2. CASE i # at
      BY <2>6, <3>2
    <3> QED
      BY <3>1, <3>2
  <2>8. TypeOK'
    BY <1>1, <1>3, <2>6, SamePlaces DEF TypeOK
  <2>9. ChunksInv'
    <3>1. \A i \in DOMAIN chunks' : SizeOK(chunks'[i].body)
      BY <1>1, <2>6, <2>7 DEF ChunksInv
    <3>2. InOrder'
      BY <1>1, <2>6, <2>7 DEF ChunksInv, InOrder, Added
    <3> QED
      BY <1>1, <3>1, <3>2, SamePlaces DEF ChunksInv
  <2>10. \A k : InSome(k) => InSome(k)'
    BY <2>6, <2>7 DEF InSome, Has
  <2>11. (\A k \in DOMAIN text : IsBlank(k) \/ InSome(k) \/ Left(k))'
    BY <1>1, <2>10, SameText, SamePlaces
  <2>12. c.start < c.body[1]
    <3> DEFINE a == last.body[Len(last.body)]
               b == chunk.body[1]
               l == Len(before)
    <3>1. /\ PlaceOK(last.body, last.end - Len(last.body)) /\ PlaceOK(chunk.body, chunk.end - Len(chunk.body))
      BY <1>1, <2>1, <2>2 DEF MarkOK, last, chunk
    <3>2. /\ last.body \in Path /\ chunk.body \in Path /\ last.end \in Int
      BY <2>3 DEF Chunks
    <3>3. /\ Len(last.body) \in DOMAIN last.body /\ 1 \in DOMAIN chunk.body /\ Len(last.body) \in Nat
          /\ l \in Nat
      <4>1. last.body # <<>> /\ chunk.body # <<>>
        BY <3>1 DEF PlaceOK
      <4> QED
        BY <2>4, <3>2, <4>1, LenProperties, EmptySeq DEF Path
    <3>4. a \in Int /\ b \in Int
      <4>1. a \in Place /\ b \in Place
        BY <3>2, <3>3 DEF Path
      <4> QED
        BY <1>1, <4>1, TextType DEF Place
    <3>5. a < b
      <4>1. at - 1 < at
        BY <1>1
      <4>2. a # Added /\ b # Added
        BY <3>1 DEF PlaceOK
      <4> QED
        BY <1>1, <2>1, <2>2, <3>3, <4>1, <4>2 DEF ChunksInv, InOrder, last, chunk
    <3>6. last.end <= a
      <4>1. (last.end - Len(last.body)) + Len(last.body) <= a
        BY <3>1 DEF PlaceOK
      <4> HIDE DEF a
      <4> QED
        BY <3>2, <3>3, <4>1
    <3> HIDE DEF a, b, l
    <3>7. last.end - l < b
      BY <3>2, <3>3, <3>4, <3>5, <3>6
    <3> QED
      BY <2>5, <3>7 DEF b, l
  <2>13. \A i \in DOMAIN chunks : MarkOK(chunks', i)
    <3> SUFFICES ASSUME NEW i \in DOMAIN chunks PROVE MarkOK(chunks', i)
      OBVIOUS
    <3>1. CASE i = at
      <4> DEFINE list == chunks'
      <4>1. list[i] = c /\ list[i - 1] = last /\ i > 1
        <5>1. i - 1 \in DOMAIN chunks /\ i - 1 # at
          BY <1>1, <2>1, <2>2, <3>1
        <5> QED
          BY <1>1, <2>6, <3>1, <5>1 DEF last
      <4>2. /\ PlaceOK(c.body, c.end - Len(c.body)) /\ chunk.body # <<>>
            /\ Ends(chunk.content, chunk.body) /\ Even(Len(chunk.content) - Len(chunk.body))
        <5>1. MarkOK(chunks, at) /\ chunk.lap = <<>>
          BY <1>1, <2>1, <2>2 DEF chunk
        <5> QED
          BY <2>5, <5>1 DEF MarkOK, PlaceOK, chunk
      <4>3. Packed => LapInPlace(last, c)
        <5>1. MarkOK(chunks, at - 1)
          BY <1>1, <2>1, <2>2
        <5>2. /\ PlaceOK(last.body, last.end - Len(last.body))
              /\ last.lap = <<>> \/ ~IsHeading(last.body[1]) => Ends(last.content, last.body)
          BY <5>1 DEF MarkOK, last
        <5> HIDE DEF Path, Chunks
        <5> QED
          BY <2>3, <2>4, <2>5, <5>2, RepeatingInPlace
      <4> HIDE DEF list
      <4>4. MarkOK(list, i)
        BY <1>3, <2>5, <2>12, <4>1, <4>2, <4>3 DEF MarkOK
      <4> QED
        BY <4>4 DEF list
    <3>2. CASE i # at
      <4> DEFINE list == chunks'
      <4>1. list[i] = chunks[i] /\ MarkOK(chunks, i)
        BY <1>1, <2>6, <3>2
      <4>2. chunks[i].lap # <<>> /\ i > 1 => list[i - 1] = chunks[i - 1]
        <5> SUFFICES ASSUME chunks[i].lap # <<>>, i > 1 PROVE list[i - 1] = chunks[i - 1]
          OBVIOUS
        <5>1. ~(i >= at)
          BY <1>1
        <5>2. i - 1 \in DOMAIN chunks /\ i - 1 # at
          BY <1>1, <2>1, <5>1
        <5> QED
          BY <2>6, <5>2
      <4> HIDE DEF list
      <4>3. MarkOK(list, i)
        BY <4>1, <4>2 DEF MarkOK
      <4> QED
        BY <4>3 DEF list
    <3> QED
      BY <3>1, <3>2
  <2>14. (\A i \in DOMAIN chunks : MarkOK(chunks, i))'
    BY <1>1, <2>6, <2>13, SamePlaces
  <2>15. \A i \in DOMAIN chunks' : i >= at' => chunks'[i].lap = <<>>
    <3> SUFFICES ASSUME NEW i \in DOMAIN chunks, i >= at + 1 PROVE chunks[i].lap = <<>> /\ i # at
      BY <1>3, <2>6
    <3> QED
      BY <1>1, <2>1
  <2>16. at' > 1
    BY <1>1, <1>3
  <2> QED
    BY <1>1, <1>3, <2>8, <2>9, <2>11, <2>14, <2>15, <2>16 DEF IInv, StageInv
<1> QED
  BY <1>1, <1>2, <1>3
-----------------------------------------------------------------------------------
(* Before the first call nothing is owed.                                          *)
LEMMA InitInv == Init => IInv
<1> SUFFICES ASSUME Init PROVE IInv
  OBVIOUS
<1>1. /\ text \in Texts /\ strategy \in Strategies /\ at = 0
      /\ stage = "start" /\ work = <<>> /\ chunks = <<>>
  BY DEF Init
<1>2. TypeOK
  <2> HIDE DEF Call, Chunks
  <2> QED
    BY <1>1 DEF TypeOK
<1> QED
  BY <1>1, <1>2 DEF IInv, StageInv, ChunksInv, InOrder

(* A step that changes nothing keeps the invariant.                                *)
LEMMA StutterInv ==
  ASSUME IInv, UNCHANGED vars
  PROVE  IInv'
<1>1. UNCHANGED <<text, strategy, stage, work, chunks, at>>
  BY DEF vars
<1>2. TypeOK'
  BY <1>1, SamePlaces DEF IInv, TypeOK
<1>3. ChunksInv'
  BY <1>1, SamePlaces DEF IInv, ChunksInv, InOrder
<1>4. SplitInv => SplitInv'
  <2> SUFFICES ASSUME SplitInv PROVE SplitInv'
    OBVIOUS
  <2>1. (\A i \in DOMAIN work : CallOK(work[i]))' /\ Apart(work)'
    BY <1>1, SameCalls DEF SplitInv, Apart
  <2>2. (\A i \in DOMAIN chunks : Behind(chunks[i].body, work))'
    BY <1>1, SameCalls, SamePlaces DEF SplitInv, Behind
  <2>3. (\A i \in DOMAIN chunks : FreshOK(chunks[i]))'
    BY <1>1, SamePlaces DEF SplitInv
  <2>4. (\A k \in DOMAIN text : IsBlank(k) \/ InSome(k) \/ Promised(k) \/ Left(k))'
    BY <1>1, SameText, SameCalls, SamePlaces DEF SplitInv, InSome, Promised
  <2> QED
    BY <2>1, <2>2, <2>3, <2>4 DEF SplitInv
<1>5. StageInv'
  <2>1. (\A k \in DOMAIN text : IsBlank(k) \/ InSome(k) \/ Left(k))
          => (\A k \in DOMAIN text : IsBlank(k) \/ InSome(k) \/ Left(k))'
    BY <1>1, SameText, SamePlaces DEF InSome
  <2>2. (\A i \in DOMAIN chunks : MarkOK(chunks, i)) => (\A i \in DOMAIN chunks : MarkOK(chunks, i))'
    BY <1>1, SamePlaces
  <2> QED
    BY <1>1, <1>4, <2>1, <2>2 DEF IInv, StageInv
<1> QED
  BY <1>2, <1>3, <1>5 DEF IInv
-----------------------------------------------------------------------------------
(* The invariant holds in every reachable state, for any texts and any sizes.      *)
THEOREM Correct == Spec => []IInv
<1>1. ASSUME IInv, [Next]_vars PROVE IInv'
  <2>1. CASE Chunk
    BY <1>1, <2>1, ChunkInv
  <2>2. CASE ChunkNode
    BY <1>1, <2>2, ChunkNodeInv
  <2>3. CASE ChunkChild
    BY <1>1, <2>3, ChunkChildInv
  <2>4. CASE SplitIntoChunks
    BY <1>1, <2>4, SplitIntoChunksInv
  <2>5. CASE NextPart
    BY <1>1, <2>5, NextPartInv
  <2>6. CASE LastPart
    BY <1>1, <2>6, LastPartInv
  <2>7. CASE GatherPart
    BY <1>1, <2>7, GatherPartInv
  <2>8. CASE FlushBuffer
    BY <1>1, <2>8, FlushBufferInv
  <2>9. CASE Gathered
    BY <1>1, <2>9, GatheredInv
  <2>10. CASE EmitCuts
    BY <1>1, <2>10, EmitCutsInv
  <2>11. CASE SemanticSplit
    BY <1>1, <2>11, SemanticSplitInv
  <2>12. CASE NextSentence
    BY <1>1, <2>12, NextSentenceInv
  <2>13. CASE LastSentence
    BY <1>1, <2>13, LastSentenceInv
  <2>14. CASE FindBreakpoints
    BY <1>1, <2>14, FindBreakpointsInv
  <2>15. CASE BuildChunk
    BY <1>1, <2>15, BuildChunkInv
  <2>16. CASE StartOverlap
    BY <1>1, <2>16, StartOverlapInv
  <2>17. CASE ApplyOverlap
    BY <1>1, <2>17, ApplyOverlapInv
  <2>18. CASE UNCHANGED vars
    BY <1>1, <2>18, StutterInv
  <2> QED
    BY <1>1, <2>1, <2>2, <2>3, <2>4, <2>5, <2>6, <2>7, <2>8, <2>9, <2>10, <2>11, <2>12, <2>13,
       <2>14, <2>15, <2>16, <2>17, <2>18 DEF Next
<1> QED
  BY <1>1, InitInv, PTL DEF Spec

(* The variables keep their types: positions are places of the text, and a call in *)
(* progress has all that its loop needs.                                           *)
THEOREM TypeCorrect == Spec => []TypeOK
<1>1. IInv => TypeOK
  BY DEF IInv
<1> QED
  BY <1>1, Correct, PTL

(* When the overlap is done every rune to read is in the content of some chunk,    *)
(* whichever calls split the text and however they recursed; but for the heading   *)
(* of an empty section, or of a blank one that is too long (recursive.go:142, 200).*)
THEOREM AllKept == Spec => []NothingLost
<1>1. IInv => NothingLost
  <2> SUFFICES ASSUME IInv, stage = "done", NEW k \in DOMAIN text
               PROVE  \/ IsBlank(k)
                      \/ \E i \in DOMAIN chunks : \E a \in DOMAIN chunks[i].content : chunks[i].content[a] = k
                      \/ strategy = "title" /\ Dropped(k)
    BY DEF NothingLost
  <2>1. IsBlank(k) \/ InSome(k) \/ Left(k)
    BY DEF IInv, StageInv
  <2> QED
    BY <2>1 DEF InSome, Left
<1> QED
  BY <1>1, Correct, PTL

(* No rune is in the bodies of two chunks or twice in one, and the chunks follow   *)
(* the text: what a call emits lies in front of all that the calls behind it hold. *)
THEOREM ChunksInOrder == Spec => []InOrder
<1>1. IInv => InOrder
  BY DEF IInv, ChunksInv
<1> QED
  BY <1>1, Correct, PTL

(* Without its path and the overlap a chunk is larger than asked for only as a     *)
(* single paragraph or as a section measured by its runes, and a cut between       *)
(* characters at most twice the size, for any ChunkSize (recursive.go:148, 250,    *)
(* 340).                                                                           *)
THEOREM ChunksBounded == Spec => []SizeBounded
<1>1. IInv => SizeBounded
  BY DEF IInv, ChunksInv, SizeOK, SizeBounded
<1> QED
  BY <1>1, Correct, PTL

(* The positions stored with a chunk (pipeline.go:347) never run ahead of its text,*)
(* before the overlap (recursive.go:380) and after it.  Where no empty line and no *)
(* empty paragraph was skipped they name the body exactly, and with an overlap     *)
(* what is repeated of the body before it.                                         *)
THEOREM ChunksInPlace == Spec => []InPlace
<1>1. IInv => InPlace
  <2> SUFFICES ASSUME IInv, NEW i \in DOMAIN chunks
               PROVE  LET body == chunks[i].body IN
                      /\ chunks[i].start < body[1] /\ chunks[i].end <= Last(body)
                      /\ Packed => chunks[i].end = Last(body)
                      /\ Packed /\ chunks[i].lap = <<>> => chunks[i].start = body[1] - 1
                      /\ Packed /\ chunks[i].lap # <<>> => i > 1 /\ LapInPlace(chunks[i - 1], chunks[i])
    BY DEF InPlace
  <2> DEFINE c == chunks[i]
  <2>1. c.body \in Path /\ c.start \in Int /\ c.end \in Int /\ Len(c.body) \in Nat
    <3>1. c \in Chunks
      <4> HIDE DEF Chunks
      <4> QED
        BY DEF IInv, TypeOK
    <3>2. c.body \in Path /\ c.start \in Int /\ c.end \in Int
      BY <3>1 DEF Chunks
    <3> HIDE DEF c
    <3> QED
      BY <3>2, LenProperties DEF Path
  <2>2. CASE stage \in {"start", "refused"}
    BY <2>2 DEF IInv, StageInv
  <2>3. CASE stage = "split"
    <3>1. FreshOK(c)
      BY <2>3 DEF IInv, StageInv, SplitInv
    <3> HIDE DEF c
    <3> QED
      BY <3>1 DEF FreshOK, PlaceOK, Last, c
  <2>4. CASE stage \in {"overlap", "done"}
    <3>1. MarkOK(chunks, i)
      BY <2>4 DEF IInv, StageInv
    <3>2. /\ PlaceOK(c.body, c.end - Len(c.body)) /\ c.start < c.body[1]
          /\ c.lap = <<>> => c.start = c.end - Len(c.body)
          /\ Packed /\ c.lap # <<>> => i > 1 /\ LapInPlace(chunks[i - 1], c)
      BY <3>1 DEF MarkOK
    <3> DEFINE e == c.end
               n == Len(c.body)
    <3>3. (e - n) + n = e
      BY <2>1
    <3> HIDE DEF c
    <3> QED
      BY <3>2, <3>3 DEF PlaceOK, Last, c
  <2> QED
    BY <2>2, <2>3, <2>4 DEF IInv, TypeOK
<1> QED
  BY <1>1, Correct, PTL

(* A call of semanticSplit inside another one is asked of less text by as much, at *)
(* the least, as it is deeper: the recursion is no deeper than the text is long.   *)
THEOREM SemanticSplitEnds == Spec => []RecursionEnds
<1>1. IInv => RecursionEnds
  <2> SUFFICES ASSUME IInv, NEW i \in DOMAIN work, work[i].kind = "semantic"
               PROVE  work[i].depth + (work[i].end - work[i].from) <= Len(text)
    BY DEF RecursionEnds
  <2>1. work # <<>>
    OBVIOUS
  <2>2. stage = "split"
    BY <2>1 DEF IInv, TypeOK, StageInv
  <2>3. SemanticOK(work[i])
    BY <2>2 DEF IInv, StageInv, SplitInv, CallOK
  <2> QED
    BY <2>3 DEF SemanticOK
<1> QED
  BY <1>1, Correct, PTL
===================================================================================
