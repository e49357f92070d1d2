---------------------------- MODULE AnswerProofs ----------------------------
(***************************************************************************)
(* Proofs about one request's answer, for any number of attempts, lines    *)
(* and room in the stream: the client gets the first texts of one attempt  *)
(* and all of them when it is told so, the ending is in order and the      *)
(* audit line has the status that was answered.                            *)
(***************************************************************************)
EXTENDS Answer, Integers, TLAPS

ChunkSet == [text : Nat, done : BOOLEAN]

Kinds == {"text", "role", "stop", "usage", "[DONE]", "error", "answer"}
EventSet == [kind : Kinds, attempt : Nat, n : Nat]

Errors == {"notfound", "internal", "unavailable", "cancelled"}
Source ==
  [at : {"quiet", "post", "scan", "send", "end", "close", "ended"},
   emit : {"none", "text", "done", "textdone"},
   ret : {"go", "nil"} \cup Errors,
   lines : Nat, texts : Nat]

(* Type correctness of what the answer is made from.                        *)
TypeOK ==
  /\ adapter \in Adapters /\ attempt \in Nat
  /\ src \in Source /\ ch \in Seq(ChunkSet)
  /\ chErr \in {"none", "nil"} \cup Errors /\ closed \in BOOLEAN
  /\ con \in {"begin", "open", "collect", "first", "role", "relay", "usage", "done", "returned"}
  /\ held \in Seq(ChunkSet) /\ text \in Seq(EventSet) /\ out \in Seq(EventSet)

(* The texts of a list of chunks.                                           *)
Nums(chunks) == [i \in DOMAIN chunks |-> chunks[i].text]

(* The producer has a text in hand; how many texts it has passed on.        *)
Pending == src.at = "send" /\ src.emit \in {"text", "textdone"}
Sent == IF Pending THEN src.texts - 1 ELSE src.texts

(* The producer: how it came to where it is, and the order of stream.err    *)
(* and close.                                                               *)
SourceInv ==
  /\ Pending => src.texts > 0
  /\ src.at \in {"quiet", "post", "scan"} => src.ret = "go"
  /\ src.at = "send" => src.ret \in {"go", "nil"}
  /\ src.at \in {"end", "close", "ended"} => src.ret # "go"
  /\ closed <=> src.at = "ended"
  /\ src.at \in {"close", "ended"} => chErr = src.ret

(* The stream continues after the first m texts, and holds all the producer *)
(* passed on as long as nothing failed.                                     *)
Feed(m) ==
  /\ Consecutive(Nums(ch), m)
  /\ src.ret \in {"go", "nil"} => m <= Sent /\ Reaches(Nums(ch), m, Sent)

(* The handler has the first m texts of this attempt.                       *)
Has(events, m) ==
  /\ Consecutive(Numbers(events), 0) /\ Reaches(Numbers(events), 0, m)
  /\ \A i \in DOMAIN events : events[i].kind = "text" =>
       events[i].attempt = attempt /\ events[i].n > 0

Final == {"[DONE]", "answer"}

(* TextsAreAPrefix and DoneMeansAll strengthened: where the texts are while *)
(* the handler receives them.                                               *)
FlowInv ==
  /\ con \in {"begin", "open", "collect", "first", "role"} => out = <<>>
  /\ con \in {"begin", "open", "collect", "first"} => held = <<>>
  /\ con = "first" => Feed(0)
  /\ con = "collect" => \E m \in Nat : Has(text, m) /\ Feed(m)
  /\ con \in {"role", "relay"} =>
       \E m \in Nat :
         /\ Has(out, m)
         /\ \/ held = <<>> /\ Feed(m)
            \/ held # <<>> /\ held[1].text = 0 /\ Feed(m)
            \/ held # <<>> /\ held[1].text = m + 1 /\ Feed(m + 1)
  /\ con \in {"usage", "done"} =>
       src.at = "ended" /\ src.ret = "nil" /\ Has(out, src.texts)
  /\ con # "returned" => \A i \in DOMAIN out : out[i].kind \notin Final
  /\ TextsAreAPrefix
  /\ out # <<>> /\ out[Len(out)].kind \in Final =>
       src.at = "ended" /\ src.ret = "nil" /\ Reaches(Numbers(out), 0, src.texts)

(* EndingInOrder strengthened: what was written last where the handler is.  *)
EndInv ==
  /\ EndingInOrder
  /\ con \in {"begin", "open", "collect", "first", "role"} => out = <<>>
  /\ con = "collect" => \A i \in DOMAIN text : text[i].kind = "text"
  /\ con = "relay" => \A i \in DOMAIN out : out[i].kind \in {"role", "text"}
  /\ con = "usage" => out # <<>> /\ out[Len(out)].kind = "stop"
  /\ con = "done" => out # <<>> /\ out[Len(out)].kind \in {"stop", "usage"}
  /\ con # "returned" => \A i \in DOMAIN out : out[i].kind \notin {"[DONE]", "error", "answer"}

(* AuditHasStatus strengthened: nothing is logged before the handler        *)
(* returns, and a stream is answered with 200 once it has begun.            *)
AuditInv ==
  /\ AuditHasStatus
  /\ con = "begin" => attempt = 1 /\ src = Quiet
  /\ con # "returned" => audit = NoAudit /\ log = [status |-> 200, err |-> FALSE]
  /\ con \in {"relay", "usage", "done"} => status = 200
-----------------------------------------------------------------------------
(* Numbered lists.                                                          *)

LEMMA NoneConsecutive ==
  ASSUME NEW f, DOMAIN f = {}, NEW a \in Nat
  PROVE  Consecutive(f, a) /\ Reaches(f, a, a)
BY DEF Consecutive, Reaches

LEMMA NoneReaches ==
  ASSUME NEW f, DOMAIN f = {}, NEW a \in Nat, NEW b \in Nat, a <= b, Reaches(f, a, b)
  PROVE  a = b
<1>1. b \notin (a+1)..b
  BY DEF Reaches
<1> QED BY <1>1

(* A marker, or the next number, at the end.                                *)
LEMMA AppendConsecutive ==
  ASSUME NEW n \in Nat, NEW f \in [1..n -> Nat], NEW g \in [1..(n+1) -> Nat],
         \A i \in 1..n : g[i] = f[i],
         NEW a \in Nat, NEW b \in Nat, a <= b, Consecutive(f, a), Reaches(f, a, b)
  PROVE  /\ g[n+1] = 0 => Consecutive(g, a) /\ Reaches(g, a, b)
         /\ g[n+1] = b + 1 => Consecutive(g, a) /\ Reaches(g, a, b + 1)
<1>0. /\ DOMAIN f = 1..n /\ DOMAIN g = 1..(n+1)
      /\ \A i \in 1..(n+1) : i \in 1..n \/ i = n + 1
      /\ \A i \in 1..(n+1) : \A j \in 1..(i-1) : j \in 1..n
      /\ \A i \in 1..n : \A j \in 1..(i-1) : j \in 1..n
  OBVIOUS
<1>1. ASSUME NEW i \in 1..n, g[i] # 0
      PROVE  /\ g[i] > a
             /\ \A j \in 1..(i-1) : g[j] < g[i]
             /\ \A v \in (a+1)..(g[i]-1) : \E j \in 1..(i-1) : g[j] = v
  BY <1>0, <1>1 DEF Consecutive
<1>2. CASE g[n+1] = 0
  <2>1. Consecutive(g, a)
    <3>1. ASSUME NEW i \in DOMAIN g, g[i] # 0 PROVE i \in 1..n
      BY <1>0, <1>2, <3>1
    <3> QED BY <1>1, <3>1 DEF Consecutive
  <2>2. Reaches(g, a, b)
    BY <1>0, <1>2 DEF Reaches
  <2>3. b + 1 # 0
    OBVIOUS
  <2> QED BY <1>2, <2>1, <2>2, <2>3
<1>3. CASE g[n+1] = b + 1
  <2>1. \A j \in 1..n : g[j] < b + 1
    BY <1>0 DEF Reaches
  <2>2. \A v \in (a+1)..b : \E j \in 1..n : g[j] = v
    BY <1>0 DEF Reaches
  <2>3. (b + 1) - 1 = b /\ (n + 1) - 1 = n /\ b + 1 > a
    OBVIOUS
  <2>4. Consecutive(g, a)
    <3> SUFFICES ASSUME NEW i \in 1..(n+1), g[i] # 0
                 PROVE  /\ g[i] > a
                        /\ \A j \in 1..(i-1) : g[j] < g[i]
                        /\ \A v \in (a+1)..(g[i]-1) : \E j \in 1..(i-1) : g[j] = v
      BY <1>0 DEF Consecutive
    <3>1. CASE i \in 1..n
      BY <1>1, <3>1
    <3>2. CASE i = n + 1
      BY <1>3, <2>1, <2>2, <2>3, <3>2
    <3> QED BY <1>0, <3>1, <3>2
  <2>5. \A i \in DOMAIN g : g[i] <= b + 1
    <3>1. g[n+1] <= b + 1 /\ \A i \in 1..n : g[i] <= b + 1
      BY <1>3, <2>1
    <3> QED BY <1>0, <3>1, Zenon
  <2>6. \A v \in (a+1)..(b+1) : \E i \in DOMAIN g : g[i] = v
    <3>1. \A v \in (a+1)..(b+1) : v = b + 1 \/ v \in (a+1)..b
      OBVIOUS
    <3>2. n + 1 \in DOMAIN g /\ 1..n \subseteq DOMAIN g
      BY <1>0
    <3> QED BY <1>3, <2>2, <3>1, <3>2
  <2> QED BY <1>3, <2>4, <2>5, <2>6 DEF Reaches
<1> QED BY <1>2, <1>3

(* The first of the list is none or the next number; the rest goes on.      *)
LEMMA TailConsecutive ==
  ASSUME NEW n \in Nat \ {0}, NEW f \in [1..n -> Nat], NEW g \in [1..(n-1) -> Nat],
         \A i \in 1..(n-1) : g[i] = f[i+1],
         NEW a \in Nat, Consecutive(f, a)
  PROVE  /\ f[1] = 0 => Consecutive(g, a)
         /\ f[1] # 0 => f[1] = a + 1 /\ Consecutive(g, a + 1)
         /\ \A b \in Nat : Reaches(f, a, b) /\ f[1] = 0 => Reaches(g, a, b)
         /\ \A b \in Nat : Reaches(f, a, b) /\ f[1] # 0 => a + 1 <= b /\ Reaches(g, a + 1, b)
<1>0. /\ DOMAIN f = 1..n /\ DOMAIN g = 1..(n-1) /\ 1 \in 1..n
      /\ \A i \in 1..(n-1) : i + 1 \in 1..n /\ \A j \in 1..(i-1) : j + 1 \in 1..((i+1)-1)
      /\ \A i \in 1..(n-1) : \A j \in 1..(i-1) : j \in 1..(n-1)
      /\ \A i \in 1..(n-1) : \A k \in 1..((i+1)-1) : k = 1 \/ (k - 1 \in 1..(i-1) /\ (k - 1) + 1 = k)
      /\ \A k \in 1..n : k = 1 \/ (k - 1 \in 1..(n-1) /\ (k - 1) + 1 = k)
  OBVIOUS
<1>1. f[1] # 0 => f[1] = a + 1
  <2>1. f[1] # 0 => f[1] > a /\ \A v \in (a+1)..(f[1]-1) : \E j \in 1..(1-1) : f[j] = v
    BY <1>0 DEF Consecutive
  <2>2. f[1] \in Nat
    BY <1>0
  <2>3. f[1] > a /\ f[1] # a + 1 => a + 1 \in (a+1)..(f[1]-1)
    BY <2>2
  <2> QED BY <2>1, <2>3
<1>2. ASSUME NEW i \in 1..(n-1), g[i] # 0
      PROVE  /\ g[i] > a
             /\ \A j \in 1..(i-1) : g[j] < g[i]
             /\ f[1] < g[i]
             /\ \A v \in (a+1)..(g[i]-1) : v = f[1] \/ \E j \in 1..(i-1) : g[j] = v
  <2>1. /\ f[i+1] > a
        /\ \A j \in 1..((i+1)-1) : f[j] < f[i+1]
        /\ \A v \in (a+1)..(f[i+1]-1) : \E j \in 1..((i+1)-1) : f[j] = v
    <3>1. i + 1 \in DOMAIN f /\ f[i+1] # 0
      BY <1>0, <1>2
    <3> QED BY <3>1, Zenon DEF Consecutive
  <2>2. g[i] = f[i+1] /\ \A j \in 1..(i-1) : g[j] = f[j+1]
    BY <1>0
  <2>3. 1 \in 1..((i+1)-1)
    OBVIOUS
  <2>4. \A v \in (a+1)..(g[i]-1) : v = f[1] \/ \E j \in 1..(i-1) : g[j] = v
    <3> SUFFICES ASSUME NEW v \in (a+1)..(g[i]-1), v # f[1]
                 PROVE  \E j \in 1..(i-1) : g[j] = v
      OBVIOUS
    <3>1. PICK k \in 1..((i+1)-1) : f[k] = v
      BY <2>1, <2>2, Zenon
    <3>2. k # 1 /\ k - 1 \in 1..(i-1) /\ (k - 1) + 1 = k
      BY <1>0, <3>1, Zenon
    <3>3. g[k-1] = v
      BY <2>2, <3>1, <3>2
    <3> QED BY <3>2, <3>3
  <2> QED BY <1>0, <2>1, <2>2, <2>3, <2>4
<1>3. CASE f[1] = 0
  <2>1. \A v \in (a+1)..n : v # 0
    OBVIOUS
  <2>2. Consecutive(g, a)
    BY <1>0, <1>2, <1>3, SMTT(30) DEF Consecutive
  <2>3. ASSUME NEW b \in Nat, Reaches(f, a, b) PROVE Reaches(g, a, b)
    <3>1. \A i \in 1..(n-1) : g[i] <= b
      BY <1>0, <2>3 DEF Reaches
    <3>2. ASSUME NEW v \in (a+1)..b PROVE \E i \in 1..(n-1) : g[i] = v
      <4>1. PICK k \in 1..n : f[k] = v
        BY <1>0, <2>3 DEF Reaches
      <4>2. k # 1 /\ k - 1 \in 1..(n-1) /\ (k - 1) + 1 = k
        BY <1>0, <1>3, <4>1
      <4>3. g[k-1] = v
        BY <4>1, <4>2
      <4> QED BY <4>2, <4>3
    <3> QED BY <1>0, <3>1, <3>2 DEF Reaches
  <2> QED BY <1>3, <2>2, <2>3
<1>4. CASE f[1] # 0
  <2>1. f[1] = a + 1
    BY <1>1, <1>4
  <2>2. Consecutive(g, a + 1)
    <3> SUFFICES ASSUME NEW i \in 1..(n-1), g[i] # 0
                 PROVE  /\ g[i] > a + 1
                        /\ \A j \in 1..(i-1) : g[j] < g[i]
                        /\ \A v \in ((a+1)+1)..(g[i]-1) : \E j \in 1..(i-1) : g[j] = v
      BY <1>0, Zenon DEF Consecutive
    <3>1. \A x : \A v \in ((a+1)+1)..x : v # a + 1 /\ v \in (a+1)..x
      OBVIOUS
    <3>2. g[i] \in Nat
      OBVIOUS
    <3> QED BY <1>2, <2>1, <3>1, <3>2
  <2>3. ASSUME NEW b \in Nat, Reaches(f, a, b) PROVE a + 1 <= b /\ Reaches(g, a + 1, b)
    <3>1. \A i \in 1..(n-1) : g[i] <= b
      BY <1>0, <2>3 DEF Reaches
    <3>2. a + 1 <= b
      BY <1>0, <2>1, <2>3 DEF Reaches
    <3>3. ASSUME NEW v \in ((a+1)+1)..b PROVE \E i \in 1..(n-1) : g[i] = v
      <4>0. v \in (a+1)..b /\ v # a + 1
        OBVIOUS
      <4>1. PICK k \in 1..n : f[k] = v
        BY <1>0, <2>3, <4>0 DEF Reaches
      <4>2. k # 1 /\ k - 1 \in 1..(n-1) /\ (k - 1) + 1 = k
        BY <1>0, <2>1, <4>0, <4>1
      <4>3. g[k-1] = v
        BY <4>1, <4>2
      <4> QED BY <4>2, <4>3
    <3> QED BY <1>0, <3>1, <3>2, <3>3 DEF Reaches
  <2> QED BY <1>4, <2>1, <2>2, <2>3
<1> QED BY <1>3, <1>4

(* What is left of a list cut short.                                        *)
LEMMA PrefixConsecutive ==
  ASSUME NEW n \in Nat, NEW f \in [1..n -> Nat], NEW k \in 0..n, NEW g \in [1..k -> Nat],
         \A i \in 1..k : g[i] = f[i], NEW a \in Nat, Consecutive(f, a)
  PROVE  Consecutive(g, a)
<1>1. /\ DOMAIN f = 1..n /\ DOMAIN g = 1..k
      /\ \A i \in 1..k : i \in 1..n
      /\ \A i \in 1..k : \A j \in 1..(i-1) : j \in 1..k
  OBVIOUS
<1> QED BY <1>1 DEF Consecutive
-----------------------------------------------------------------------------
(* Events and chunks.                                                       *)

LEMMA NumbersIsList ==
  ASSUME NEW s \in Seq(EventSet)
  PROVE  Numbers(s) \in [1..Len(s) -> Nat] /\ DOMAIN s = 1..Len(s) /\ Len(s) \in Nat
<1>1. DOMAIN s = 1..Len(s) /\ Len(s) \in Nat /\ \A i \in 1..Len(s) : s[i] \in EventSet
  OBVIOUS
<1> QED BY <1>1 DEF Numbers, EventSet

LEMMA NumsIsList ==
  ASSUME NEW s \in Seq(ChunkSet)
  PROVE  Nums(s) \in [1..Len(s) -> Nat] /\ DOMAIN s = 1..Len(s) /\ Len(s) \in Nat
<1>1. DOMAIN s = 1..Len(s) /\ Len(s) \in Nat /\ \A i \in 1..Len(s) : s[i] \in ChunkSet
  OBVIOUS
<1> QED BY <1>1 DEF Nums, ChunkSet

LEMMA HasNone == Has(<<>>, 0)
<1>1. DOMAIN Numbers(<<>>) = {}
  BY DEF Numbers
<1> QED BY <1>1, NoneConsecutive DEF Has

(* A marker changes nothing, the next text is one more.                     *)
LEMMA HasAppend ==
  ASSUME TypeOK, NEW s \in Seq(EventSet), NEW e \in EventSet, NEW m \in Nat, Has(s, m)
  PROVE  /\ e.kind # "text" => Has(Append(s, e), m)
         /\ e = [kind |-> "text", attempt |-> attempt, n |-> m + 1] => Has(Append(s, e), m + 1)
<1> DEFINE t == Append(s, e)
           n == Len(s)
           f == Numbers(s)
           g == Numbers(t)
<1>1. /\ t \in Seq(EventSet) /\ Len(t) = n + 1 /\ n \in Nat /\ t[n+1] = e
      /\ \A i \in 1..n : t[i] = s[i]
      /\ DOMAIN s = 1..n /\ DOMAIN t = 1..(n+1)
  OBVIOUS
<1> HIDE DEF t
<1>2. f \in [1..n -> Nat] /\ g \in [1..(n+1) -> Nat]
  BY <1>1, NumbersIsList
<1>3. /\ \A i \in 1..n : g[i] = f[i]
      /\ g[n+1] = IF e.kind = "text" THEN e.n ELSE 0
  <2>1. n + 1 \in 1..(n+1) /\ \A i \in 1..n : i \in 1..(n+1)
    BY <1>1
  <2> QED BY <1>1, <2>1, Zenon DEF Numbers
<1>4. \A i \in 1..(n+1) : i \in 1..n \/ i = n + 1
  BY <1>1
<1>5. Consecutive(f, 0) /\ Reaches(f, 0, m)
  BY DEF Has
<1> HIDE DEF f, g, n
<1>6. /\ g[n+1] = 0 => Consecutive(g, 0) /\ Reaches(g, 0, m)
      /\ g[n+1] = m + 1 => Consecutive(g, 0) /\ Reaches(g, 0, m + 1)
  <2>1. 0 \in Nat /\ 0 <= m
    OBVIOUS
  <2> QED BY <1>1, <1>2, <1>3, <1>5, <2>1, AppendConsecutive, Zenon
<1>7. CASE e.kind # "text"
  <2>1. \A i \in DOMAIN t : t[i].kind = "text" => t[i].attempt = attempt /\ t[i].n > 0
    BY <1>1, <1>4, <1>7 DEF Has
  <2>2. Has(t, m)
    BY <1>3, <1>6, <1>7, <2>1 DEF Has, g
  <2> QED BY <1>7, <2>2 DEF t
<1>8. CASE e = [kind |-> "text", attempt |-> attempt, n |-> m + 1]
  <2>0. e.kind = "text" /\ e.n = m + 1 /\ e.attempt = attempt /\ m + 1 > 0
    BY <1>8
  <2>1. \A i \in DOMAIN t : t[i].kind = "text" => t[i].attempt = attempt /\ t[i].n > 0
    BY <1>1, <1>4, <2>0 DEF Has
  <2>2. Has(t, m + 1)
    BY <1>3, <1>6, <2>0, <2>1 DEF Has, g
  <2> QED BY <2>0, <2>2 DEF t
<1> QED BY <1>7, <1>8 DEF t

(* The handler takes the first chunk of the stream.                         *)
LEMMA FeedTake ==
  ASSUME TypeOK, NEW m \in Nat, Feed(m), ch # <<>>, ch' = Tail(ch), src' = src
  PROVE  \/ Head(ch).text = 0 /\ Feed(m)'
         \/ Head(ch).text = m + 1 /\ Feed(m + 1)'
<1> DEFINE n == Len(ch)
           f == Nums(ch)
           g == Nums(ch')
<1>1. /\ ch \in Seq(ChunkSet) /\ ch' \in Seq(ChunkSet) /\ n \in Nat \ {0} /\ Len(ch') = n - 1
      /\ \A i \in 1..(n-1) : ch'[i] = ch[i+1] /\ i + 1 \in 1..n
      /\ DOMAIN ch = 1..n /\ DOMAIN ch' = 1..(n-1) /\ ch[1] = Head(ch) /\ 1 \in 1..n
  BY DEF TypeOK
<1>2. f \in [1..n -> Nat] /\ g \in [1..(n-1) -> Nat]
  <2>1. f \in [1..n -> Nat] /\ g \in [1..Len(ch') -> Nat]
    BY <1>1, NumsIsList, Zenon
  <2> QED BY <1>1, <2>1, Zenon
<1>3. f[1] = Head(ch).text /\ \A i \in 1..(n-1) : g[i] = f[i+1]
  BY <1>1, Zenon DEF Nums
<1>4. Consecutive(f, m) /\ (src.ret \in {"go", "nil"} => m <= Sent /\ Reaches(f, m, Sent))
  BY DEF Feed
<1>5. Sent' = Sent /\ src'.ret = src.ret
  BY DEF Sent, Pending
<1>6. src.ret \in {"go", "nil"} => Sent \in Nat
  <2>1. src.texts \in Nat
    BY DEF TypeOK, Source
  <2> QED BY <1>4, <2>1 DEF Sent
<1>7. /\ f[1] = 0 => Consecutive(g, m)
      /\ f[1] # 0 => f[1] = m + 1 /\ Consecutive(g, m + 1)
      /\ \A b \in Nat : Reaches(f, m, b) /\ f[1] = 0 => Reaches(g, m, b)
      /\ \A b \in Nat : Reaches(f, m, b) /\ f[1] # 0 => m + 1 <= b /\ Reaches(g, m + 1, b)
  <2> HIDE DEF f, g, n
  <2> QED BY <1>1, <1>2, <1>3, <1>4, TailConsecutive, Zenon
<1>8. Nums(ch)' = g
  OBVIOUS
<1> HIDE DEF f, g, n
<1> QED BY <1>3, <1>4, <1>5, <1>6, <1>7, <1>8 DEF Feed

(* What the outcomes of a line are: content, and nothing else, is emitted   *)
(* as text.                                                                 *)
LEMMA OnLineOutcome ==
  ASSUME NEW a \in Adapters, NEW line \in Lines(a)
  PROVE  /\ OnLine(a, line).emit \in {"none", "text", "done", "textdone"}
         /\ OnLine(a, line).ret \in {"go", "nil", "internal"}
         /\ line \in Content <=> OnLine(a, line).emit \in {"text", "textdone"}
         /\ OnLine(a, line).emit # "none" => OnLine(a, line).ret \in {"go", "nil"}
<1>1. CASE a = "vllm"
  BY <1>1 DEF OnLine, vllm, Lines, Endings, Content, Outcome
<1>2. CASE a = "ollama"
  BY <1>2 DEF OnLine, ollama, Lines, Endings, Content, Outcome
<1>3. CASE a = "openai"
  BY <1>3 DEF OnLine, openai, Lines, Endings, Content, Outcome
<1> QED BY <1>1, <1>2, <1>3 DEF Adapters
-----------------------------------------------------------------------------
(* The producer.                                                            *)

Places == {"quiet", "post", "scan", "send", "end", "close", "ended"}
Returns == {"go", "nil"} \cup Errors

LEMMA SourceFields ==
  ASSUME TypeOK
  PROVE  /\ src \in Source /\ src.at \in Places
         /\ src.emit \in {"none", "text", "done", "textdone"} /\ src.ret \in Returns
         /\ src.lines \in Nat /\ src.texts \in Nat
BY DEF TypeOK, Source, Places, Returns

LEMMA GoesFields ==
  ASSUME TypeOK, NEW to \in Places, Goes(to)
  PROVE  /\ src' \in Source /\ src'.at = to /\ src'.emit = src.emit /\ src'.ret = src.ret
         /\ src'.texts = src.texts
<1>1. src \in Source /\ src' = [src EXCEPT !.at = to]
  BY DEF TypeOK, Goes
<1> QED BY <1>1, Zenon DEF Source, Places

LEMMA EndsFields ==
  ASSUME TypeOK, NEW r \in Returns, Ends(r)
  PROVE  /\ src' \in Source /\ src'.at = "end" /\ src'.emit = src.emit /\ src'.ret = r
         /\ src'.texts = src.texts
<1>1. src \in Source /\ src' = [src EXCEPT !.at = "end", !.ret = r]
  BY DEF TypeOK, Ends
<1> QED BY <1>1, Zenon DEF Source, Returns

(* One turn of the scanner loop.                                            *)
LEMMA TakesFields ==
  ASSUME TypeOK, NEW line \in Lines(adapter), Takes(line)
  PROVE  \/ /\ src' \in Source /\ src'.at \in {"scan", "send", "end"}
            /\ src'.at = "send" => src'.ret \in {"go", "nil"}
            /\ src'.at = "scan" => src'.ret = "go"
            /\ src'.at = "end" => src'.ret # "go"
            /\ \/ src'.texts = src.texts /\ ~(src'.at = "send" /\ src'.emit \in {"text", "textdone"})
               \/ /\ src'.texts = src.texts + 1
                  /\ src'.at = "send" /\ src'.emit \in {"text", "textdone"}
         \/ Ends("notfound")
<1>0. /\ src \in Source /\ src.lines \in Nat /\ src.texts \in Nat /\ adapter \in Adapters
      /\ src.lines + 1 \in Nat /\ src.texts + 1 \in Nat
  BY SourceFields DEF TypeOK
<1> DEFINE o == OnLine(adapter, line)
           k == IF line \in Content THEN src.texts + 1 ELSE src.texts
           to == IF o.emit # "none" THEN "send" ELSE IF o.ret = "go" THEN "scan" ELSE "end"
           emitted == [src EXCEPT !.lines = @ + 1, !.emit = o.emit, !.ret = o.ret,
                                  !.texts = IF line \in Content THEN @ + 1 ELSE @]
<1>1. /\ o.emit \in {"none", "text", "done", "textdone"} /\ o.ret \in {"go", "nil", "internal"}
      /\ line \in Content <=> o.emit \in {"text", "textdone"}
      /\ o.emit # "none" => o.ret \in {"go", "nil"}
  BY <1>0, OnLineOutcome
<1> HIDE DEF o
<1>2. k \in Nat /\ (k = src.texts \/ k = src.texts + 1)
  BY <1>0
<1>3. /\ emitted \in Source /\ emitted.emit = o.emit /\ emitted.ret = o.ret /\ emitted.texts = k
  <2>1. emitted = [src EXCEPT !.lines = src.lines + 1, !.emit = o.emit, !.ret = o.ret,
                              !.texts = k]
    BY <1>0, Zenon DEF Source
  <2>2. o.ret \in {"go", "nil"} \cup Errors
    BY <1>1 DEF Errors
  <2> HIDE DEF k, emitted
  <2> QED BY <1>0, <1>1, <1>2, <2>1, <2>2, Zenon DEF Source
<1>4. to \in {"scan", "send", "end"}
  OBVIOUS
<1>5. \/ src' = [emitted EXCEPT !.at = to]
      \/ Ends("notfound")
  BY Zenon DEF Takes, o
<1> HIDE DEF emitted
<1>6. ASSUME src' = [emitted EXCEPT !.at = to]
      PROVE  /\ src' \in Source /\ src'.at = to /\ src'.emit = o.emit /\ src'.ret = o.ret
             /\ src'.texts = k
  <2> HIDE DEF to, k
  <2> QED BY <1>3, <1>4, <1>6, Zenon DEF Source
<1> QED BY <1>1, <1>5, <1>6
(* What a step of the producer does to the stream: nothing, one more chunk, *)
(* or it is cut short and has failed.                                       *)
Reads ==
  /\ ch' = ch
  /\ src'.ret \in {"go", "nil"} => src.ret \in {"go", "nil"} /\ Sent' = Sent
Sends ==
  /\ ch' = Append(ch, Chunk) /\ src.ret \in {"go", "nil"} /\ Chunk \in ChunkSet
  /\ \/ Chunk.text = 0 /\ Sent' = Sent
     \/ Chunk.text = Sent + 1 /\ Sent' = Sent + 1
Loses == src'.ret = "unavailable" /\ \E n \in 0..Len(ch) : ch' = SubSeq(ch, 1, n)

LEMMA ProducerMoves ==
  ASSUME TypeOK, SourceInv, Producer
  PROVE  /\ src' \in Source /\ ch' \in Seq(ChunkSet)
         /\ chErr' \in {"none", "nil"} \cup Errors /\ closed' \in BOOLEAN
         /\ SourceInv'
         /\ src.at \notin {"quiet", "ended"}
         /\ Reads \/ Sends \/ Loses
<1>0. /\ src \in Source /\ src.at \in Places /\ src.ret \in Returns /\ src.texts \in Nat
      /\ ch \in Seq(ChunkSet) /\ chErr \in {"none", "nil"} \cup Errors
      /\ closed \in BOOLEAN
  BY SourceFields DEF TypeOK
<1>p. /\ "scan" \in Places /\ "end" \in Places /\ "close" \in Places /\ "ended" \in Places
      /\ "internal" \in Returns /\ "notfound" \in Returns /\ "cancelled" \in Returns
      /\ "unavailable" \in Returns
  BY DEF Places, Returns, Errors
<1>1. CASE Post
  <2>1. /\ src.at = "post" /\ UNCHANGED <<ch, chErr, closed>>
        /\ Goes("scan") \/ Ends("internal") \/ Ends("notfound")
    BY <1>1 DEF Post, PostOutcomes
  <2>2. CASE Goes("scan")
    <3>1. src' \in Source /\ src'.at = "scan" /\ src'.ret = src.ret /\ src'.texts = src.texts
      BY <1>p, <2>2, GoesFields
    <3> QED BY <1>0, <2>1, <3>1 DEF SourceInv, Pending, Sent, Reads
  <2>3. CASE Ends("internal") \/ Ends("notfound")
    <3>1. src' \in Source /\ src'.at = "end" /\ src'.ret \in {"internal", "notfound"}
      BY <1>p, <2>3, EndsFields
    <3> QED BY <1>0, <2>1, <3>1 DEF SourceInv, Pending, Reads
  <2> QED BY <2>1, <2>2, <2>3
<1>2. CASE Scan
  <2>1. PICK line \in Lines(adapter) : Takes(line)
    BY <1>2 DEF Scan
  <2>2. src.at = "scan" /\ src.ret = "go" /\ UNCHANGED <<ch, chErr, closed>>
    BY <1>2 DEF Scan, SourceInv
  <2>3. CASE Ends("notfound")
    <3>1. src' \in Source /\ src'.at = "end" /\ src'.ret = "notfound"
      BY <1>p, <2>3, EndsFields
    <3> QED BY <1>0, <2>2, <3>1 DEF SourceInv, Pending, Reads
  <2>4. CASE ~Ends("notfound")
    <3>1. /\ src' \in Source /\ src'.at \in {"scan", "send", "end"}
          /\ src'.at = "send" => src'.ret \in {"go", "nil"}
          /\ src'.at = "scan" => src'.ret = "go"
          /\ src'.at = "end" => src'.ret # "go"
          /\ \/ src'.texts = src.texts /\ ~(src'.at = "send" /\ src'.emit \in {"text", "textdone"})
             \/ /\ src'.texts = src.texts + 1
                /\ src'.at = "send" /\ src'.emit \in {"text", "textdone"}
      BY <2>1, <2>4, TakesFields, Zenon
    <3>2. Sent = src.texts /\ ~Pending
      BY <2>2 DEF Sent, Pending
    <3>3. Sent' = src.texts /\ (Pending' => src'.texts > 0)
      BY <1>0, <3>1 DEF Sent, Pending
    <3> QED BY <1>0, <2>2, <3>1, <3>2, <3>3 DEF SourceInv, Reads
  <2> QED BY <2>3, <2>4
<1>3. CASE SeesCancel
  <2>1. src.at \in {"post", "scan"} /\ src.ret = "go" /\ UNCHANGED <<ch, chErr, closed>>
    BY <1>3 DEF SeesCancel, SourceInv
  <2>2. CASE Ends("cancelled")
    <3>1. src' \in Source /\ src'.at = "end" /\ src'.ret = "cancelled"
      BY <1>p, <2>2, EndsFields
    <3> QED BY <1>0, <2>1, <3>1 DEF SourceInv, Pending, Reads
  <2>3. CASE src' = [src EXCEPT !.at = "send", !.emit = "done", !.ret = "nil"]
    <3>1. /\ src' \in Source /\ src'.at = "send" /\ src'.emit = "done" /\ src'.ret = "nil"
          /\ src'.texts = src.texts
      BY <1>0, <2>3, Zenon DEF Source
    <3>2. Sent' = src.texts /\ Sent = src.texts /\ ~Pending'
      BY <2>1, <3>1 DEF Sent, Pending
    <3> QED BY <1>0, <2>1, <3>1, <3>2 DEF SourceInv, Reads
  <2> QED BY <1>3, <2>2, <2>3 DEF SeesCancel
<1>4. CASE SendRoom
  <2>1. /\ src.at = "send" /\ src.ret \in {"go", "nil"} /\ UNCHANGED <<chErr, closed>>
        /\ ch' = Append(ch, Chunk)
        /\ Goes(IF src.ret = "go" THEN "scan" ELSE "end")
    BY <1>4 DEF SendRoom, SourceInv
  <2>2. /\ src' \in Source /\ src'.at \in {"scan", "end"} /\ src'.ret = src.ret
        /\ src'.texts = src.texts /\ (src'.at = "scan" <=> src.ret = "go")
    <3> DEFINE to == IF src.ret = "go" THEN "scan" ELSE "end"
    <3>1. to \in Places /\ to \in {"scan", "end"} /\ (to = "scan" <=> src.ret = "go")
      BY <1>p
    <3>2. Goes(to)
      BY <2>1
    <3> HIDE DEF to
    <3> QED BY <3>1, <3>2, GoesFields
  <2>3. Sent' = src.texts /\ ~Pending'
    BY <2>2 DEF Sent, Pending
  <2>4. Chunk \in ChunkSet
    BY <1>0 DEF Chunk, ChunkSet
  <2>5. \/ Chunk.text = 0 /\ Sent = src.texts
        \/ Chunk.text = src.texts /\ Sent = src.texts - 1
    BY <2>1 DEF Chunk, Sent, Pending
  <2>6. Sends
    BY <1>0, <2>1, <2>3, <2>4, <2>5 DEF Sends
  <2> QED BY <1>0, <2>1, <2>2, <2>3, <2>4, <2>6 DEF SourceInv
<1>5. CASE SendCancelled
  <2>1. src.at = "send" /\ UNCHANGED <<ch, chErr, closed>> /\ Ends("cancelled")
    BY <1>5 DEF SendCancelled
  <2>2. src' \in Source /\ src'.at = "end" /\ src'.ret = "cancelled"
    BY <1>p, <2>1, EndsFields
  <2> QED BY <1>0, <2>1, <2>2 DEF SourceInv, Pending, Reads
<1>6. CASE Report \/ Trailer \/ Close
  <2>1. /\ src.at \in {"end", "close"} /\ src.ret # "go" /\ ch' = ch
        /\ \/ Goes("close") /\ chErr' = src.ret /\ closed' = closed /\ src.at = "end"
           \/ Goes("ended") /\ chErr' = src.ret /\ closed' = TRUE
    BY <1>6 DEF Report, Trailer, Close, SourceInv
  <2>2. /\ src' \in Source /\ src'.at \in {"close", "ended"} /\ src'.ret = src.ret
        /\ src'.texts = src.texts /\ (src'.at = "ended" <=> closed') /\ chErr' = src.ret
        /\ closed' \in BOOLEAN
    <3>1. CASE Goes("close") /\ chErr' = src.ret /\ closed' = closed /\ src.at = "end"
      BY <1>0, <1>p, <3>1, GoesFields DEF SourceInv
    <3>2. CASE Goes("ended") /\ chErr' = src.ret /\ closed' = TRUE
      BY <1>p, <3>2, GoesFields
    <3> QED BY <2>1, <3>1, <3>2, Zenon
  <2>3. Sent' = src.texts /\ Sent = src.texts /\ ~Pending'
    BY <2>1, <2>2 DEF Sent, Pending
  <2>4. chErr' \in {"none", "nil"} \cup Errors
    BY <1>0, <2>1, <2>2 DEF Returns
  <2>5. Reads
    BY <2>1, <2>2, <2>3 DEF Reads
  <2> QED BY <1>0, <2>1, <2>2, <2>3, <2>4, <2>5 DEF SourceInv
<1>7. CASE WorkerLost
  <2>1. /\ src.at \in {"post", "scan", "send", "end"} /\ chErr' = "unavailable" /\ closed' = TRUE
        /\ src' = [src EXCEPT !.at = "ended", !.ret = "unavailable"]
        /\ \E n \in 0..Len(ch) : ch' = SubSeq(ch, 1, n)
    BY <1>7 DEF WorkerLost
  <2>2. src' \in Source /\ src'.at = "ended" /\ src'.ret = "unavailable"
    BY <1>0, <2>1, Zenon DEF Source, Errors
  <2>3. ch' \in Seq(ChunkSet)
    <3>1. PICK n \in 0..Len(ch) : ch' = SubSeq(ch, 1, n)
      BY <2>1
    <3> QED BY <1>0, <3>1
  <2>4. "unavailable" \in Errors
    BY DEF Errors
  <2> QED BY <2>1, <2>2, <2>3, <2>4 DEF SourceInv, Pending, Loses
<1> QED BY <1>1, <1>2, <1>3, <1>4, <1>5, <1>6, <1>7 DEF Producer

(* The stream goes on feeding the handler, whatever the producer does.      *)
LEMMA ProducerFeeds ==
  ASSUME TypeOK, SourceInv, Producer, NEW m \in Nat, Feed(m)
  PROVE  Feed(m)'
<1>a. Reads \/ Sends \/ Loses
  BY ProducerMoves
<1>0. ch \in Seq(ChunkSet) /\ ch' \in Seq(ChunkSet)
  BY ProducerMoves DEF TypeOK
<1>1. CASE Reads
  <2>1. Nums(ch)' = Nums(ch)
    BY <1>1 DEF Reads
  <2> QED BY <1>1, <2>1 DEF Reads, Feed
<1> DEFINE n == Len(ch)
           f == Nums(ch)
           g == Nums(ch')
<1>2. CASE Sends
  <2>1. /\ ch' = Append(ch, Chunk) /\ Chunk \in ChunkSet /\ src.ret \in {"go", "nil"}
        /\ \/ Chunk.text = 0 /\ Sent' = Sent
           \/ Chunk.text = Sent + 1 /\ Sent' = Sent + 1
    BY <1>2 DEF Sends
  <2>2. m <= Sent /\ Reaches(f, m, Sent) /\ Consecutive(f, m) /\ Sent \in Nat
    <3>1. src.texts \in Nat
      BY SourceFields
    <3>2. m <= Sent /\ Reaches(f, m, Sent) /\ Consecutive(f, m)
      BY <2>1 DEF Feed
    <3> QED BY <3>1, <3>2 DEF Sent
  <2>3. /\ n \in Nat /\ Len(ch') = n + 1 /\ DOMAIN ch = 1..n /\ DOMAIN ch' = 1..(n+1)
        /\ n + 1 \in 1..(n+1) /\ ch'[n+1] = Chunk
        /\ \A i \in 1..n : ch'[i] = ch[i] /\ i \in 1..(n+1)
    BY <1>0, <2>1
  <2>4. f \in [1..n -> Nat] /\ g \in [1..(n+1) -> Nat]
    <3>1. f \in [1..n -> Nat] /\ g \in [1..Len(ch') -> Nat]
      BY <1>0, NumsIsList, Zenon
    <3> QED BY <2>3, <3>1, Zenon
  <2>5. g[n+1] = Chunk.text /\ \A i \in 1..n : g[i] = f[i]
    BY <2>3, Zenon DEF Nums
  <2>6. Nums(ch)' = g
    OBVIOUS
  <2> HIDE DEF n, f, g
  <2>7. /\ g[n+1] = 0 => Consecutive(g, m) /\ Reaches(g, m, Sent)
        /\ g[n+1] = Sent + 1 => Consecutive(g, m) /\ Reaches(g, m, Sent + 1)
    BY <2>2, <2>3, <2>4, <2>5, AppendConsecutive, Zenon
  <2>8. m <= Sent + 1
    BY <2>2
  <2> QED BY <2>1, <2>2, <2>5, <2>6, <2>7, <2>8 DEF Feed
<1>3. CASE Loses
  <2>1. PICK k \in 0..Len(ch) : ch' = SubSeq(ch, 1, k)
    BY <1>3 DEF Loses
  <2>2. /\ n \in Nat /\ k \in 0..n /\ Len(ch') = k /\ DOMAIN ch = 1..n /\ DOMAIN ch' = 1..k
        /\ \A i \in 1..k : ch'[i] = ch[i] /\ i \in 1..n
    <3>1. k \in Int /\ \A i \in 1..k : i \in 1..Len(ch)
      BY <1>0, <2>1
    <3> QED BY <1>0, <2>1, <3>1
  <2>3. f \in [1..n -> Nat] /\ g \in [1..k -> Nat]
    <3>1. f \in [1..n -> Nat] /\ g \in [1..Len(ch') -> Nat]
      BY <1>0, NumsIsList, Zenon
    <3> QED BY <2>2, <3>1, Zenon
  <2>4. \A i \in 1..k : g[i] = f[i]
    BY <2>2, Zenon DEF Nums
  <2>5. Nums(ch)' = g /\ Consecutive(f, m)
    BY DEF Feed
  <2> HIDE DEF n, f, g
  <2>6. Consecutive(g, m)
    BY <2>2, <2>3, <2>4, <2>5, PrefixConsecutive, Zenon
  <2>7. src'.ret = "unavailable"
    BY <1>3 DEF Loses
  <2> QED BY <2>5, <2>6, <2>7 DEF Feed
<1> QED BY <1>a, <1>1, <1>2, <1>3
-----------------------------------------------------------------------------
(* The handler: what its steps do to the texts.                             *)

Early == {"begin", "open", "collect", "first"}

(* An error is answered, or the next worker is tried.                       *)
GivesUp ==
  /\ con \in Early /\ con' = "returned"
  /\ UNCHANGED <<adapter, attempt, src, ch, chErr, closed, held, text, out>>
Retries ==
  /\ con \in Early /\ con' = "open" /\ attempt' = attempt + 1 /\ adapter' \in Adapters
  /\ UNCHANGED <<src, ch, chErr, closed, held, text, out>>

(* A non-streaming answer.                                                  *)
Gathers ==
  /\ con = "collect" /\ con' = "collect" /\ ch # <<>> /\ ch' = Tail(ch)
  /\ text' = IF Head(ch).text = 0 THEN text ELSE Append(text, TextEvent(Head(ch)))
  /\ UNCHANGED <<adapter, attempt, src, chErr, closed, held, out>>
Replies ==
  /\ con = "collect" /\ con' = "returned" /\ RecvEOF
  /\ out' = Append(text, Event("answer"))
  /\ UNCHANGED <<adapter, attempt, src, ch, chErr, closed, held, text>>

(* A stream: the first chunk, a text, a marker that leaves the handler at   *)
(* to, and the client that has left.                                        *)
Begins ==
  /\ con = "first" /\ con' = "role"
  /\ \/ ch # <<>> /\ ch' = Tail(ch) /\ held' = <<Head(ch)>>
     \/ UNCHANGED <<ch, held>>
  /\ UNCHANGED <<adapter, attempt, src, chErr, closed, text, out>>
Passes ==
  /\ con = "relay" /\ con' = "relay"
  /\ \E c \in ChunkSet :
       /\ \/ held # <<>> /\ c = held[1] /\ held' = <<>> /\ ch' = ch
          \/ held = <<>> /\ ch # <<>> /\ c = Head(ch) /\ ch' = Tail(ch) /\ held' = held
       /\ out' = IF c.text = 0 THEN out ELSE Append(out, TextEvent(c))
  /\ UNCHANGED <<adapter, attempt, src, chErr, closed, text>>
Marks(kind, from, to) ==
  /\ con = from /\ con' = to /\ out' = Append(out, Event(kind))
  /\ UNCHANGED <<adapter, attempt, src, ch, chErr, closed, held, text>>
Skips(from, to) ==
  /\ con = from /\ con' = to
  /\ UNCHANGED <<adapter, attempt, src, ch, chErr, closed, held, text, out>>
Aborts ==
  /\ con \in {"role", "relay", "usage", "done"} /\ con' = "returned"
  /\ ch' = ch \/ (ch # <<>> /\ ch' = Tail(ch))
  /\ held' = held \/ held' = <<>>
  /\ UNCHANGED <<adapter, attempt, src, chErr, closed, text, out>>

Streams ==
  \/ Begins \/ Passes \/ Aborts
  \/ Marks("role", "role", "relay") \/ Skips("role", "relay")
  \/ Marks("error", "relay", "returned")
  \/ Marks("stop", "relay", "usage") /\ held = <<>> /\ RecvEOF
  \/ Marks("usage", "usage", "done") \/ Skips("usage", "done")
  \/ Marks("[DONE]", "done", "returned")

LEMMA WritesEvent ==
  ASSUME TypeOK
  PROVE  out \o <<>> = out /\ \A e \in EventSet : out \o <<e>> = Append(out, e)
<1>1. out \in Seq(EventSet)
  BY DEF TypeOK
<1> QED BY <1>1

LEMMA EventIsEvent ==
  ASSUME TypeOK
  PROVE  /\ \A k \in Kinds : Event(k) \in EventSet /\ Event(k).kind = k
         /\ \A c \in ChunkSet : TextEvent(c) \in EventSet /\ TextEvent(c).kind = "text"
BY DEF Event, TextEvent, EventSet, ChunkSet, TypeOK, Kinds

LEMMA AttemptFailedMoves ==
  ASSUME con \in Early, NEW e, AttemptFailed(e)
  PROVE  GivesUp \/ Retries
BY DEF AttemptFailed, Return, Retries, GivesUp, streamVars, Env

LEMMA HandlerMoves ==
  ASSUME TypeOK, Handler
  PROVE  GivesUp \/ Retries \/ Open \/ Gathers \/ Replies \/ Streams
<1> USE DEF Env, streamVars, clientVars
<1>0. ch \in Seq(ChunkSet) /\ held \in Seq(ChunkSet)
  BY DEF TypeOK
<1>e. /\ out \o <<>> = out
      /\ out \o <<Event("role")>> = Append(out, Event("role"))
      /\ out \o <<Event("stop")>> = Append(out, Event("stop"))
      /\ out \o <<Event("usage")>> = Append(out, Event("usage"))
      /\ \A c \in ChunkSet : out \o <<TextEvent(c)>> = Append(out, TextEvent(c))
  BY WritesEvent, EventIsEvent DEF Kinds
<1>1. CASE BadRequest \/ RankFails \/ Saturated
  BY <1>1 DEF BadRequest, RankFails, Saturated, Return, GivesUp, Early
<1>2. CASE OpenFails
  BY <1>2, AttemptFailedMoves DEF OpenFails, Early
<1>3. CASE Collect
  <2>1. CASE RecvError # "none" /\ AttemptFailed(RecvError)
    BY <1>3, <2>1, AttemptFailedMoves DEF Collect, Early
  <2>2. CASE ~(RecvError # "none" /\ AttemptFailed(RecvError))
    BY <1>3, <2>2 DEF Collect, RecvChunk, Takes1, Return, Gathers, Replies
  <2> QED BY <2>1, <2>2
<1>4. CASE First
  <2>1. CASE RecvError # "none" /\ AttemptFailed(RecvError)
    BY <1>4, <2>1, AttemptFailedMoves DEF First, Early
  <2>2. CASE ~(RecvError # "none" /\ AttemptFailed(RecvError))
    BY <1>4, <2>2 DEF First, RecvChunk, Takes1, Begins, Streams
  <2> QED BY <2>1, <2>2
<1>5. CASE Role
  <2>1. con = "role" /\ UNCHANGED <<adapter, attempt, src, ch, chErr, closed, held, text>>
    BY <1>5 DEF Role
  <2>2. \/ con' = "relay" /\ out' = Append(out, Event("role"))
        \/ con' = "relay" /\ out' = out
        \/ con' = "returned" /\ out' = out
    <3>1. Writes(IF req.route = "chat" THEN <<Event("role")>> ELSE <<>>, "relay")
      BY <1>5 DEF Role
    <3>2. CASE req.route = "chat"
      BY <1>e, <3>1, <3>2 DEF Writes, Return
    <3>3. CASE req.route # "chat"
      BY <1>e, <3>1, <3>3, Zenon DEF Writes, Return
    <3> QED BY <3>2, <3>3
  <2>3. Marks("role", "role", "relay") \/ Skips("role", "relay") \/ Aborts
    BY <2>1, <2>2 DEF Marks, Skips, Aborts
  <2> QED BY <2>3 DEF Streams
<1>6. CASE Relay
  <2>1. PICK c \in ChunkSet :
          /\ \/ held # <<>> /\ c = held[1] /\ held' = <<>> /\ ch' = ch
             \/ held = <<>> /\ ch # <<>> /\ c = Head(ch) /\ ch' = Tail(ch) /\ held' = held
          /\ Handle(c) /\ con = "relay" /\ UNCHANGED <<src, chErr, closed>>
    <3>1. held # <<>> => held[1] \in ChunkSet
      BY <1>0
    <3>2. ch # <<>> => Head(ch) \in ChunkSet
      BY <1>0
    <3> QED BY <1>6, <3>1, <3>2 DEF Relay, RecvChunk, Takes1
  <2>2. \/ out' = (IF c.text = 0 THEN out ELSE Append(out, TextEvent(c))) /\ con' = con
        \/ out' = out /\ con' = "returned"
    BY <1>e, <2>1 DEF Handle, Writes, Return
  <2>3. UNCHANGED <<adapter, attempt, text>>
    BY <2>1 DEF Handle
  <2>4. Passes \/ Aborts
    <3>1. CASE /\ out' = (IF c.text = 0 THEN out ELSE Append(out, TextEvent(c)))
               /\ con' = con
      BY <2>1, <2>3, <3>1, Zenon DEF Passes
    <3>2. CASE out' = out /\ con' = "returned"
      BY <2>1, <2>3, <3>2 DEF Aborts
    <3> QED BY <2>2, <3>1, <3>2
  <2> QED BY <2>4 DEF Streams
<1>7. CASE RelayFails
  <2>1. /\ con = "relay" /\ con' = "returned"
        /\ out' = Append(out, Event("error")) \/ out' = out
        /\ UNCHANGED <<adapter, attempt, src, ch, chErr, closed, held, text>>
    BY <1>7 DEF RelayFails, Return
  <2>2. Marks("error", "relay", "returned") \/ Aborts
    BY <2>1 DEF Marks, Aborts
  <2> QED BY <2>2 DEF Streams
<1>8. CASE Finish
  <2>1. UNCHANGED <<adapter, attempt, src, ch, chErr, closed, held, text>>
    BY <1>8 DEF Finish
  <2>2. CASE con = "relay" /\ held = <<>> /\ RecvEOF /\ Writes(<<Event("stop")>>, "usage")
    <3>1. \/ con' = "usage" /\ out' = Append(out, Event("stop"))
          \/ con' = "returned" /\ out' = out
      BY <1>e, <2>2 DEF Writes, Return
    <3>2. Marks("stop", "relay", "usage") \/ Aborts
      BY <2>1, <2>2, <3>1 DEF Marks, Aborts
    <3> QED BY <2>2, <3>2 DEF Streams
  <2>3. CASE con = "usage" /\ Writes(IF req.usage /\ fin THEN <<Event("usage")>> ELSE <<>>, "done")
    <3>1. \/ con' = "done" /\ out' = Append(out, Event("usage"))
          \/ con' = "done" /\ out' = out
          \/ con' = "returned" /\ out' = out
      <4>1. CASE req.usage /\ fin
        BY <1>e, <2>3, <4>1, Zenon DEF Writes, Return
      <4>2. CASE ~(req.usage /\ fin)
        BY <1>e, <2>3, <4>2, Zenon DEF Writes, Return
      <4> QED BY <4>1, <4>2
    <3>2. Marks("usage", "usage", "done") \/ Skips("usage", "done") \/ Aborts
      BY <2>1, <2>3, <3>1 DEF Marks, Skips, Aborts
    <3> QED BY <3>2 DEF Streams
  <2>4. CASE con = "done" /\ con' = "returned" /\ out' \in {out, Append(out, Event("[DONE]"))}
    <3>1. Marks("[DONE]", "done", "returned") \/ Aborts
      BY <2>1, <2>4 DEF Marks, Aborts
    <3> QED BY <3>1 DEF Streams
  <2> QED BY <1>8, <2>2, <2>3, <2>4 DEF Finish, Return
<1>9. CASE Open
  BY <1>9
<1> QED BY <1>1, <1>2, <1>3, <1>4, <1>5, <1>6, <1>7, <1>8, <1>9 DEF Handler, streamFailover
(* What Open starts.                                                        *)
LEMMA OpenFields ==
  ASSUME Open
  PROVE  /\ con \in {"begin", "open"} /\ con' \in {"first", "collect"}
         /\ src' \in Source /\ src'.at = "post" /\ src'.ret = "go" /\ src'.texts = 0
         /\ ch' = <<>> /\ chErr' = "none" /\ closed' = FALSE /\ text' = <<>>
         /\ UNCHANGED <<adapter, attempt, held, out>>
<1>1. /\ con \in {"begin", "open"} /\ con' \in {"first", "collect"}
      /\ src' = [Quiet EXCEPT !.at = "post"]
      /\ ch' = <<>> /\ chErr' = "none" /\ closed' = FALSE /\ text' = <<>>
      /\ UNCHANGED <<adapter, attempt, held, out>>
  BY Zenon DEF Open
<1>2. src' = [at |-> "post", emit |-> "none", ret |-> "go", lines |-> 0, texts |-> 0]
  BY <1>1, Zenon DEF Quiet
<1>3. src'.at = "post" /\ src'.ret = "go" /\ src'.texts = 0
  BY <1>2
<1>4. src' \in Source
  BY <1>2 DEF Source
<1> QED BY <1>1, <1>3, <1>4

LEMMA TypeInit == Init => TypeOK /\ SourceInv
<1> SUFFICES ASSUME Init PROVE TypeOK /\ SourceInv
  OBVIOUS
<1>1. src = [at |-> "quiet", emit |-> "none", ret |-> "go", lines |-> 0, texts |-> 0]
  BY DEF Init, Quiet
<1>2. src \in Source
  BY <1>1 DEF Source
<1>3. SourceInv
  BY <1>1 DEF Init, SourceInv, Pending
<1>4. ch \in Seq(ChunkSet) /\ held \in Seq(ChunkSet) /\ text \in Seq(EventSet) /\ out \in Seq(EventSet)
  BY DEF Init
<1>5. /\ adapter \in Adapters /\ attempt \in Nat
      /\ chErr \in {"none", "nil"} \cup Errors
      /\ con \in {"begin", "open", "collect", "first", "role", "relay", "usage", "done", "returned"}
  BY DEF Init
<1>6. closed \in BOOLEAN
  BY Zenon DEF Init
<1> QED BY <1>2, <1>3, <1>4, <1>5, <1>6, Zenon DEF TypeOK

(* The client leaving and the deadline passing change nothing else.         *)
LEMMA ClientMoves ==
  ASSUME Disconnect \/ Expire \/ UNCHANGED vars
  PROVE  UNCHANGED <<req, adapter, attempt, src, ch, chErr, closed, con, held, text, out,
                     status, log, audit>>
BY DEF Disconnect, Expire, Others, streamVars, clientVars, vars

LEMMA TypeNext == TypeOK /\ SourceInv /\ [Next]_vars => TypeOK' /\ SourceInv'
<1> SUFFICES ASSUME TypeOK, SourceInv, [Next]_vars PROVE TypeOK' /\ SourceInv'
  OBVIOUS
<1>0. /\ adapter \in Adapters /\ attempt \in Nat
      /\ src \in Source /\ ch \in Seq(ChunkSet)
      /\ chErr \in {"none", "nil"} \cup Errors /\ closed \in BOOLEAN
      /\ con \in {"begin", "open", "collect", "first", "role", "relay", "usage", "done", "returned"}
      /\ held \in Seq(ChunkSet) /\ text \in Seq(EventSet) /\ out \in Seq(EventSet)
  BY DEF TypeOK
<1>k. /\ ch # <<>> => Tail(ch) \in Seq(ChunkSet) /\ Head(ch) \in ChunkSet /\ <<Head(ch)>> \in Seq(ChunkSet)
      /\ \A s \in Seq(EventSet), e \in EventSet : Append(s, e) \in Seq(EventSet)
      /\ <<>> \in Seq(ChunkSet) /\ <<>> \in Seq(EventSet)
  BY <1>0
<1>e. /\ \A k \in Kinds : Event(k) \in EventSet
      /\ \A c \in ChunkSet : TextEvent(c) \in EventSet
  BY EventIsEvent
<1>1. CASE Producer
  <2>1. UNCHANGED <<adapter, attempt, con, held, text, out>>
    BY <1>1 DEF Producer, clientVars
  <2> QED BY <1>0, <1>1, <2>1, ProducerMoves DEF TypeOK
<1>s. UNCHANGED <<src, chErr, closed>> => SourceInv'
  BY DEF SourceInv, Pending
<1>2. CASE GivesUp \/ Retries
  <2>1. TypeOK'
    BY <1>0, <1>2 DEF GivesUp, Retries, TypeOK
  <2> QED BY <1>2, <1>s, <2>1 DEF GivesUp, Retries
<1>3. CASE Open
  <2>1. TypeOK'
    BY <1>0, <1>3, <1>k, OpenFields DEF TypeOK
  <2> QED BY <1>3, <2>1, OpenFields DEF SourceInv, Pending
<1>4. CASE Gathers
  <2>1. text' \in Seq(EventSet) /\ ch' \in Seq(ChunkSet)
    BY <1>0, <1>4, <1>k, <1>e DEF Gathers
  <2> QED BY <1>0, <1>4, <1>s, <2>1 DEF Gathers, TypeOK
<1>5. CASE Replies
  <2>1. out' \in Seq(EventSet)
    BY <1>0, <1>5, <1>k, <1>e DEF Replies, Kinds
  <2> QED BY <1>0, <1>5, <1>s, <2>1 DEF Replies, TypeOK
<1>6. CASE Streams
  <2>1. /\ UNCHANGED <<adapter, attempt, src, chErr, closed, text>>
        /\ con' \in {"role", "relay", "usage", "done", "returned"}
    BY <1>6 DEF Streams, Begins, Passes, Marks, Skips, Aborts
  <2>2. ch' \in Seq(ChunkSet) /\ held' \in Seq(ChunkSet)
    <3>1. ch' = ch \/ (ch # <<>> /\ ch' = Tail(ch))
      BY <1>6, Zenon DEF Streams, Begins, Aborts, Passes, Marks, Skips
    <3>2. held' = held \/ held' = <<>> \/ (ch # <<>> /\ held' = <<Head(ch)>>)
      BY <1>6, Zenon DEF Streams, Begins, Aborts, Passes, Marks, Skips
    <3>3. ch' \in Seq(ChunkSet)
      BY <1>0, <1>k, <3>1, Zenon
    <3>4. held' \in Seq(ChunkSet)
      BY <1>0, <1>k, <3>2, Zenon
    <3> QED BY <3>3, <3>4
  <2>3. out' \in Seq(EventSet)
    <3>1. CASE Passes
      BY <1>0, <1>k, <1>e, <3>1 DEF Passes
    <3>2. CASE ~Passes
      <4>1. out' = out \/ \E k \in Kinds : out' = Append(out, Event(k))
        BY <1>6, <3>2, Zenon DEF Streams, Begins, Marks, Skips, Aborts, Kinds
      <4>2. ASSUME NEW k \in Kinds, out' = Append(out, Event(k)) PROVE out' \in Seq(EventSet)
        BY <1>0, <1>k, <1>e, <4>2
      <4> QED BY <1>0, <4>1, <4>2
    <3> QED BY <3>1, <3>2
  <2> QED BY <1>0, <1>s, <2>1, <2>2, <2>3 DEF TypeOK
<1>7. CASE Disconnect \/ Expire \/ UNCHANGED vars
  BY <1>7, ClientMoves, <1>s DEF TypeOK
<1> QED BY <1>1, <1>2, <1>3, <1>4, <1>5, <1>6, <1>7, HandlerMoves DEF Next
-----------------------------------------------------------------------------
(* The flow of the texts.                                                   *)

LEMMA FeedNone ==
  ASSUME ch' = <<>>, src'.at = "post", src'.texts = 0
  PROVE  Feed(0)'
<1>1. DOMAIN Nums(ch)' = {}
  BY DEF Nums
<1>2. Sent' = 0
  BY DEF Sent, Pending
<1>3. Consecutive(Nums(ch)', 0) /\ Reaches(Nums(ch)', 0, 0)
  BY <1>1, NoneConsecutive
<1> QED BY <1>2, <1>3 DEF Feed

(* At the end of the stream the handler has all texts the backend read.     *)
LEMMA EndHasAll ==
  ASSUME TypeOK, SourceInv, RecvEOF, NEW m \in Nat, Feed(m)
  PROVE  src.at = "ended" /\ src.ret = "nil" /\ m = src.texts
<1>1. ch = <<>> /\ closed /\ chErr \in {"none", "nil"}
  BY DEF RecvEOF, Drained
<1>2. src.at = "ended" /\ chErr = src.ret
  BY <1>1 DEF SourceInv
<1>3. src.ret = "nil" /\ src.texts \in Nat
  BY <1>1, <1>2, SourceFields DEF Returns, Errors
<1>4. Sent = src.texts
  BY <1>2 DEF Sent, Pending
<1>5. m <= src.texts /\ Reaches(Nums(ch), m, src.texts)
  BY <1>3, <1>4 DEF Feed
<1>6. DOMAIN Nums(ch) = {}
  BY <1>1 DEF Nums
<1>7. m = src.texts
  BY <1>3, <1>5, <1>6, NoneReaches
<1> QED BY <1>2, <1>3, <1>7

(* What the client has is a prefix when it is in the handler's hands.       *)
LEMMA HasIsPrefix ==
  ASSUME TypeOK, NEW m, Has(out, m)
  PROVE  TextsAreAPrefix
<1>1. DOMAIN out = 1..Len(out)
  BY DEF TypeOK
<1> QED BY <1>1 DEF Has, TextsAreAPrefix

(* The three stages of FlowInv the steps below establish.                   *)
Nothing ==
  /\ out = <<>> /\ held = <<>>
  /\ con = "first" => Feed(0)
  /\ con = "collect" => \E m \in Nat : Has(text, m) /\ Feed(m)
Receiving ==
  /\ \E m \in Nat :
       /\ Has(out, m)
       /\ \/ held = <<>> /\ Feed(m)
          \/ held # <<>> /\ held[1].text = 0 /\ Feed(m)
          \/ held # <<>> /\ held[1].text = m + 1 /\ Feed(m + 1)
  /\ \A i \in DOMAIN out : out[i].kind \notin Final
Ending ==
  /\ src.at = "ended" /\ src.ret = "nil" /\ Has(out, src.texts)
  /\ \A i \in DOMAIN out : out[i].kind \notin Final
Over ==
  /\ TextsAreAPrefix
  /\ out # <<>> /\ out[Len(out)].kind \in Final =>
       src.at = "ended" /\ src.ret = "nil" /\ Reaches(Numbers(out), 0, src.texts)

Stage ==
  \/ con \in Early /\ Nothing
  \/ con = "role" /\ out = <<>> /\ Receiving
  \/ con = "relay" /\ Receiving
  \/ con \in {"usage", "done"} /\ Ending
  \/ con = "returned" /\ Over

LEMMA StagesGiveFlow == TypeOK /\ Stage => FlowInv
<1> SUFFICES ASSUME TypeOK, Stage PROVE FlowInv
  OBVIOUS
<1>0. /\ out \in Seq(EventSet) /\ DOMAIN out = 1..Len(out)
      /\ out # <<>> => Len(out) \in DOMAIN out
  BY DEF TypeOK
<1>1. CASE con \in Early /\ Nothing
  <2>1. TextsAreAPrefix
    BY <1>1, HasNone, HasIsPrefix DEF Nothing
  <2> QED BY <1>1, <2>1 DEF Nothing, FlowInv, Early
<1>2. CASE con \in {"role", "relay"} /\ Receiving /\ (con = "role" => out = <<>>)
  <2>1. TextsAreAPrefix
    BY <1>2, HasIsPrefix DEF Receiving
  <2> QED BY <1>0, <1>2, <2>1 DEF Receiving, FlowInv
<1>3. CASE con \in {"usage", "done"} /\ Ending
  <2>1. TextsAreAPrefix
    BY <1>3, HasIsPrefix DEF Ending
  <2> QED BY <1>0, <1>3, <2>1 DEF Ending, FlowInv
<1>4. CASE con = "returned" /\ Over
  BY <1>4 DEF Over, FlowInv
<1> QED BY <1>1, <1>2, <1>3, <1>4 DEF Stage

LEMMA FlowGivesStages ==
  ASSUME TypeOK, FlowInv
  PROVE  /\ con \in Early => Nothing
         /\ con = "role" => out = <<>>
         /\ con \in {"role", "relay"} => Receiving
         /\ con \in {"usage", "done"} => Ending
         /\ Over
BY DEF FlowInv, Early, Nothing, Receiving, Ending, Over

LEMMA StagesGiveFlowNext == TypeOK' /\ Stage' => FlowInv'
BY StagesGiveFlow, PTL

(* What holds of the client's texts when nothing more is written.           *)
LEMMA ReturnsOver ==
  ASSUME TypeOK, con # "returned", FlowInv, con' = "returned", out' = out, attempt' = attempt
  PROVE  Stage'
<1>1. \A i \in DOMAIN out : out[i].kind \notin Final
  BY DEF FlowInv
<1>2. out # <<>> => Len(out) \in DOMAIN out
  BY DEF TypeOK
<1>3. ~(out' # <<>> /\ out'[Len(out')].kind \in Final)
  BY <1>1, <1>2
<1>4. TextsAreAPrefix'
  BY DEF FlowInv, TextsAreAPrefix
<1> QED BY <1>3, <1>4 DEF Stage, Over

(* What holds of them when a marker is the last thing written.              *)
LEMMA MarkOver ==
  ASSUME TypeOK, NEW s \in Seq(EventSet), NEW m \in Nat, Has(s, m),
         NEW k \in Kinds \ {"text"}, out' = Append(s, Event(k)), con' = "returned",
         attempt' = attempt,
         k \in Final => src'.at = "ended" /\ src'.ret = "nil" /\ src'.texts = m
  PROVE  Stage'
<1>1. Event(k) \in EventSet /\ Event(k).kind = k
  BY EventIsEvent
<1>2. Has(out', m)
  BY <1>1, HasAppend
<1>3. /\ Len(out') = Len(s) + 1 /\ out'[Len(out')] = Event(k)
      /\ DOMAIN out' = 1..Len(out')
  BY <1>1
<1>4. TextsAreAPrefix'
  BY <1>2, <1>3 DEF Has, TextsAreAPrefix
<1>5. k \in Final => src'.at = "ended" /\ src'.ret = "nil" /\ Reaches(Numbers(out'), 0, src'.texts)
  BY <1>2 DEF Has
<1>6. Over'
  BY <1>1, <1>3, <1>4, <1>5 DEF Over
<1> QED BY <1>6 DEF Stage

(* A marker on the way.                                                     *)
LEMMA MarkHas ==
  ASSUME TypeOK, NEW m \in Nat, Has(out, m), \A i \in DOMAIN out : out[i].kind \notin Final,
         NEW k \in Kinds \ ({"text"} \cup Final), attempt' = attempt,
         out' = out \/ out' = Append(out, Event(k))
  PROVE  Has(out, m)' /\ \A i \in DOMAIN out' : out'[i].kind \notin Final
<1>0. out \in Seq(EventSet)
  BY DEF TypeOK
<1>1. Event(k) \in EventSet /\ Event(k).kind = k
  BY EventIsEvent
<1>2. Has(out', m)
  <2>1. Has(Append(out, Event(k)), m)
    BY <1>0, <1>1, HasAppend
  <2> QED BY <2>1, Zenon
<1>3. Has(out, m)'
  BY <1>2 DEF Has
<1>4. CASE out' = Append(out, Event(k))
  <2>1. /\ DOMAIN out' = 1..(Len(out) + 1) /\ DOMAIN out = 1..Len(out)
        /\ \A i \in DOMAIN out' : i \in DOMAIN out \/ i = Len(out) + 1
        /\ out'[Len(out) + 1] = Event(k)
        /\ \A i \in DOMAIN out : out'[i] = out[i]
    BY <1>0, <1>1, <1>4
  <2> QED BY <1>1, <1>3, <2>1
<1> QED BY <1>3, <1>4

(* A chunk reaches the client, or the collected text.                       *)
LEMMA TakeHas ==
  ASSUME TypeOK, NEW s \in Seq(EventSet), NEW m \in Nat, Has(s, m), NEW c \in ChunkSet,
         NEW t, t = IF c.text = 0 THEN s ELSE Append(s, TextEvent(c))
  PROVE  /\ c.text = 0 => Has(t, m)
         /\ c.text = m + 1 => Has(t, m + 1)
<1>1. TextEvent(c) \in EventSet /\ attempt \in Nat
  BY EventIsEvent DEF TypeOK
<1>2. c.text = m + 1 => TextEvent(c) = [kind |-> "text", attempt |-> attempt, n |-> m + 1]
  BY DEF TextEvent
<1>3. c.text = m + 1 => Has(Append(s, TextEvent(c)), m + 1)
  BY <1>1, <1>2, HasAppend
<1>4. m + 1 # 0
  OBVIOUS
<1> QED BY <1>3, <1>4

LEMMA ProducerFlow ==
  ASSUME TypeOK, SourceInv, FlowInv, Producer
  PROVE  Stage'
<1>0. /\ src.at # "ended"
      /\ UNCHANGED <<attempt, con, held, text, out>>
  BY ProducerMoves DEF Producer, clientVars
<1>1. \A m \in Nat : Feed(m) => Feed(m)'
  BY ProducerFeeds
<1>2. CASE con \in Early
  <2>1. Nothing
    BY <1>2, FlowGivesStages
  <2>2. con = "first" => Feed(0)'
    BY <1>1, <2>1 DEF Nothing
  <2>3. con = "collect" => \E m \in Nat : Has(text, m)' /\ Feed(m)'
    BY <1>0, <1>1, <2>1 DEF Nothing, Has
  <2>4. Nothing'
    BY <1>0, <2>1, <2>2, <2>3 DEF Nothing
  <2> QED BY <1>0, <1>2, <2>4 DEF Stage
<1>3. CASE con \in {"role", "relay"}
  <2>1. Receiving /\ (con = "role" => out = <<>>)
    BY <1>3, FlowGivesStages
  <2>2. PICK m \in Nat :
          /\ Has(out, m)
          /\ \/ held = <<>> /\ Feed(m)
             \/ held # <<>> /\ held[1].text = 0 /\ Feed(m)
             \/ held # <<>> /\ held[1].text = m + 1 /\ Feed(m + 1)
    BY <2>1 DEF Receiving
  <2>3. Has(out, m)'
    BY <1>0, <2>2 DEF Has
  <2>4. (Feed(m) => Feed(m)') /\ (Feed(m + 1) => Feed(m + 1)')
    BY <1>1
  <2>5. Receiving'
    BY <1>0, <2>1, <2>2, <2>3, <2>4 DEF Receiving
  <2> QED BY <1>0, <1>3, <2>1, <2>5 DEF Stage
<1>4. CASE con = "returned"
  <2>1. Over
    BY FlowGivesStages
  <2>2. Over'
    BY <1>0, <2>1 DEF Over, TextsAreAPrefix
  <2> QED BY <1>0, <1>4, <2>2 DEF Stage
<1>5. con \notin {"usage", "done"}
  BY <1>0 DEF FlowInv
<1> QED BY <1>2, <1>3, <1>4, <1>5 DEF TypeOK, Early

LEMMA EarlyFlow ==
  ASSUME TypeOK, SourceInv, FlowInv, TypeOK',
         GivesUp \/ Retries \/ Open \/ Gathers \/ Replies
  PROVE  Stage'
<1>0. con \in Early /\ Nothing /\ out = <<>> /\ held = <<>> /\ con # "returned"
  <2>1. con \in Early
    BY DEF GivesUp, Retries, Open, Gathers, Replies, Early
  <2> QED BY <2>1, FlowGivesStages DEF Nothing, Early
<1>1. CASE GivesUp
  BY <1>0, <1>1, ReturnsOver DEF GivesUp
<1>2. CASE Retries
  <2>1. Nothing' /\ con' \in Early
    BY <1>0, <1>2 DEF Retries, Nothing, Early
  <2> QED BY <2>1 DEF Stage
<1>3. CASE Open
  <2>1. /\ con' \in {"first", "collect"} /\ Feed(0)' /\ text' = <<>>
        /\ attempt' = attempt /\ out' = <<>> /\ held' = <<>>
    BY <1>0, <1>3, OpenFields, FeedNone
  <2>2. Has(text, 0)'
    BY <2>1, HasNone DEF Has
  <2>3. Nothing' /\ con' \in Early
    BY <2>1, <2>2 DEF Nothing, Early
  <2> QED BY <2>3 DEF Stage
<1>4. CASE Gathers
  <2>1. PICK m \in Nat : Has(text, m) /\ Feed(m)
    BY <1>0, <1>4 DEF Nothing, Gathers
  <2>2. /\ con' = "collect" /\ ch # <<>> /\ ch' = Tail(ch) /\ src' = src
        /\ text' = IF Head(ch).text = 0 THEN text ELSE Append(text, TextEvent(Head(ch)))
        /\ attempt' = attempt /\ out' = <<>> /\ held' = <<>>
    BY <1>0, <1>4 DEF Gathers
  <2>3. Head(ch) \in ChunkSet /\ text \in Seq(EventSet)
    BY <2>2 DEF TypeOK
  <2>4. \/ Head(ch).text = 0 /\ Feed(m)'
        \/ Head(ch).text = m + 1 /\ Feed(m + 1)'
    BY <2>1, <2>2, FeedTake
  <2>5. /\ Head(ch).text = 0 => Has(text', m)
        /\ Head(ch).text = m + 1 => Has(text', m + 1)
    BY <2>1, <2>2, <2>3, TakeHas, Zenon
  <2>6. \E k \in Nat : Has(text', k) /\ Feed(k)'
    <3>1. CASE Head(ch).text = 0 /\ Feed(m)'
      BY <2>5, <3>1
    <3>2. CASE Head(ch).text = m + 1 /\ Feed(m + 1)'
      <4>1. m + 1 \in Nat
        OBVIOUS
      <4> QED BY <2>5, <3>2, <4>1
    <3> QED BY <2>4, <3>1, <3>2
  <2>7. \E k \in Nat : Has(text, k)' /\ Feed(k)'
    BY <2>2, <2>6 DEF Has
  <2>8. Nothing' /\ con' \in Early
    BY <2>2, <2>7 DEF Nothing, Early
  <2> QED BY <2>8 DEF Stage
<1>5. CASE Replies
  <2>1. PICK m \in Nat : Has(text, m) /\ Feed(m)
    BY <1>0, <1>5 DEF Nothing, Replies
  <2>2. /\ con' = "returned" /\ out' = Append(text, Event("answer")) /\ RecvEOF
        /\ attempt' = attempt /\ src' = src
    BY <1>5 DEF Replies
  <2>3. src.at = "ended" /\ src.ret = "nil" /\ m = src.texts
    BY <2>1, <2>2, EndHasAll
  <2>4. text \in Seq(EventSet) /\ "answer" \in Kinds \ {"text"}
    BY DEF TypeOK, Kinds
  <2> QED BY <2>1, <2>2, <2>3, <2>4, MarkOver
<1> QED BY <1>1, <1>2, <1>3, <1>4, <1>5

LEMMA StreamFlow ==
  ASSUME TypeOK, SourceInv, FlowInv, TypeOK', Streams
  PROVE  Stage'
<1>0. out \in Seq(EventSet) /\ ch \in Seq(ChunkSet) /\ held \in Seq(ChunkSet)
  BY DEF TypeOK
<1>k. /\ "role" \in Kinds \ ({"text"} \cup Final) /\ "stop" \in Kinds \ ({"text"} \cup Final)
      /\ "usage" \in Kinds \ ({"text"} \cup Final)
      /\ "error" \in Kinds \ {"text"} /\ "[DONE]" \in Kinds \ {"text"} /\ "error" \notin Final
  BY DEF Kinds, Final
<1>1. CASE Begins
  <2>1. /\ con = "first" /\ con' = "role" /\ attempt' = attempt /\ out' = out /\ src' = src
        /\ \/ ch # <<>> /\ ch' = Tail(ch) /\ held' = <<Head(ch)>>
           \/ UNCHANGED <<ch, held>>
    BY <1>1 DEF Begins
  <2>2. Feed(0) /\ out = <<>> /\ held = <<>>
    BY <2>1, FlowGivesStages DEF Early, Nothing
  <2>3. Has(out, 0)'
    BY <2>1, <2>2, HasNone DEF Has
  <2>4. \/ held' = <<>> /\ Feed(0)'
        \/ held' # <<>> /\ held'[1].text = 0 /\ Feed(0)'
        \/ held' # <<>> /\ held'[1].text = 0 + 1 /\ Feed(0 + 1)'
    <3>1. CASE ch # <<>> /\ ch' = Tail(ch) /\ held' = <<Head(ch)>>
      <4>1. \/ Head(ch).text = 0 /\ Feed(0)'
            \/ Head(ch).text = 0 + 1 /\ Feed(0 + 1)'
        BY <2>1, <2>2, <3>1, FeedTake
      <4>2. held' # <<>> /\ held'[1] = Head(ch)
        BY <3>1
      <4> QED BY <4>1, <4>2, Zenon
    <3>2. CASE UNCHANGED <<ch, held>>
      <4>1. Feed(0)'
        BY <2>1, <2>2, <3>2 DEF Feed, Sent, Pending
      <4> QED BY <2>2, <3>2, <4>1
    <3> QED BY <2>1, <3>1, <3>2
  <2>5. Receiving'
    BY <2>1, <2>2, <2>3, <2>4 DEF Receiving
  <2> QED BY <2>1, <2>2, <2>5 DEF Stage
<1>2. CASE Passes
  <2>1. PICK c \in ChunkSet :
          /\ \/ held # <<>> /\ c = held[1] /\ held' = <<>> /\ ch' = ch
             \/ held = <<>> /\ ch # <<>> /\ c = Head(ch) /\ ch' = Tail(ch) /\ held' = held
          /\ out' = IF c.text = 0 THEN out ELSE Append(out, TextEvent(c))
    BY <1>2 DEF Passes
  <2>2. con = "relay" /\ con' = "relay" /\ attempt' = attempt /\ src' = src
    BY <1>2 DEF Passes
  <2>3. Receiving
    BY <2>2, FlowGivesStages
  <2>4. PICK m \in Nat :
          /\ Has(out, m)
          /\ \/ held = <<>> /\ Feed(m)
             \/ held # <<>> /\ held[1].text = 0 /\ Feed(m)
             \/ held # <<>> /\ held[1].text = m + 1 /\ Feed(m + 1)
    BY <2>3 DEF Receiving
  <2>5. held' = <<>> /\ ((c.text = 0 /\ Feed(m)') \/ (c.text = m + 1 /\ Feed(m + 1)'))
    <3>1. CASE held # <<>> /\ c = held[1] /\ held' = <<>> /\ ch' = ch
      <4>1. (Feed(m) => Feed(m)') /\ (Feed(m + 1) => Feed(m + 1)')
        BY <2>2, <3>1 DEF Feed, Sent, Pending
      <4> QED BY <2>4, <3>1, <4>1
    <3>2. CASE held = <<>> /\ ch # <<>> /\ c = Head(ch) /\ ch' = Tail(ch) /\ held' = held
      <4>1. Feed(m)
        BY <2>4, <3>2
      <4> QED BY <2>2, <3>2, <4>1, FeedTake
    <3> QED BY <2>1, <3>1, <3>2
  <2>6. /\ c.text = 0 => Has(out', m)
        /\ c.text = m + 1 => Has(out', m + 1)
    BY <1>0, <2>1, <2>4, TakeHas, Zenon
  <2>7. \E n \in Nat : Has(out', n) /\ Feed(n)'
    <3>1. m + 1 \in Nat
      OBVIOUS
    <3> QED BY <2>5, <2>6, <3>1, Zenon
  <2>8. \E n \in Nat : Has(out, n)' /\ held' = <<>> /\ Feed(n)'
    BY <2>2, <2>5, <2>7 DEF Has
  <2>9. \A i \in DOMAIN out' : out'[i].kind \notin Final
    <3>1. CASE out' = out
      BY <2>3, <3>1 DEF Receiving
    <3>2. CASE out' = Append(out, TextEvent(c))
      <4>1. TextEvent(c) \in EventSet /\ TextEvent(c).kind \notin Final
        BY EventIsEvent DEF Final
      <4>2. /\ \A i \in DOMAIN out' : i \in DOMAIN out \/ i = Len(out) + 1
            /\ out'[Len(out) + 1] = TextEvent(c)
            /\ \A i \in DOMAIN out : out'[i] = out[i]
        BY <1>0, <3>2, <4>1
      <4> QED BY <2>3, <4>1, <4>2 DEF Receiving
    <3> QED BY <2>1, <3>1, <3>2
  <2>10. Receiving'
    BY <2>8, <2>9 DEF Receiving
  <2> QED BY <2>2, <2>10 DEF Stage
<1>3. CASE Aborts
  BY <1>3, ReturnsOver DEF Aborts
<1>4. CASE Marks("role", "role", "relay") \/ Skips("role", "relay")
  <2>1. /\ con = "role" /\ con' = "relay" /\ UNCHANGED <<attempt, src, ch, held>>
        /\ out' = out \/ out' = Append(out, Event("role"))
    BY <1>4 DEF Marks, Skips
  <2>2. Receiving
    BY <2>1, FlowGivesStages
  <2>3. PICK m \in Nat :
          /\ Has(out, m)
          /\ \/ held = <<>> /\ Feed(m)
             \/ held # <<>> /\ held[1].text = 0 /\ Feed(m)
             \/ held # <<>> /\ held[1].text = m + 1 /\ Feed(m + 1)
    BY <2>2 DEF Receiving
  <2>4. Has(out, m)' /\ \A i \in DOMAIN out' : out'[i].kind \notin Final
    BY <1>k, <2>1, <2>2, <2>3, MarkHas DEF Receiving
  <2>5. (Feed(m) => Feed(m)') /\ (Feed(m + 1) => Feed(m + 1)')
    BY <2>1 DEF Feed, Sent, Pending
  <2>6. Receiving'
    BY <2>1, <2>3, <2>4, <2>5 DEF Receiving
  <2> QED BY <2>1, <2>6 DEF Stage
<1>5. CASE Marks("error", "relay", "returned")
  <2>1. /\ con = "relay" /\ con' = "returned" /\ attempt' = attempt
        /\ out' = Append(out, Event("error"))
    BY <1>5 DEF Marks
  <2>2. PICK m \in Nat : Has(out, m)
    BY <2>1, FlowGivesStages DEF Receiving
  <2> QED BY <1>0, <1>k, <2>1, <2>2, MarkOver
<1>6. CASE Marks("stop", "relay", "usage") /\ held = <<>> /\ RecvEOF
  <2>1. /\ con = "relay" /\ con' = "usage" /\ UNCHANGED <<attempt, src>>
        /\ out' = Append(out, Event("stop")) /\ held = <<>> /\ RecvEOF
    BY <1>6 DEF Marks
  <2>2. Receiving
    BY <2>1, FlowGivesStages
  <2>3. PICK m \in Nat : Has(out, m) /\ Feed(m)
    BY <2>1, <2>2 DEF Receiving
  <2>4. src.at = "ended" /\ src.ret = "nil" /\ m = src.texts
    BY <2>1, <2>3, EndHasAll
  <2>5. Has(out, m)' /\ \A i \in DOMAIN out' : out'[i].kind \notin Final
    BY <1>k, <2>1, <2>2, <2>3, MarkHas DEF Receiving
  <2>6. Ending'
    BY <2>1, <2>4, <2>5 DEF Ending, Has
  <2> QED BY <2>1, <2>6 DEF Stage
<1>7. CASE Marks("usage", "usage", "done") \/ Skips("usage", "done")
  <2>1. /\ con = "usage" /\ con' = "done" /\ UNCHANGED <<attempt, src>>
        /\ out' = out \/ out' = Append(out, Event("usage"))
    BY <1>7 DEF Marks, Skips
  <2>2. Ending /\ src.texts \in Nat
    BY <2>1, FlowGivesStages, SourceFields
  <2>3. PICK m \in Nat : m = src.texts /\ Has(out, m)
    BY <2>2 DEF Ending
  <2>4. Has(out, m)' /\ \A i \in DOMAIN out' : out'[i].kind \notin Final
    BY <1>k, <2>1, <2>2, <2>3, MarkHas DEF Ending
  <2>5. Ending'
    BY <2>1, <2>2, <2>3, <2>4 DEF Ending, Has
  <2> QED BY <2>1, <2>5 DEF Stage
<1>8. CASE Marks("[DONE]", "done", "returned")
  <2>1. /\ con = "done" /\ con' = "returned" /\ UNCHANGED <<attempt, src>>
        /\ out' = Append(out, Event("[DONE]"))
    BY <1>8 DEF Marks
  <2>2. Ending /\ src.texts \in Nat
    BY <2>1, FlowGivesStages, SourceFields
  <2>3. PICK m \in Nat : m = src.texts /\ Has(out, m)
    BY <2>2 DEF Ending
  <2> QED BY <1>0, <1>k, <2>1, <2>2, <2>3, MarkOver DEF Ending
<1> QED BY <1>1, <1>2, <1>3, <1>4, <1>5, <1>6, <1>7, <1>8 DEF Streams

LEMMA FlowInit == Init => FlowInv
<1> SUFFICES ASSUME Init PROVE FlowInv
  OBVIOUS
<1>1. con = "begin" /\ out = <<>> /\ held = <<>>
  BY DEF Init
<1>2. TypeOK
  BY TypeInit
<1>3. Stage
  BY <1>1 DEF Stage, Nothing, Early
<1> QED BY <1>2, <1>3, StagesGiveFlow

LEMMA FlowNext ==
  TypeOK /\ SourceInv /\ FlowInv /\ [Next]_vars /\ TypeOK' => FlowInv'
<1> SUFFICES ASSUME TypeOK, SourceInv, FlowInv, [Next]_vars, TypeOK' PROVE FlowInv'
  OBVIOUS
<1>1. CASE Producer
  BY <1>1, ProducerFlow, StagesGiveFlowNext
<1>2. CASE Handler
  <2>1. GivesUp \/ Retries \/ Open \/ Gathers \/ Replies \/ Streams
    BY <1>2, HandlerMoves
  <2>2. Stage'
    BY <2>1, EarlyFlow, StreamFlow
  <2> QED BY <2>2, StagesGiveFlowNext
<1>3. CASE Disconnect \/ Expire \/ UNCHANGED vars
  <2>1. UNCHANGED <<attempt, src, ch, con, held, text, out>>
    BY <1>3, ClientMoves
  <2>2. \A m \in Nat : /\ Feed(m) <=> Feed(m)'
                       /\ Has(out, m) <=> Has(out, m)'
                       /\ Has(text, m) <=> Has(text, m)'
    BY <2>1, Zenon DEF Feed, Has, Sent, Pending
  <2>3. \A m \in Nat : m + 1 \in Nat
    OBVIOUS
  <2>4. Stage
    BY FlowGivesStages DEF Stage, TypeOK, Early, FlowInv
  <2>5. src.texts \in Nat
    BY SourceFields
  <2>6. (Nothing => Nothing') /\ (Ending => Ending') /\ (Over => Over')
    BY <2>1, <2>2, <2>5, Zenon DEF Nothing, Ending, Over, TextsAreAPrefix
  <2>7. Receiving => Receiving'
    BY <2>1, <2>2, <2>3 DEF Receiving
  <2>8. Stage'
    BY <2>1, <2>4, <2>6, <2>7 DEF Stage
  <2> QED BY <2>8, StagesGiveFlowNext
<1> QED BY <1>1, <1>2, <1>3 DEF Next

LEMMA FlowIsKept == Spec => [](TypeOK /\ SourceInv /\ FlowInv)
<1>1. Init => TypeOK /\ SourceInv /\ FlowInv
  BY TypeInit, FlowInit
<1>2. TypeOK /\ SourceInv /\ FlowInv /\ [Next]_vars => (TypeOK /\ SourceInv /\ FlowInv)'
  BY TypeNext, FlowNext
<1> QED BY <1>1, <1>2, PTL DEF Spec

(* Whatever attempts failed, the client holds the first texts of a single   *)
(* attempt, in order and without a gap (streamFirstToken, collect): for any *)
(* number of workers, any backend and any room in the stream.               *)
THEOREM TextsCorrect == Spec => []TextsAreAPrefix
<1>1. FlowInv => TextsAreAPrefix
  BY DEF FlowInv
<1> QED BY <1>1, FlowIsKept, PTL

(* A client told that its answer is complete has every text the backend's   *)
(* Generate read, and Generate returned no error (stream.err before close). *)
THEOREM CompletionCorrect == Spec => []DoneMeansAll
<1>1. FlowInv => DoneMeansAll
  BY DEF FlowInv, DoneMeansAll, Final
<1> QED BY <1>1, FlowIsKept, PTL
-----------------------------------------------------------------------------
(* The ending.                                                              *)

Closing == {"[DONE]", "error", "answer"}
Ordered(s) ==
  \A i \in 1..Len(s) :
    /\ s[i].kind \in Closing => i = Len(s)
    /\ s[i].kind = "stop" => i = Len(s) \/ s[i+1].kind \in {"usage", "[DONE]"}
    /\ s[i].kind = "[DONE]" => i > 1 /\ s[i-1].kind \in {"stop", "usage"}

LEMMA OrderedAppend ==
  ASSUME NEW s \in Seq(EventSet), NEW e \in EventSet, Ordered(s),
         \A i \in DOMAIN s : s[i].kind \notin Closing,
         \/ e.kind # "[DONE]" /\ \A i \in DOMAIN s : s[i].kind # "stop"
         \/ s # <<>> /\ s[Len(s)].kind \in {"stop", "usage"} /\ e.kind \in {"usage", "[DONE]"}
  PROVE  Ordered(Append(s, e))
<1> DEFINE t == Append(s, e)
           n == Len(s)
<1>1. /\ n \in Nat /\ Len(t) = n + 1 /\ DOMAIN s = 1..n /\ t[n+1] = e
      /\ \A i \in 1..n : t[i] = s[i]
  OBVIOUS
<1>2. /\ \A i \in 1..(n+1) : i \in 1..n \/ i = n + 1
      /\ \A i \in 1..n : i = n \/ i + 1 \in 1..n
      /\ s # <<>> => n \in 1..n
  OBVIOUS
<1> HIDE DEF t, n
<1>3. ASSUME NEW i \in 1..n
      PROVE  /\ t[i].kind \notin Closing
             /\ t[i].kind = "stop" => t[i+1].kind \in {"usage", "[DONE]"}
  <2>1. t[i] = s[i] /\ s[i].kind \notin Closing /\ i \in DOMAIN s
    BY <1>1
  <2>2. CASE s[i].kind = "stop" /\ i = n
    BY <1>1, <2>1, <2>2
  <2>3. CASE s[i].kind = "stop" /\ i # n
    <3>1. i + 1 \in 1..n /\ t[i+1] = s[i+1]
      BY <1>1, <1>2, <2>3
    <3>2. s[i+1].kind \in {"usage", "[DONE]"}
      <4>1. i \in 1..Len(s) /\ i # Len(s)
        BY <2>3 DEF n
      <4> QED BY <2>3, <4>1, Zenon DEF Ordered
    <3> QED BY <2>1, <3>1, <3>2
  <2> QED BY <2>1, <2>2, <2>3
<1>4. e.kind = "[DONE]" => n + 1 > 1 /\ t[(n+1)-1].kind \in {"stop", "usage"}
  <2>1. (n + 1) - 1 = n
    BY <1>1
  <2>2. e.kind = "[DONE]" => s # <<>> /\ s[n].kind \in {"stop", "usage"}
    BY DEF n
  <2>3. e.kind = "[DONE]" => n \in 1..n /\ t[n] = s[n]
    BY <1>1, <1>2, <2>2
  <2> QED BY <1>1, <2>1, <2>2, <2>3
<1>5. \A i \in 1..n : t[i].kind # "[DONE]"
  BY <1>3 DEF Closing
<1>6. Ordered(t)
  BY <1>1, <1>2, <1>3, <1>4, <1>5 DEF Ordered
<1> QED BY <1>6 DEF t

LEMMA NoneOrdered == Ordered(<<>>)
BY DEF Ordered

(* What the last event of a longer list is, and the others.                 *)
LEMMA AppendKinds ==
  ASSUME NEW s \in Seq(EventSet), NEW e \in EventSet
  PROVE  /\ Append(s, e) # <<>> /\ Append(s, e)[Len(Append(s, e))] = e
         /\ \A K : (\A i \in DOMAIN s : s[i].kind \in K) /\ e.kind \in K
                     => \A i \in DOMAIN Append(s, e) : Append(s, e)[i].kind \in K
         /\ \A K : (\A i \in DOMAIN s : s[i].kind \notin K) /\ e.kind \notin K
                     => \A i \in DOMAIN Append(s, e) : Append(s, e)[i].kind \notin K
<1> DEFINE t == Append(s, e)
<1>1. /\ t # <<>> /\ t[Len(t)] = e /\ t[Len(s) + 1] = e
      /\ \A i \in DOMAIN t : i \in DOMAIN s \/ i = Len(s) + 1
      /\ \A i \in DOMAIN s : t[i] = s[i]
  OBVIOUS
<1> HIDE DEF t
<1>2. /\ \A K : (\A i \in DOMAIN s : s[i].kind \in K) /\ e.kind \in K
                  => \A i \in DOMAIN t : t[i].kind \in K
      /\ \A K : (\A i \in DOMAIN s : s[i].kind \notin K) /\ e.kind \notin K
                  => \A i \in DOMAIN t : t[i].kind \notin K
  BY <1>1, Zenon
<1> QED BY <1>1, <1>2 DEF t

(* EndInv of what the client has been sent.                                 *)
Ended ==
  /\ Ordered(out)
  /\ con \in {"begin", "open", "collect", "first", "role"} => out = <<>>
  /\ con = "relay" => \A i \in DOMAIN out : out[i].kind \in {"role", "text"}
  /\ con = "usage" => out # <<>> /\ out[Len(out)].kind = "stop"
  /\ con = "done" => out # <<>> /\ out[Len(out)].kind \in {"stop", "usage"}
  /\ con # "returned" => \A i \in DOMAIN out : out[i].kind \notin Closing

LEMMA EndedIsEndInv ==
  EndInv <=> Ended /\ (con = "collect" => \A i \in DOMAIN text : text[i].kind = "text")
BY DEF EndInv, Ended, EndingInOrder, Ordered, Closing

LEMMA EndedIsEndInvNext ==
  EndInv' <=> Ended' /\ (con' = "collect" => \A i \in DOMAIN text' : text'[i].kind = "text")
BY DEF EndInv, Ended, EndingInOrder, Ordered, Closing

(* Events that are only roles and texts.                                    *)
LEMMA PlainOrdered ==
  ASSUME NEW s \in Seq(EventSet), \A i \in DOMAIN s : s[i].kind \in {"role", "text"}
  PROVE  /\ Ordered(s)
         /\ \A i \in DOMAIN s : s[i].kind \notin Closing
         /\ \A i \in DOMAIN s : s[i].kind # "stop"
<1>1. /\ \A i \in DOMAIN s : s[i].kind \notin Closing
      /\ \A i \in DOMAIN s : s[i].kind # "stop"
      /\ \A i \in DOMAIN s : s[i].kind # "[DONE]"
  BY DEF Closing
<1>2. DOMAIN s = 1..Len(s)
  OBVIOUS
<1>3. Ordered(s)
  BY <1>1, <1>2, Zenon DEF Ordered
<1> QED BY <1>1, <1>3

LEMMA StreamEnded ==
  ASSUME TypeOK, Ended, Streams
  PROVE  Ended'
<1>0. out \in Seq(EventSet)
  BY DEF TypeOK
<1>e. \A k \in Kinds : Event(k) \in EventSet /\ Event(k).kind = k
  BY EventIsEvent
<1>1. CASE Begins
  <2>1. con' = "role" /\ out' = <<>>
    BY <1>1 DEF Begins, Ended
  <2> QED BY <2>1, NoneOrdered DEF Ended
<1>2. CASE Passes
  <2>1. PICK c \in ChunkSet : out' = IF c.text = 0 THEN out ELSE Append(out, TextEvent(c))
    BY <1>2 DEF Passes
  <2>2. con' = "relay" /\ \A i \in DOMAIN out : out[i].kind \in {"role", "text"}
    BY <1>2 DEF Passes, Ended
  <2>3. TextEvent(c) \in EventSet /\ TextEvent(c).kind \in {"role", "text"}
    BY EventIsEvent
  <2>4. \A i \in DOMAIN Append(out, TextEvent(c)) : Append(out, TextEvent(c))[i].kind \in {"role", "text"}
    BY <1>0, <2>2, <2>3, AppendKinds
  <2>5. /\ out' \in Seq(EventSet)
        /\ \A i \in DOMAIN out' : out'[i].kind \in {"role", "text"}
    BY <1>0, <2>1, <2>2, <2>3, <2>4
  <2> QED BY <2>2, <2>5, PlainOrdered DEF Ended
<1>3. CASE Aborts
  BY <1>3 DEF Aborts, Ended
<1>4. CASE Marks("role", "role", "relay")
  <2>1. con' = "relay" /\ out' = Append(out, Event("role")) /\ out = <<>>
    BY <1>4 DEF Marks, Ended
  <2>2. Event("role") \in EventSet /\ Event("role").kind \in {"role", "text"}
    BY <1>e DEF Kinds
  <2>3. \A i \in DOMAIN out : out[i].kind \in {"role", "text"}
    BY <2>1
  <2>4. /\ out' \in Seq(EventSet)
        /\ \A i \in DOMAIN out' : out'[i].kind \in {"role", "text"}
    BY <1>0, <2>1, <2>2, <2>3, AppendKinds
  <2>5. Ordered(out') /\ \A i \in DOMAIN out' : out'[i].kind \notin Closing
    BY <2>4, PlainOrdered, Zenon
  <2> QED BY <2>1, <2>4, <2>5 DEF Ended
<1>5. CASE Skips("role", "relay")
  <2>1. con' = "relay" /\ out' = <<>>
    BY <1>5 DEF Skips, Ended
  <2> QED BY <2>1, NoneOrdered DEF Ended
<1>6. CASE Marks("error", "relay", "returned")
  <2>1. con = "relay" /\ con' = "returned" /\ out' = Append(out, Event("error"))
    BY <1>6 DEF Marks
  <2>2. Event("error") \in EventSet /\ Event("error").kind # "[DONE]"
    BY <1>e DEF Kinds
  <2>3. Ordered(out')
    BY <1>0, <2>1, <2>2, PlainOrdered, OrderedAppend DEF Ended
  <2> QED BY <2>1, <2>3 DEF Ended
<1>7. CASE Marks("stop", "relay", "usage")
  <2>1. con = "relay" /\ con' = "usage" /\ out' = Append(out, Event("stop"))
    BY <1>7 DEF Marks
  <2>2. Event("stop") \in EventSet /\ Event("stop").kind = "stop"
    BY <1>e DEF Kinds
  <2>3. Ordered(out')
    BY <1>0, <2>1, <2>2, PlainOrdered, OrderedAppend DEF Ended
  <2>4. \A i \in DOMAIN out : out[i].kind \notin Closing
    BY <2>1 DEF Ended
  <2>5. "stop" \notin Closing
    BY DEF Closing
  <2>6. /\ out' # <<>> /\ out'[Len(out')].kind = "stop"
        /\ \A i \in DOMAIN out' : out'[i].kind \notin Closing
    BY <1>0, <2>1, <2>2, <2>4, <2>5, AppendKinds
  <2> QED BY <2>1, <2>3, <2>6 DEF Ended
<1>8. CASE Marks("usage", "usage", "done")
  <2>1. con = "usage" /\ con' = "done" /\ out' = Append(out, Event("usage"))
    BY <1>8 DEF Marks
  <2>2. Event("usage") \in EventSet /\ Event("usage").kind = "usage"
    BY <1>e DEF Kinds
  <2>3. Ordered(out')
    BY <1>0, <2>1, <2>2, OrderedAppend DEF Ended
  <2>4. \A i \in DOMAIN out : out[i].kind \notin Closing
    BY <2>1 DEF Ended
  <2>5. "usage" \notin Closing
    BY DEF Closing
  <2>6. /\ out' # <<>> /\ out'[Len(out')].kind = "usage"
        /\ \A i \in DOMAIN out' : out'[i].kind \notin Closing
    BY <1>0, <2>1, <2>2, <2>4, <2>5, AppendKinds
  <2> QED BY <2>1, <2>3, <2>6 DEF Ended
<1>9. CASE Skips("usage", "done")
  BY <1>9 DEF Skips, Ended
<1>10. CASE Marks("[DONE]", "done", "returned")
  <2>1. con = "done" /\ con' = "returned" /\ out' = Append(out, Event("[DONE]"))
    BY <1>10 DEF Marks
  <2>2. Event("[DONE]") \in EventSet /\ Event("[DONE]").kind = "[DONE]"
    BY <1>e DEF Kinds
  <2>3. Ordered(out')
    BY <1>0, <2>1, <2>2, OrderedAppend DEF Ended
  <2> QED BY <2>1, <2>3 DEF Ended
<1> QED BY <1>1, <1>2, <1>3, <1>4, <1>5, <1>6, <1>7, <1>8, <1>9, <1>10 DEF Streams

LEMMA EndInit == Init => EndInv
<1> SUFFICES ASSUME Init PROVE EndInv
  OBVIOUS
<1>1. con = "begin" /\ out = <<>>
  BY DEF Init
<1>2. Ended
  BY <1>1, NoneOrdered DEF Ended
<1> QED BY <1>1, <1>2, EndedIsEndInv

LEMMA EndNext == TypeOK /\ EndInv /\ [Next]_vars => EndInv'
<1> SUFFICES ASSUME TypeOK, EndInv, [Next]_vars PROVE EndInv'
  OBVIOUS
<1>0. Ended /\ (con = "collect" => \A i \in DOMAIN text : text[i].kind = "text")
  BY EndedIsEndInv
<1>1. CASE UNCHANGED <<con, text, out>>
  BY <1>1 DEF EndInv, EndingInOrder
<1>2. CASE GivesUp \/ Retries \/ Open
  <2>1. con' # "collect" \/ text' = <<>>
    BY <1>2 DEF GivesUp, Retries, Open
  <2>2. /\ con' \in {"returned", "open", "first", "collect"} /\ out' = <<>>
    BY <1>0, <1>2 DEF GivesUp, Retries, Open, Early, Ended
  <2>3. Ended'
    BY <2>2, NoneOrdered DEF Ended
  <2> QED BY <2>1, <2>3, EndedIsEndInvNext
<1>3. CASE Gathers
  <2>1. /\ con = "collect" /\ con' = "collect" /\ out' = <<>> /\ ch # <<>>
        /\ text' = IF Head(ch).text = 0 THEN text ELSE Append(text, TextEvent(Head(ch)))
    BY <1>0, <1>3 DEF Gathers, Ended
  <2>2. Ended'
    BY <2>1, NoneOrdered DEF Ended
  <2>3. Head(ch) \in ChunkSet /\ text \in Seq(EventSet)
    BY <2>1 DEF TypeOK
  <2>4. TextEvent(Head(ch)) \in EventSet /\ TextEvent(Head(ch)).kind \in {"text"}
    BY <2>3, EventIsEvent
  <2>5. \A i \in DOMAIN text : text[i].kind \in {"text"}
    BY <1>0, <2>1
  <2>6. \A i \in DOMAIN text' : text'[i].kind \in {"text"}
    BY <2>1, <2>3, <2>4, <2>5, AppendKinds
  <2> QED BY <2>2, <2>6, EndedIsEndInvNext
<1>4. CASE Replies
  <2>1. con = "collect" /\ con' = "returned" /\ out' = Append(text, Event("answer"))
    BY <1>4 DEF Replies
  <2>2. text \in Seq(EventSet) /\ \A i \in DOMAIN text : text[i].kind \in {"role", "text"}
    BY <1>0, <2>1 DEF TypeOK
  <2>3. Event("answer") \in EventSet /\ Event("answer").kind # "[DONE]"
    BY EventIsEvent DEF Kinds
  <2>4. Ordered(out')
    BY <2>1, <2>2, <2>3, PlainOrdered, OrderedAppend
  <2>5. Ended'
    BY <2>1, <2>4 DEF Ended
  <2> QED BY <2>1, <2>5, EndedIsEndInvNext
<1>5. CASE Streams
  <2>1. Ended'
    BY <1>0, <1>5, StreamEnded
  <2>2. con' # "collect"
    BY <1>5 DEF Streams, Begins, Passes, Aborts, Marks, Skips
  <2> QED BY <2>1, <2>2, EndedIsEndInvNext
<1>6. CASE Producer
  BY <1>1, <1>6 DEF Producer, clientVars
<1>7. CASE Handler
  BY <1>2, <1>3, <1>4, <1>5, <1>7, HandlerMoves
<1>8. CASE Disconnect \/ Expire \/ UNCHANGED vars
  BY <1>1, <1>8, ClientMoves
<1> QED BY <1>6, <1>7, <1>8 DEF Next

(* [DONE], the error event and the JSON body are the last thing a client    *)
(* gets, [DONE] follows the stop chunk and usage stands between them        *)
(* (streamChatFailover, streamTextFailover).                                *)
THEOREM EndingsCorrect == Spec => []EndingInOrder
<1>1. EndInv => EndingInOrder
  BY DEF EndInv
<1>2. TypeOK /\ SourceInv /\ EndInv /\ [Next]_vars => (TypeOK /\ SourceInv /\ EndInv)'
  BY TypeNext, EndNext
<1>3. Init => TypeOK /\ SourceInv /\ EndInv
  BY TypeInit, EndInit
<1> QED BY <1>1, <1>2, <1>3, PTL DEF Spec
-----------------------------------------------------------------------------
(* The audit line.                                                          *)

(* The handler returns with a line l when it has answered st.               *)
LEMMA ReturnAudits ==
  ASSUME NEW l, Return(l),
         \/ l.status = status'
         \/ l.status = 200 /\ attempt' = 1 /\ src' = Quiet
  PROVE  AuditInv'
<1>1. con' = "returned" /\ (audit' = l \/ audit' = NoAudit)
  BY DEF Return
<1>2. AuditHasStatus'
  BY <1>1 DEF AuditHasStatus
<1> QED BY <1>1, <1>2 DEF AuditInv

LEMMA AuditInit == Init => AuditInv
BY DEF Init, AuditInv, AuditHasStatus, NoAudit

LEMMA AuditKept ==
  ASSUME AuditInv, con # "returned", con' # "returned", audit' = audit, log' = log,
         con' # "begin", con' \in {"relay", "usage", "done"} => status' = 200
  PROVE  AuditInv'
<1>1. audit' = NoAudit /\ log' = [status |-> 200, err |-> FALSE]
  BY DEF AuditInv
<1>2. AuditHasStatus'
  BY <1>1 DEF AuditHasStatus
<1> QED BY <1>1, <1>2 DEF AuditInv

LEMMA FailedAudits ==
  ASSUME AuditInv, con # "returned", NEW e, AttemptFailed(e)
  PROVE  AuditInv'
<1>1. CASE con' = "open" /\ UNCHANGED <<status, log, audit>>
  BY <1>1, AuditKept
<1>2. CASE status' = HttpStatus(e) /\ Return([status |-> HttpStatus(e), err |-> TRUE])
  <2>1. [status |-> HttpStatus(e), err |-> TRUE].status = status'
    BY <1>2
  <2> QED BY <1>2, <2>1, ReturnAudits
<1> QED BY <1>1, <1>2 DEF AttemptFailed

LEMMA WritesAudits ==
  ASSUME AuditInv, con # "returned", NEW s, NEW to \in {"relay", "usage", "done"},
         Writes(s, to), status' = 200
  PROVE  AuditInv'
<1>1. CASE con' = to /\ UNCHANGED <<log, audit>>
  BY <1>1, AuditKept
<1>2. CASE Return([log EXCEPT !.err = TRUE])
  <2>1. log = [status |-> 200, err |-> FALSE]
    BY DEF AuditInv
  <2>2. [log EXCEPT !.err = TRUE].status = status'
    BY <2>1, Zenon
  <2> QED BY <1>2, <2>2, ReturnAudits, Zenon
<1> QED BY <1>1, <1>2 DEF Writes

LEMMA HandlerAudits ==
  ASSUME TypeOK, AuditInv, Handler
  PROVE  AuditInv'
<1> USE DEF Env, streamVars, clientVars
<1>0. /\ con # "returned" => log = [status |-> 200, err |-> FALSE] /\ audit = NoAudit
      /\ con = "begin" => attempt = 1 /\ src = Quiet
      /\ con \in {"relay", "usage", "done"} => status = 200
  BY DEF AuditInv
<1>l. con # "returned" => log.status = 200 /\ [log EXCEPT !.err = TRUE].status = 200
  <2> SUFFICES ASSUME con # "returned"
               PROVE  log.status = 200 /\ [log EXCEPT !.err = TRUE].status = 200
    OBVIOUS
  <2>1. log = [status |-> 200, err |-> FALSE]
    BY <1>0
  <2>2. log.status = 200
    BY <2>1
  <2>3. [log EXCEPT !.err = TRUE].status = 200
    BY <2>1, Zenon
  <2> QED BY <2>2, <2>3
<1>1. CASE BadRequest
  <2>1. con' = "returned" /\ audit' = NoAudit
    BY <1>0, <1>1 DEF BadRequest
  <2> QED BY <2>1 DEF AuditInv, AuditHasStatus
<1>2. CASE RankFails
  <2>1. con = "begin" /\ Return([log EXCEPT !.err = TRUE]) /\ UNCHANGED <<attempt, src>>
    BY <1>2 DEF RankFails
  <2>2. [log EXCEPT !.err = TRUE].status = 200 /\ attempt' = 1 /\ src' = Quiet
    BY <1>0, <1>l, <2>1, Zenon
  <2> QED BY <2>1, <2>2, ReturnAudits, Zenon
<1>3. CASE Saturated
  <2>1. Return([status |-> 429, err |-> TRUE]) /\ [status |-> 429, err |-> TRUE].status = status'
    BY <1>3 DEF Saturated
  <2> QED BY <2>1, ReturnAudits
<1>4. CASE Open
  <2>1. con # "returned" /\ con' \in {"first", "collect"} /\ UNCHANGED <<log, audit>>
    BY <1>4 DEF Open
  <2> QED BY <2>1, AuditKept
<1>5. CASE OpenFails
  BY <1>5, FailedAudits DEF OpenFails
<1>6. CASE Collect
  <2>1. CASE RecvError # "none" /\ AttemptFailed(RecvError)
    BY <1>6, <2>1, FailedAudits DEF Collect
  <2>2. CASE con = "collect" /\ UNCHANGED <<con, log, audit>>
    BY <2>2, AuditKept
  <2>3. CASE con = "collect" /\ status' = 200 /\ Return(log)
    BY <1>l, <2>3, ReturnAudits
  <2> QED BY <1>6, <2>1, <2>2, <2>3 DEF Collect
<1>7. CASE First
  <2>1. CASE RecvError # "none" /\ AttemptFailed(RecvError)
    BY <1>7, <2>1, FailedAudits DEF First
  <2>2. CASE con = "first" /\ con' = "role" /\ UNCHANGED <<log, audit>>
    BY <2>2, AuditKept
  <2> QED BY <1>7, <2>1, <2>2 DEF First
<1>8. CASE Role
  <2> DEFINE s == IF req.route = "chat" THEN <<Event("role")>> ELSE <<>>
  <2>1. con = "role" /\ status' = 200 /\ Writes(s, "relay")
    BY <1>8 DEF Role
  <2> HIDE DEF s
  <2> QED BY <2>1, WritesAudits
<1>9. CASE Relay
  <2>1. PICK c : Handle(c) /\ con = "relay"
    BY <1>9 DEF Relay
  <2>2. status' = 200
    BY <1>0, <2>1 DEF Handle
  <2>3. CASE UNCHANGED <<out, con, log, audit>>
    BY <2>1, <2>2, <2>3, AuditKept
  <2>4. CASE Writes(<<TextEvent(c)>>, "relay")
    BY <2>1, <2>2, <2>4, WritesAudits
  <2> QED BY <2>1, <2>3, <2>4 DEF Handle
<1>10. CASE RelayFails
  <2>1. con = "relay" /\ Return(log) /\ status' = status
    BY <1>10 DEF RelayFails
  <2>2. log.status = status'
    BY <1>0, <1>l, <2>1
  <2> QED BY <2>1, <2>2, ReturnAudits
<1>11. CASE Finish
  <2>1. con \in {"relay", "usage", "done"} /\ status' = 200
    BY <1>0, <1>11 DEF Finish
  <2> DEFINE s == IF req.usage /\ fin THEN <<Event("usage")>> ELSE <<>>
  <2>2. CASE Writes(<<Event("stop")>>, "usage")
    BY <2>1, <2>2, WritesAudits
  <2>3. CASE Writes(s, "done")
    <3> HIDE DEF s
    <3> QED BY <2>1, <2>3, WritesAudits
  <2>4. CASE Return(log)
    BY <1>l, <2>1, <2>4, ReturnAudits
  <2>5. CASE Return([log EXCEPT !.err = TRUE])
    <3>1. [log EXCEPT !.err = TRUE].status = status'
      BY <1>l, <2>1
    <3> QED BY <2>5, <3>1, ReturnAudits, Zenon
  <2> QED BY <1>11, <2>2, <2>3, <2>4, <2>5 DEF Finish
<1> QED BY <1>1, <1>2, <1>3, <1>4, <1>5, <1>6, <1>7, <1>8, <1>9, <1>10, <1>11
    DEF Handler, streamFailover

LEMMA AuditNext == TypeOK /\ SourceInv /\ AuditInv /\ [Next]_vars => AuditInv'
<1> SUFFICES ASSUME TypeOK, SourceInv, AuditInv, [Next]_vars PROVE AuditInv'
  OBVIOUS
<1>1. CASE Producer
  <2>1. UNCHANGED <<con, attempt, status, log, audit>>
    BY <1>1 DEF Producer, clientVars
  <2>2. src.at # "quiet"
    BY <1>1, ProducerMoves
  <2>3. src # Quiet
    BY <2>2 DEF Quiet
  <2> QED BY <2>1, <2>3 DEF AuditInv, AuditHasStatus
<1>2. CASE Handler
  BY <1>2, HandlerAudits
<1>3. CASE Disconnect \/ Expire \/ UNCHANGED vars
  BY <1>3, ClientMoves DEF AuditInv, AuditHasStatus
<1> QED BY <1>1, <1>2, <1>3 DEF Next

(* The audit line has the status that was answered, whatever the attempts   *)
(* did; only a request whose ranking failed is logged with another one, 200 *)
(* (statusCode in chatCompletions).                                         *)
THEOREM AuditsCorrect == Spec => []AuditHasStatus
<1>1. AuditInv => AuditHasStatus
  BY DEF AuditInv
<1>2. Init => TypeOK /\ SourceInv /\ AuditInv
  BY TypeInit, AuditInit
<1>3. TypeOK /\ SourceInv /\ AuditInv /\ [Next]_vars => (TypeOK /\ SourceInv /\ AuditInv)'
  BY TypeNext, AuditNext
<1> QED BY <1>1, <1>2, <1>3, PTL DEF Spec
=============================================================================
