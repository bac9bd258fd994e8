---------------------------- MODULE Message_proofs ----------------------------
(***************************************************************************)
(* What goes into a message and what becomes of it, in three parts.        *)
(*                                                                         *)
(* The clock and the token: whatever the length of a second and the delay, *)
(* and whatever the clock shows, the deadline of mq_timedreceive is valid, *)
(* never early, and at most one nanosecond late; whatever the width of the *)
(* counter, a token is not used again before the counter went round.       *)
(*                                                                         *)
(* The dispatch: every datagram is answered as CoAP wants it and no answer *)
(* is answered, for any codes and message ids, and for every way a reply   *)
(* can fail.                                                               *)
(*                                                                         *)
(* The options: a request carries what was inserted, by number and then in *)
(* the order of the calls; the iterator finds what its filter holds; the   *)
(* check of the critical options refuses the right messages.  The list of  *)
(* a PDU, which these compare with what the reader decodes, is not kept by *)
(* the code after the PDU is built: the invariant says that there is one.  *)
(***************************************************************************)
EXTENDS ClockToken, Dispatch, RequestPdu, SequenceLemmas

(* A sum that is over c, and below twice c, carries once. *)
LEMMA CarryOnce ==
  ASSUME NEW a \in Int, NEW c \in Int, 0 < c, c <= a, a < 2 * c
  PROVE  a \div c = 1 /\ a % c = a - c
<1>1. a = c * (a \div c) + (a % c) /\ a % c \in 0 .. c - 1 /\ a \div c \in Int
  <2>1. a \div c \in Int
    BY SMT
  <2>2. a % c \in 0 .. c - 1
    BY SMT
  <2>3. a = c * (a \div c) + (a % c)
    BY SMT
  <2> QED
    BY <2>1, <2>2, <2>3
<1> DEFINE q == a \div c
<1>2. q > 0
  <2> SUFFICES ASSUME q <= 0 PROVE FALSE
    BY <1>1, SMT
  <2>1. c * q <= 0
    BY <1>1, SMT
  <2> QED
    BY <1>1, <2>1, SMT
<1>3. q < 2
  <2> SUFFICES ASSUME q >= 2 PROVE FALSE
    BY <1>1, SMT
  <2>1. c * q >= 2 * c
    BY <1>1, SMT
  <2> QED
    BY <1>1, <2>1, SMT
<1> QED
  BY <1>1, <1>2, <1>3, SMT

(* delay_us_at_TimesSpec (CoAPpthread.c:91-110): the carry at 999999999     *)
(* gives a valid time, the delay later or one nanosecond more.              *)
LEMMA DelayBounds ==
  ASSUME NEW t \in [sec : Int, nsec : 0 .. Second - 1]
  PROVE  LET u == delay_us_at_TimesSpec(t)
         IN  /\ u.nsec \in 0 .. Second - 1
             /\ Elapsed(t, u) - Delay \in 0 .. 1
<1> DEFINE tmpns == t.nsec + Delay
<1> USE ClockAssumption
<1>1. tmpns \in Nat /\ t.sec \in Int /\ t.nsec \in 0 .. Second - 1 /\ Carry \in Nat
  BY DEF Carry
<1>2. CASE tmpns > Carry
  <2>1. tmpns \div Carry = 1 /\ tmpns % Carry = tmpns - Carry
    <3>1. tmpns \in Int /\ Carry \in Int /\ 0 < Carry /\ Carry <= tmpns /\ tmpns < 2 * Carry
      BY <1>1, <1>2 DEF Carry
    <3> QED
      BY <3>1, CarryOnce
  <2>2. delay_us_at_TimesSpec(t) = [sec |-> t.sec + 1, nsec |-> tmpns - Carry]
    BY <1>2, <2>1 DEF delay_us_at_TimesSpec
  <2>3. (t.sec + 1 - t.sec) * Second = Second
    BY <1>1
  <2> QED
    BY <1>1, <1>2, <2>2, <2>3 DEF Elapsed, Carry
<1>3. CASE ~(tmpns > Carry)
  <2>1. delay_us_at_TimesSpec(t) = [sec |-> t.sec, nsec |-> tmpns]
    BY <1>3 DEF delay_us_at_TimesSpec
  <2>2. (t.sec - t.sec) * Second = 0
    BY <1>1
  <2> QED
    BY <1>1, <1>3, <2>1, <2>2 DEF Elapsed, Carry
<1> QED
  BY <1>2, <1>3

(* The deadline always is the one computed from the last reading. *)
DeadlineInv == now \in [sec : {0}, nsec : Instants] /\ deadline = delay_us_at_TimesSpec(now)

(* The deadline of every turn of the CoAP thread is valid and prompt: the   *)
(* thread neither spins on an invalid tv_nsec nor returns early.            *)
THEOREM DelayPrompt == ClockSpec => []DeadlinePrompt
<1>1. ClockInit => DeadlineInv
  BY DEF ClockInit, DeadlineInv
<1>2. DeadlineInv /\ [ClockNext]_clockVars => DeadlineInv'
  <2> SUFFICES ASSUME DeadlineInv, [ClockNext]_clockVars PROVE DeadlineInv'
    OBVIOUS
  <2>1. CASE Turn
    BY <2>1 DEF Turn, DeadlineInv, delay_us_at_TimesSpec
  <2>2. CASE creatTheToken
    BY <2>2 DEF creatTheToken, DeadlineInv, delay_us_at_TimesSpec
  <2>3. CASE UNCHANGED clockVars
    BY <2>3 DEF clockVars, DeadlineInv, delay_us_at_TimesSpec
  <2> QED
    BY <2>1, <2>2, <2>3 DEF ClockNext
<1>3. DeadlineInv => DeadlinePrompt
  <2> SUFFICES ASSUME DeadlineInv PROVE DeadlinePrompt
    OBVIOUS
  <2>1. now \in [sec : Int, nsec : 0 .. Second - 1]
    <3>1. Instants \subseteq 0 .. Second - 1 /\ {0} \subseteq Int
      BY ClockAssumption
    <3>2. PICK s \in {0}, n \in Instants : now = [sec |-> s, nsec |-> n]
      BY DEF DeadlineInv
    <3>3. s \in Int /\ n \in 0 .. Second - 1
      BY <3>1
    <3> QED
      BY <3>2, <3>3, Zenon
  <2> QED
    BY <2>1, DelayBounds DEF DeadlineInv, DeadlinePrompt
<1> QED
  BY <1>1, <1>2, <1>3, PTL DEF ClockSpec

-----------------------------------------------------------------------------
(* Dividing by a product is dividing twice. *)
LEMMA DivideTwice ==
  ASSUME NEW a \in Nat, NEW b \in Nat \ {0}, NEW c \in Nat \ {0}
  PROVE  a \div (b * c) = (a \div c) \div b
<1> DEFINE q == a \div c
<1>1. q \in Int /\ a % c \in 0 .. c - 1 /\ a = c * q + (a % c)
  BY Division
<1>2. PICK p, s, r : p = q \div b /\ s = q % b /\ r = a % c
  OBVIOUS
<1>3. p \in Int /\ s \in 0 .. b - 1 /\ r \in 0 .. c - 1 /\ q = b * p + s /\ a = c * q + r
  BY <1>1, <1>2, Division
<1> HIDE DEF q
<1>4. b * c \in Nat \ {0}
  OBVIOUS
<1>5. a = (b * c) * p + (c * s + r)
  <2>1. c * (b * p + s) = (b * c) * p + c * s
    BY <1>3
  <2>2. (b * c) * p \in Int /\ c * s \in Int
    BY <1>3, <1>4
  <2> QED
    BY <1>3, <2>1, <2>2
<1>6. c * s + r \in 0 .. b * c - 1
  <2>1. c * s \in Nat
    BY <1>3
  <2>2. PICK t \in Nat : t = b - 1 - s
    BY <1>3
  <2>3. c * t \in Nat
    BY <2>2
  <2>4. b * c = c * s + c * t + c
    <3>1. b = s + t + 1
      BY <1>3, <2>2
    <3>2. (s + t + 1) * c = c * s + c * t + c
      BY <1>3, <2>2
    <3> QED
      BY <3>1, <3>2
  <2> QED
    BY <1>3, <2>1, <2>3, <2>4
<1>7. PICK n \in Nat \ {0} : n = b * c
  BY <1>4
<1>8. a \div n = p
  <2>1. PICK u \in 0 .. n - 1 : u = c * s + r
    BY <1>6, <1>7
  <2>2. a = n * p + u /\ a \in Int
    BY <1>5, <1>7, <2>1
  <2> QED
    BY <1>3, <2>2, QuotientIs
<1> QED
  BY <1>2, <1>7, <1>8 DEF q

-----------------------------------------------------------------------------
(* The powers of the base. *)
LEMMA PowersOf ==
  /\ Powers \in [0 .. Bytes -> Nat \ {0}]
  /\ Powers[0] = 1
  /\ \A k \in 1 .. Bytes : Powers[k] = Base * Powers[k - 1]
<1>1. Base \in Nat \ {0} /\ Bytes \in Nat
  BY TokenAssumption
<1>2. Powers = CHOOSE g : IsGeometric(g, Base, Bytes)
  BY DEF Powers, IsGeometric
<1> QED
  BY <1>1, <1>2, Geometric

(* A round of creatTheToken's loop takes the lowest byte off what is left. *)
LEMMA RestStep ==
  ASSUME NEW me \in Nat, NEW i \in 1 .. Bytes
  PROVE  /\ Rest(me, i) \in Int /\ Rest(me, i - 1) \in Int /\ Byte(me, i) \in 0 .. Base - 1
         /\ Rest(me, i - 1) = Base * Rest(me, i) + Byte(me, i)
<1>1. Base \in Nat \ {0} /\ Bytes \in Nat
  BY TokenAssumption
<1>2. PICK p \in Nat \ {0} : p = Powers[i - 1]
  <2>1. i - 1 \in 0 .. Bytes
    BY <1>1
  <2>2. Powers[i - 1] \in Nat \ {0}
    BY <2>1, PowersOf
  <2> QED
    BY <2>2, Zenon
<1>3. Powers[i] = Base * p
  BY <1>2, PowersOf
<1>4. me \div (Base * p) = (me \div p) \div Base
  BY <1>1, <1>2, DivideTwice
<1>5. PICK q \in Int : q = me \div p
  <2>1. me \div p \in Int
    BY Division
  <2> QED
    BY <2>1, Zenon
<1>6. Rest(me, i - 1) = q /\ Rest(me, i) = q \div Base /\ Byte(me, i) = q % Base
  BY <1>2, <1>3, <1>4, <1>5 DEF Rest, Byte
<1> QED
  BY <1>1, <1>5, <1>6, Division

(* The loop ends: what is left of a value of the counter gets zero. *)
LEMMA LoopEnds ==
  ASSUME NEW me \in 0 .. Capacity - 1
  PROVE  /\ Significant(me) \in 0 .. Bytes
         /\ Rest(me, Significant(me)) = 0
<1>1. Bytes \in Nat /\ Bytes \in 0 .. Bytes
  BY TokenAssumption
<1>2. PICK p \in Nat \ {0} : p = Powers[Bytes]
  <2>1. Powers[Bytes] \in Nat \ {0}
    BY <1>1, PowersOf
  <2> QED
    BY <2>1, Zenon
<1>3. me \in 0 .. p - 1 /\ me \in Int
  BY <1>2 DEF Capacity
<1>4. me \div p = 0
  <2>1. me = p * 0 + me
    BY <1>2, <1>3
  <2> QED
    BY <1>3, <2>1, QuotientIs
<1> DEFINE Ended == {n \in 0 .. Bytes : Rest(me, n) = 0}
<1>5. Bytes \in Ended
  BY <1>1, <1>2, <1>4 DEF Rest
<1>6. Ended \subseteq Nat /\ Ended # {}
  BY <1>1, <1>5
<1>7. PICK n \in Ended : \A m \in Ended : n <= m
  BY <1>6, LeastNatural
<1>8. n \in 0 .. Bytes /\ Rest(me, n) = 0 /\ \A m \in 0 .. n - 1 : Rest(me, m) # 0
  BY <1>1, <1>7
<1> HIDE DEF Ended
<1> QED
  BY <1>8 DEF Significant

(* Two values of the counter with the same token are the same: what is left *)
(* after the last round is zero, and each round can be undone.              *)
LEMMA TokenOfInjective ==
  ASSUME NEW a \in 0 .. Capacity - 1, NEW b \in 0 .. Capacity - 1, TokenOf(a) = TokenOf(b)
  PROVE  a = b
<1>0. Bytes \in Nat /\ Base \in Nat \ {0} /\ a \in Nat /\ b \in Nat
  BY TokenAssumption, PowersOf DEF Capacity
<1>1. PICK n \in 0 .. Bytes : n = Significant(a) /\ Rest(a, n) = 0
  BY LoopEnds
<1>2. PICK m \in 0 .. Bytes : m = Significant(b) /\ Rest(b, m) = 0
  BY LoopEnds
<1>3. [i \in 1 .. n |-> Byte(a, i)] = [i \in 1 .. m |-> Byte(b, i)]
  BY <1>1, <1>2 DEF TokenOf
<1>4. n = m
  <2>1. 1 .. n = 1 .. m
    BY <1>3, Zenon
  <2>2. n \in 1 .. n \/ n = 0
    BY <1>0, <1>1
  <2>3. m \in 1 .. m \/ m = 0
    BY <1>0, <1>2
  <2> QED
    BY <1>0, <1>1, <1>2, <2>1, <2>2, <2>3
<1>5. \A i \in 1 .. n : Byte(a, i) = Byte(b, i)
  BY <1>3, <1>4, Zenon
<1> DEFINE T == {k \in Nat : k <= n => Rest(a, n - k) = Rest(b, n - k)}
<1>6. 0 \in T
  BY <1>0, <1>1, <1>2, <1>4
<1>7. ASSUME NEW k \in Nat, k \in T PROVE k + 1 \in T
  <2> SUFFICES ASSUME k + 1 <= n PROVE Rest(a, n - (k + 1)) = Rest(b, n - (k + 1))
    OBVIOUS
  <2>1. PICK i \in 1 .. Bytes : i = n - k /\ i \in 1 .. n
    BY <1>0, <1>1
  <2>2. Rest(a, i) = Rest(b, i)
    BY <1>7, <2>1
  <2>3. Rest(a, i - 1) = Rest(b, i - 1)
    BY <1>0, <1>5, <2>1, <2>2, RestStep
  <2>4. n - (k + 1) = i - 1
    BY <1>0, <1>1, <2>1
  <2> QED
    BY <2>3, <2>4
<1> HIDE DEF T
<1>8. n \in T
  BY <1>0, <1>6, <1>7, SetInduction
<1>9. Rest(a, n - n) = Rest(b, n - n)
  BY <1>0, <1>1, <1>8 DEF T
<1>10. n - n = 0 /\ a \div 1 = a /\ b \div 1 = b
  BY <1>0, <1>1
<1> QED
  BY <1>9, <1>10, PowersOf DEF Rest

Tokens == {TokenOf(k) : k \in 0 .. Capacity - 1}

(* The k-th request got the token of the k-th value of the counter. *)
TokenInv ==
  /\ issued \in Seq(Tokens)
  /\ token = Len(issued) % Capacity
  /\ \A k \in 1 .. Len(issued) : issued[k] = TokenOf(k % Capacity)

(* There is at least one token. *)
LEMMA CapacityPositive == Capacity \in Nat \ {0}
<1>1. Bytes \in 0 .. Bytes
  BY TokenAssumption
<1> QED
  BY <1>1, PowersOf DEF Capacity

(* Counting modulo the capacity. *)
LEMMA CountOn ==
  ASSUME NEW n \in Nat
  PROVE  /\ n % Capacity \in 0 .. Capacity - 1
         /\ ((n % Capacity) + 1) % Capacity = (n + 1) % Capacity
<1>1. PICK c \in Nat \ {0} : c = Capacity
  BY CapacityPositive, Zenon
<1>2. PICK q \in Int, r \in 0 .. c - 1 : n = c * q + r /\ r = n % c
  <2>1. n \div c \in Int /\ n % c \in 0 .. c - 1 /\ n = c * (n \div c) + (n % c)
    BY Division
  <2> QED
    BY <2>1, Zenon
<1>3. PICK p \in Int, s \in 0 .. c - 1 : r + 1 = c * p + s /\ s = (r + 1) % c
  <2>1. r + 1 \in Int
    BY <1>1
  <2>2. (r + 1) \div c \in Int /\ (r + 1) % c \in 0 .. c - 1
        /\ r + 1 = c * ((r + 1) \div c) + ((r + 1) % c)
    BY <2>1, Division
  <2> QED
    BY <2>2, Zenon
<1>4. n + 1 = c * (q + p) + s
  <2>1. c * (q + p) = c * q + c * p
    OBVIOUS
  <2>2. c * q \in Int /\ c * p \in Int
    OBVIOUS
  <2> QED
    BY <1>2, <1>3, <2>1, <2>2
<1>5. (n + 1) % c = s
  <2>1. PICK x, y : x = (n + 1) \div c /\ y = (n + 1) % c
    OBVIOUS
  <2>2. n + 1 \in Int
    OBVIOUS
  <2>3. x \in Int /\ y \in 0 .. c - 1 /\ n + 1 = c * x + y
    BY <2>1, <2>2, Division
  <2>4. q + p \in Int /\ c * (q + p) + s = c * x + y
    BY <1>4, <2>3
  <2>5. y = s
    BY <2>3, <2>4, DivisionUnique
  <2> QED
    BY <2>1, <2>5
<1> QED
  BY <1>1, <1>2, <1>3, <1>5

(* Numbers that are less than the capacity apart differ modulo it. *)
LEMMA ApartDiffer ==
  ASSUME NEW i \in Nat, NEW j \in Nat, i < j, j - i < Capacity
  PROVE  i % Capacity # j % Capacity
<1>1. PICK c \in Nat \ {0} : c = Capacity
  BY CapacityPositive, Zenon
<1>2. SUFFICES ASSUME i % c = j % c PROVE FALSE
  BY <1>1
<1>3. PICK q, p, r : q = i \div c /\ p = j \div c /\ r = i % c
  OBVIOUS
<1>4. q \in Int /\ r \in 0 .. c - 1 /\ i = c * q + r
  BY <1>3, Division
<1>5. p \in Int /\ j = c * p + r
  BY <1>2, <1>3, Division
<1>6. PICK d \in 0 .. c - 1 : d = j - i /\ d # 0
  BY <1>1
<1>7. c * p + 0 = c * q + d
  <2>1. c * p \in Int /\ c * q \in Int
    BY <1>4, <1>5
  <2> QED
    BY <1>4, <1>5, <1>6, <2>1
<1>8. 0 \in 0 .. c - 1
  OBVIOUS
<1> QED
  BY <1>4, <1>5, <1>6, <1>7, <1>8, DivisionUnique

(* A token is not used again before the counter went round                  *)
(* (CoAPpthread.c:70-88), whatever its width.                               *)
THEOREM TokensAreDistinct == ClockSpec => []TokensDistinct
<1>1. ClockInit => TokenInv
  <2> SUFFICES ASSUME ClockInit PROVE TokenInv
    OBVIOUS
  <2>1. issued = <<>> /\ token = 0 /\ Len(issued) = 0 /\ issued \in Seq(Tokens)
    BY DEF ClockInit
  <2>2. 0 % Capacity = 0
    <3>1. PICK c \in Nat \ {0} : c = Capacity
      BY CapacityPositive, Zenon
    <3>2. 0 % c = 0
      OBVIOUS
    <3> QED
      BY <3>1, <3>2
  <2> QED
    BY <2>1, <2>2 DEF TokenInv
<1>2. TokenInv /\ [ClockNext]_clockVars => TokenInv'
  <2> SUFFICES ASSUME TokenInv, [ClockNext]_clockVars PROVE TokenInv'
    OBVIOUS
  <2>1. CASE UNCHANGED <<token, issued>>
    BY <2>1 DEF TokenInv
  <2>2. CASE creatTheToken
    <3>1. PICK n \in Nat : n = Len(issued)
      BY LenProperties DEF TokenInv
    <3>2. token' = (n + 1) % Capacity /\ token' \in 0 .. Capacity - 1
      BY <2>2, <3>1, CountOn DEF creatTheToken, TokenInv
    <3>3. TokenOf(token') \in Tokens
      BY <3>2 DEF Tokens
    <3>4. issued' = Append(issued, TokenOf(token')) /\ issued \in Seq(Tokens)
      BY <2>2 DEF creatTheToken, TokenInv
    <3>5. issued' \in Seq(Tokens) /\ Len(issued') = n + 1
      BY <3>1, <3>3, <3>4
    <3>6. ASSUME NEW k \in 1 .. Len(issued') PROVE issued'[k] = TokenOf(k % Capacity)
      <4>1. CASE k = n + 1
        <5>1. issued'[n + 1] = TokenOf(token')
          BY <3>1, <3>3, <3>4
        <5> QED
          BY <3>2, <4>1, <5>1
      <4>2. CASE k # n + 1
        <5>1. k \in 1 .. Len(issued)
          BY <3>1, <3>5, <4>2
        <5>2. issued'[k] = issued[k]
          BY <3>1, <3>3, <3>4, <5>1
        <5> QED
          BY <5>1, <5>2 DEF TokenInv
      <4> QED
        BY <4>1, <4>2
    <3> QED
      BY <3>2, <3>5, <3>6 DEF TokenInv
  <2> QED
    BY <2>1, <2>2 DEF ClockNext, Turn, clockVars
<1>3. TokenInv => TokensDistinct
  <2> SUFFICES ASSUME TokenInv,
                      NEW i \in 1 .. Len(issued), NEW j \in 1 .. Len(issued),
                      i < j, j - i < Capacity, issued[i] = issued[j]
               PROVE  FALSE
    BY DEF TokensDistinct
  <2>1. i \in Nat /\ j \in Nat
    BY LenProperties DEF TokenInv
  <2>2. i % Capacity # j % Capacity
    BY <2>1, ApartDiffer
  <2>3. i % Capacity \in 0 .. Capacity - 1 /\ j % Capacity \in 0 .. Capacity - 1
    BY <2>1, CountOn
  <2>4. TokenOf(i % Capacity) = TokenOf(j % Capacity)
    BY DEF TokenInv
  <2> QED
    BY <2>2, <2>3, <2>4, TokenOfInjective
<1> QED
  BY <1>1, <1>2, <1>3, PTL DEF ClockSpec
-----------------------------------------------------------------------------

(* What is ever sent: an acknowledgement, with or without a response in it, *)
(* a reset, or a response without options in a message that needs no        *)
(* answer.                                                                  *)
Answering(r) ==
  \/ r.type = "ACK" /\ r.code \in ReplyCodes
  \/ r.type = "RST"
  \/ r.type = "NON" /\ r.code \in ReplyCodes \ {Empty} /\ r.options = {}

(* What coap_read to message_handler send for the datagram. *)
Owed(r) ==
  /\ Answering(r)
  /\ r.mid = datagram.mid
  /\ datagram.type = "CON" => r.type \in {"ACK", "RST"}
  /\ r.type = "ACK" => datagram.type = "CON"

(* Nothing was sent before the dispatch, and at most one reply after it:    *)
(* one for a CON, unless it was lost, and none for a reply.                 *)
RepliesInv ==
  /\ stage \in {"read", "dispatch", "handler", "dropped"} => replies = <<>> /\ ~lapsed
  /\ stage = "done" =>
       \/ replies = <<>> /\ (datagram.type = "CON" => lapsed)
       \/ echoes = 0 /\ \E r : replies = <<r>> /\ Owed(r)

(* Only a reply is echoed, and the reply to a CON carries the message id    *)
(* that is awaited, until the dispatch of it ends the wait.                 *)
EchoInv ==
  /\ echoes \in {0, 1}
  /\ echoes = 0 => awaited = IF datagram.type = "CON" THEN datagram.mid ELSE NoMid
  /\ echoes = 1 =>
       /\ Answering(datagram)
       /\ stage \in {"handler", "done"} => awaited = NoMid
       /\ awaited # NoMid => datagram.type \in {"ACK", "RST"} /\ datagram.mid = awaited

DInv ==
  /\ stage \in {"read", "dispatch", "handler", "done", "dropped"}
  /\ lapsed \in BOOLEAN
  /\ stage = "handler" => COAP_MESSAGE_IS_RESPONSE(datagram)
  /\ RepliesInv /\ EchoInv

-----------------------------------------------------------------------------
(* DInv holds of a datagram just read. *)
LEMMA InitDInv == Init => DInv
<1> SUFFICES ASSUME Init
             PROVE  DInv
  OBVIOUS
<1>1. stage = "read" /\ replies = <<>> /\ lapsed = FALSE /\ echoes = 0
      /\ awaited = IF datagram.type = "CON" THEN datagram.mid ELSE NoMid
  BY DEF Init
<1>2. RepliesInv
  <2>1. ~lapsed /\ stage # "done"
    BY <1>1
  <2> QED
    BY <1>1, <2>1 DEF RepliesInv
<1>3. EchoInv
  BY <1>1 DEF EchoInv
<1> QED
  BY <1>1, <1>2, <1>3 DEF DInv

(* The datagram is done with: there is one reply, or none for want of       *)
(* memory.                                                                  *)
LEMMA Replied ==
  ASSUME DInv, echoes = 0, stage \in {"dispatch", "handler"}, stage' = "done",
         datagram' = datagram, echoes' = echoes, NEW r, Owed(r), Sends(r)
  PROVE  RepliesInv' /\ lapsed' \in BOOLEAN
<1>1. replies = <<>> /\ ~lapsed
  BY DEF DInv, RepliesInv
<1>2. CASE replies' = Append(replies, r) /\ UNCHANGED lapsed
  <2>1. replies' = <<r>>
    BY <1>1, <1>2
  <2>2. Owed(r)'
    BY DEF Owed, Answering
  <2>3. RepliesInv'
    BY <2>1, <2>2 DEF RepliesInv
  <2> QED
    BY <1>2, <2>3 DEF DInv
<1>3. CASE lapsed' = TRUE /\ UNCHANGED replies
  <2>1. RepliesInv'
    BY <1>1, <1>3 DEF RepliesInv
  <2> QED
    BY <1>3, <2>1
<1> QED
  BY <1>2, <1>3 DEF Sends

(* What is sent is owed. *)
LEMMA ErrorOwed ==
  ASSUME NEW n \in {205, 402, 404, 405}, NEW options,
         datagram.type = "CON" \/ options = {}
  PROVE  Owed(Reply(ResponseType, COAP_RESPONSE_CODE(n), options))
<1>1. PICK c : c = COAP_RESPONSE_CODE(n)
  OBVIOUS
<1>2. c \in ReplyCodes
  BY <1>1 DEF ReplyCodes
<1>3. c # Empty
  BY <1>1 DEF COAP_RESPONSE_CODE, Empty
<1>4. PICK r : r = Reply(ResponseType, c, options)
  OBVIOUS
<1>5. /\ r.code = c /\ r.options = options /\ r.mid = datagram.mid
      /\ r.type = IF datagram.type = "CON" THEN "ACK" ELSE "NON"
  BY <1>4 DEF Reply, ResponseType
<1>6. Owed(r)
  BY <1>2, <1>3, <1>5 DEF Owed, Answering
<1> QED
  BY <1>1, <1>4, <1>6

(* An empty ACK or RST is owed to the datagram it answers. *)
LEMMA BareOwed ==
  ASSUME NEW t \in {"ACK", "RST"}, t = "ACK" => datagram.type = "CON"
  PROVE  Owed(Reply(t, Empty, {}))
<1>1. PICK r : r = Reply(t, Empty, {})
  OBVIOUS
<1>2. r.type = t /\ r.code = Empty /\ r.mid = datagram.mid
  BY <1>1 DEF Reply
<1>3. Owed(r)
  BY <1>2 DEF Owed, Answering, ReplyCodes
<1> QED
  BY <1>1, <1>3

(* A reply is neither a request nor refused. *)
LEMMA AnswersAreResponses ==
  ASSUME Answering(datagram), datagram.type \in {"NON", "ACK"}, ~(datagram.type = "ACK" /\ datagram.code = Empty)
  PROVE  COAP_MESSAGE_IS_RESPONSE(datagram) /\ ~COAP_MESSAGE_IS_REQUEST(datagram)
<1>1. datagram.code \in ReplyCodes \ {Empty}
  BY DEF Answering
<1>2. datagram.code \in {69, 130, 132, 133}
  BY <1>1 DEF ReplyCodes, COAP_RESPONSE_CODE
<1> QED
  BY <1>2 DEF COAP_MESSAGE_IS_REQUEST, COAP_MESSAGE_IS_RESPONSE, Empty

-----------------------------------------------------------------------------
(* What coap_dispatch does to the one who waits. *)
LEMMA DispatchEcho ==
  ASSUME DInv, coap_dispatch
  PROVE  EchoInv'
<1>1. /\ datagram' = datagram /\ echoes' = echoes
      /\ awaited' = IF datagram.type \in {"ACK", "RST"} /\ echoes = 1 /\ datagram.mid = awaited
                    THEN NoMid ELSE awaited
  BY DEF coap_dispatch
<1>2. EchoInv
  BY DEF DInv
<1>3. CASE echoes = 0
  BY <1>1, <1>2, <1>3 DEF EchoInv
<1>4. CASE echoes = 1
  <2>1. Answering(datagram)
    BY <1>2, <1>4 DEF EchoInv
  <2>2. awaited' = NoMid
    BY <1>1, <1>2, <1>4 DEF EchoInv
  <2>3. Answering(datagram)'
    BY <1>1, <2>1 DEF Answering
  <2> QED
    BY <1>1, <1>4, <2>2, <2>3 DEF EchoInv
<1> QED
  BY <1>2, <1>3, <1>4 DEF EchoInv

(* coap_dispatch keeps it, in each of its cases. *)
LEMMA DispatchDInv ==
  ASSUME DInv, coap_dispatch
  PROVE  DInv'
<1>1. stage = "dispatch" /\ datagram' = datagram /\ echoes' = echoes
  BY DEF coap_dispatch
<1>2. replies = <<>> /\ ~lapsed /\ lapsed \in BOOLEAN
  BY <1>1 DEF DInv, RepliesInv
<1>3. EchoInv'
  BY DispatchEcho
<1>4. echoes = 0 \/ Answering(datagram)
  BY DEF DInv, EchoInv
(* Nothing is sent. *)
<1>5. ASSUME SendsNothing,
             \/ stage' = "handler" /\ COAP_MESSAGE_IS_RESPONSE(datagram)
             \/ stage' = "done" /\ datagram.type # "CON"
      PROVE  DInv'
  <2>1. replies' = <<>> /\ ~lapsed' /\ lapsed' \in BOOLEAN
    BY <1>2, <1>5 DEF SendsNothing
  <2>2. RepliesInv'
    BY <1>1, <1>5, <2>1 DEF RepliesInv
  <2>3. stage' = "handler" => COAP_MESSAGE_IS_RESPONSE(datagram)'
    BY <1>1, <1>5 DEF COAP_MESSAGE_IS_RESPONSE
  <2>4. stage' \in {"handler", "done"}
    BY <1>5
  <2> QED
    BY <1>3, <2>1, <2>2, <2>3, <2>4 DEF DInv
(* Something is sent. *)
<1>6. ASSUME NEW r, Owed(r), Sends(r), stage' = "done", echoes = 0
      PROVE  DInv'
  <2>1. RepliesInv' /\ lapsed' \in BOOLEAN
    BY <1>1, <1>6, Replied
  <2> QED
    BY <1>3, <1>6, <2>1 DEF DInv
(* Nothing can be sent. *)
<1>7. ASSUME lapsed' = TRUE, UNCHANGED replies, stage' = "done"
      PROVE  DInv'
  <2>1. RepliesInv'
    BY <1>2, <1>7 DEF RepliesInv
  <2> QED
    BY <1>3, <1>7, <2>1 DEF DInv
<1>8. ASSUME Classify, datagram.type # "RST",
             ~(datagram.type = "ACK" /\ datagram.code = Empty)
      PROVE  DInv'
  <2>1. COAP_MESSAGE_IS_RESPONSE(datagram) \/ echoes = 0
    BY <1>4, <1>8, AnswersAreResponses DEF Answering
  <2>2. CASE COAP_MESSAGE_IS_REQUEST(datagram) /\ handle_request /\ stage' = "done"
    <3>1. echoes = 0
      BY <1>4, <1>8, <2>2, AnswersAreResponses DEF Answering
    <3>2. CASE Sends(Reply(ResponseType, COAP_RESPONSE_CODE(205), {}))
      BY <1>6, <2>2, <3>1, <3>2, ErrorOwed
    <3>3. CASE coap_send_error(404, {})
      BY <1>6, <2>2, <3>1, <3>3, ErrorOwed DEF coap_send_error, coap_new_error_response
    <3>4. CASE coap_send_error(405, {})
      BY <1>6, <2>2, <3>1, <3>4, ErrorOwed DEF coap_send_error, coap_new_error_response
    <3>5. CASE lapsed' = TRUE /\ UNCHANGED replies
      BY <1>7, <2>2, <3>5
    <3> QED
      BY <2>2, <3>2, <3>3, <3>4, <3>5 DEF handle_request
  <2>3. CASE COAP_MESSAGE_IS_RESPONSE(datagram) /\ SendsNothing /\ stage' = "handler"
    BY <1>5, <2>3, Zenon
  <2>4. CASE /\ ~COAP_MESSAGE_IS_REQUEST(datagram) /\ ~COAP_MESSAGE_IS_RESPONSE(datagram)
             /\ coap_send_rst /\ stage' = "done"
    BY <1>6, <2>1, <2>4, BareOwed DEF coap_send_rst, coap_send_message_type
  <2> QED
    BY <1>8, <2>2, <2>3, <2>4 DEF Classify
<1>9. CASE datagram.type \in {"CON", "NON"} /\ CriticalKnown /\ Classify
  BY <1>8, <1>9
<1>10. CASE /\ datagram.type = "CON" /\ ~CriticalKnown
            /\ coap_send_error(402, {"unknown"}) /\ stage' = "done"
  <2>1. echoes = 0
    BY <1>4, <1>10 DEF Answering
  <2> QED
    BY <1>6, <1>10, <2>1, ErrorOwed DEF coap_send_error, coap_new_error_response
<1>11. CASE datagram.type = "NON" /\ ~CriticalKnown /\ SendsNothing /\ stage' = "done"
  BY <1>5, <1>11
<1>12. CASE /\ datagram.type = "ACK"
            /\ IF SilentAck THEN SendsNothing /\ stage' = "done" ELSE Classify
  BY <1>5, <1>8, <1>12 DEF SilentAck
<1>13. CASE datagram.type = "RST" /\ SendsNothing /\ stage' = "done"
  BY <1>5, <1>13
<1> QED
  BY <1>9, <1>10, <1>11, <1>12, <1>13 DEF coap_dispatch

(* message_handler keeps it. *)
LEMMA HandlerDInv ==
  ASSUME DInv, message_handler
  PROVE  DInv'
<1>1. /\ stage = "handler" /\ stage' = "done" /\ coap_send_ack
      /\ datagram' = datagram /\ echoes' = echoes /\ awaited' = awaited
  BY DEF message_handler
<1>2. EchoInv'
  BY <1>1 DEF DInv, EchoInv, Answering
<1>3. CASE datagram.type = "CON"
  <2>1. Sends(Reply("ACK", Empty, {}))
    BY <1>1, <1>3 DEF coap_send_ack, coap_send_message_type
  <2>2. echoes = 0
    BY <1>3 DEF DInv, EchoInv, Answering
  <2>3. RepliesInv' /\ lapsed' \in BOOLEAN
    BY <1>1, <1>3, <2>1, <2>2, Replied, BareOwed
  <2> QED
    BY <1>1, <1>2, <2>3 DEF DInv
<1>4. CASE datagram.type # "CON"
  <2>1. replies' = <<>> /\ lapsed' \in BOOLEAN
    BY <1>1, <1>4 DEF coap_send_ack, SendsNothing, DInv, RepliesInv
  <2>2. RepliesInv'
    BY <1>1, <1>4, <2>1 DEF RepliesInv
  <2> QED
    BY <1>1, <1>2, <2>1, <2>2 DEF DInv
<1> QED
  BY <1>3, <1>4

(* There is a reply only to a datagram of the asker. *)
LEMMA EchoDInv ==
  ASSUME DInv, Echo
  PROVE  DInv'
<1>1. /\ stage = "done" /\ stage' = "read"
      /\ replies' = <<>> /\ lapsed' = FALSE /\ echoes' = echoes + 1 /\ awaited' = awaited
  BY DEF Echo
<1>2. PICK i \in 1 .. Len(replies) : datagram' = replies[i]
  BY DEF Echo
<1>3. replies # <<>>
  BY <1>2
<1>4. PICK r : replies = <<r>> /\ Owed(r) /\ echoes = 0
  BY <1>1, <1>3 DEF DInv, RepliesInv
<1>5. datagram' = r
  BY <1>2, <1>4
<1>6. EchoInv'
  <2>1. awaited = IF datagram.type = "CON" THEN datagram.mid ELSE NoMid
    BY <1>4 DEF DInv, EchoInv
  <2>2. awaited' # NoMid => r.type \in {"ACK", "RST"} /\ r.mid = awaited'
    BY <1>1, <1>4, <2>1 DEF Owed
  <2>3. Answering(datagram')
    BY <1>4, <1>5 DEF Owed
  <2> QED
    BY <1>1, <1>4, <1>5, <2>2, <2>3 DEF EchoInv, Answering
<1>7. RepliesInv'
  BY <1>1 DEF RepliesInv
<1> QED
  BY <1>1, <1>6, <1>7 DEF DInv

(* So does every step. *)
LEMMA NextDInv == DInv /\ [Next]_vars => DInv'
<1> SUFFICES ASSUME DInv, [Next]_vars
             PROVE  DInv'
  OBVIOUS
<1>1. CASE Echo
  BY <1>1, EchoDInv
<1>2. CASE coap_read
  BY <1>2 DEF coap_read, DInv, RepliesInv, EchoInv, Owed, Answering
<1>3. CASE coap_dispatch
  BY <1>3, DispatchDInv
<1>4. CASE message_handler
  BY <1>4, HandlerDInv
<1>5. CASE UNCHANGED vars
  BY <1>5 DEF vars, DInv, RepliesInv, EchoInv, Owed, Answering, COAP_MESSAGE_IS_RESPONSE
<1> QED
  BY <1>1, <1>2, <1>3, <1>4, <1>5 DEF Next

(* DInv is an invariant of the exchange. *)
LEMMA InductiveDInv == Spec => []DInv
<1>1. Init => DInv
  BY InitDInv
<1>2. DInv /\ [Next]_vars => DInv'
  BY NextDInv
<1> QED
  BY <1>1, <1>2, PTL DEF Spec

(* A CON is answered by one ACK or RST with its message id, unless there is *)
(* no memory for it or sendto fails, whichever branch of coap_dispatch or   *)
(* message_handler answers it; nothing else is ever acknowledged.           *)
THEOREM EveryConAnsweredOnce == Spec => []AnsweredOnce
<1>1. DInv => AnsweredOnce
  <2> SUFFICES ASSUME DInv, stage = "done"
               PROVE  /\ Len(replies) <= 1
                      /\ datagram.type = "CON" /\ ~lapsed => replies # <<>>
                      /\ \A i \in 1 .. Len(replies) : Owed(replies[i])
    BY DEF AnsweredOnce, Owed
  <2>1. CASE replies = <<>> /\ (datagram.type = "CON" => lapsed)
    BY <2>1
  <2>2. CASE \E r : replies = <<r>> /\ Owed(r)
    BY <2>2
  <2> QED
    BY <2>1, <2>2 DEF DInv, RepliesInv
<1> QED
  BY <1>1, InductiveDInv, PTL

(* Two stations with this library do not answer each other for ever: the    *)
(* reply to a datagram is not answered, and it takes the CON it answers out *)
(* of the sendqueue of the one who sent it.                                 *)
THEOREM ExchangesEnd == Spec => []ExchangeEnds
<1>1. DInv => ExchangeEnds
  BY DEF DInv, RepliesInv, EchoInv, ExchangeEnds
<1> QED
  BY <1>1, InductiveDInv, PTL

-----------------------------------------------------------------------------
(* Options as the lists hold them, and as a PDU holds them. *)
Option  == [key : Nat, length : Nat, nth : Nat]
Coded   == [code : Nat, ext : Nat]
Encoded == [delta : Coded, length : Coded, nth : Nat]

Sorted(list) == \A i, j \in 1 .. Len(list) : i < j => Before(list[i], list[j])

(* nth counts the calls. *)
Named(s) == \A i \in 1 .. Len(s) : s[i].nth = i

(* The number of option n, and where it starts from. *)
KeyAt(list, n) == IF n = 0 THEN 0 ELSE list[n].key

(* Narrow, of a list. *)
NarrowList(list) == \A n \in 1 .. Len(list) : list[n].key < 256

(* Option e of a PDU is option n of list. *)
CodedAs(e, list, n) ==
  /\ coap_opt_delta(e) = KeyAt(list, n) - KeyAt(list, n - 1)
  /\ coap_opt_length(e) = list[n].length
  /\ e.nth = list[n].nth

(* The options of a PDU are those of list. *)
Carries(options, list) ==
  /\ options \in Seq(Encoded) /\ Len(options) = Len(list)
  /\ \A n \in 1 .. Len(list) : CodedAs(options[n], list, n)

(* The options of s, sorted. *)
Sorts(list, s) ==
  /\ list \in Seq(Option) /\ s \in Seq(Option) /\ Len(list) = Len(s)
  /\ ToSet(list) = ToSet(s) /\ Sorted(list) /\ Named(s)

(* Up to 268 the header of an option says what it should (option.h:251).    *)
LEMMA NibbleValue ==
  ASSUME NEW v \in Nat, v <= 268
  PROVE  Nibble(v) \in Coded /\ Value(Nibble(v)) = v /\ ExtSize(Nibble(v)) \in 0 .. 2
<1>1. CASE v <= 12
  <2>1. Nibble(v) = [code |-> v, ext |-> 0]
    BY <1>1, SMT DEF Nibble
  <2> QED
    BY <1>1, <2>1, SMT DEF Coded, Value, ExtSize
<1>2. CASE v > 12
  <2>1. (v - 13) % 256 = v - 13
    BY <1>2, SMT
  <2>2. Nibble(v) = [code |-> 13, ext |-> v - 13]
    BY <1>2, <2>1, SMT DEF Nibble
  <2> QED
    BY <1>2, <2>2, SMT DEF Coded, Value, ExtSize
<1> QED
  BY <1>1, <1>2, SMT

(* A peer codes every number right. *)
LEMMA PeerValue ==
  ASSUME NEW v \in Nat, v <= USHRT_MAX
  PROVE  PeerNibble(v) \in Coded /\ Value(PeerNibble(v)) = v
<1>1. CASE v <= 268
  <2>1. PeerNibble(v) = Nibble(v)
    BY <1>1, SMT DEF PeerNibble
  <2>2. Nibble(v) \in Coded /\ Value(Nibble(v)) = v
    BY <1>1, NibbleValue, SMT
  <2> QED
    BY <2>1, <2>2
<1>2. CASE v = 269
  BY <1>2, SMT DEF PeerNibble, Coded, Value
<1>3. CASE v > 269
  <2>1. Short(v - 269) = v - 269
    BY <1>3, SMT DEF Short, USHRT_MAX
  <2>2. PeerNibble(v) = [code |-> 14, ext |-> v - 269]
    BY <1>3, <2>1, SMT DEF PeerNibble, Nibble
  <2> QED
    BY <1>3, <2>2, SMT DEF Coded, Value
<1> QED
  BY <1>1, <1>2, <1>3, SMT

(* r is s with e behind its first n elements. *)
Inserts(r, s, n, e) == r = InsertAt(s, n + 1, e)

(* InsertAt puts one element in and moves those behind it up. *)
LEMMA InsertAtProperties ==
  ASSUME NEW S, NEW s \in Seq(S), NEW e \in S, NEW n \in 0 .. Len(s), NEW r, Inserts(r, s, n, e)
  PROVE  /\ r \in Seq(S) /\ Len(r) = Len(s) + 1
         /\ \A i \in 1 .. n : r[i] = s[i]
         /\ r[n + 1] = e
         /\ \A i \in n + 1 .. Len(s) : r[i + 1] = s[i]
<1>1. Len(s) \in Nat /\ n \in Nat /\ n <= Len(s) /\ \A i \in 1 .. Len(s) : s[i] \in S
  BY LenProperties
<1>2. PICK l \in Nat : l = Len(s)
  BY <1>1
<1>3. PICK a : a = SubSeq(s, 1, n)
  OBVIOUS
<1>4. PICK c : c = SubSeq(s, n + 1, l)
  OBVIOUS
<1>5. a \in Seq(S) /\ Len(a) = n /\ \A i \in 1 .. n : a[i] = s[i]
  <2>1. \A i \in 1 .. n : s[i] \in S
    BY <1>1
  <2>2. /\ a \in Seq(S) /\ Len(a) = IF 1 <= n THEN n - 1 + 1 ELSE 0
        /\ \A i \in 1 .. n - 1 + 1 : a[i] = s[1 + i - 1]
    BY <1>1, <1>3, <2>1, SubSeqProperties
  <2> QED
    BY <1>1, <2>2
<1>6. c \in Seq(S) /\ Len(c) = l - n /\ \A i \in 1 .. l - n : c[i] = s[n + i]
  <2>1. \A i \in n + 1 .. l : s[i] \in S
    BY <1>1, <1>2
  <2>2. /\ c \in Seq(S) /\ Len(c) = IF n + 1 <= l THEN l - (n + 1) + 1 ELSE 0
        /\ \A i \in 1 .. l - (n + 1) + 1 : c[i] = s[n + 1 + i - 1]
    BY <1>1, <1>2, <1>4, <2>1, SubSeqProperties
  <2>3. \A i \in 1 .. l - n : c[i] = s[n + i]
    <3> TAKE i \in 1 .. l - n
    <3>1. i \in 1 .. l - (n + 1) + 1 /\ n + 1 + i - 1 = n + i
      BY <1>1, <1>2
    <3> QED
      BY <2>2, <3>1
  <2> QED
    BY <1>1, <1>2, <2>2, <2>3
<1>7. PICK b : b = <<e>>
  OBVIOUS
<1>8. b \in Seq(S) /\ Len(b) = 1 /\ b[1] = e
  BY <1>7
<1>9. PICK ab : ab = a \o b
  OBVIOUS
<1>10. /\ ab \in Seq(S) /\ Len(ab) = n + 1
       /\ \A i \in 1 .. n + 1 : ab[i] = IF i <= n THEN s[i] ELSE e
  <2>1. /\ ab \in Seq(S) /\ Len(ab) = Len(a) + Len(b)
        /\ \A i \in 1 .. Len(a) + Len(b) : ab[i] = IF i <= Len(a) THEN a[i] ELSE b[i - Len(a)]
    BY <1>5, <1>8, <1>9, ConcatProperties
  <2>2. \A i \in 1 .. n + 1 : ab[i] = IF i <= n THEN s[i] ELSE e
    <3> TAKE i \in 1 .. n + 1
    <3>1. CASE i <= n
      BY <1>1, <1>5, <1>8, <2>1, <3>1
    <3>2. CASE i = n + 1
      <4>1. i - Len(a) = 1 /\ ~(i <= Len(a)) /\ i \in 1 .. Len(a) + Len(b)
        BY <1>1, <1>5, <1>8, <3>2
      <4> QED
        BY <1>1, <1>8, <2>1, <3>2, <4>1
    <3> QED
      BY <1>1, <3>1, <3>2
  <2> QED
    BY <1>5, <1>8, <2>1, <2>2
<1>11. PICK t : t = ab \o c
  OBVIOUS
<1>12. /\ t \in Seq(S) /\ Len(t) = l + 1
       /\ \A i \in 1 .. l + 1 : t[i] = IF i <= n + 1 THEN ab[i] ELSE c[i - (n + 1)]
  <2>1. /\ t \in Seq(S) /\ Len(t) = Len(ab) + Len(c)
        /\ \A i \in 1 .. Len(ab) + Len(c) : t[i] = IF i <= Len(ab) THEN ab[i] ELSE c[i - Len(ab)]
    BY <1>6, <1>10, <1>11, ConcatProperties
  <2> QED
    BY <1>1, <1>2, <1>6, <1>10, <2>1
<1>13. r = t
  <2>1. r = SubSeq(s, 1, (n + 1) - 1) \o <<e>> \o SubSeq(s, n + 1, Len(s))
    BY Zenon DEF Inserts, InsertAt
  <2>2. (n + 1) - 1 = n
    BY <1>1
  <2>3. SubSeq(s, 1, (n + 1) - 1) = a /\ SubSeq(s, n + 1, Len(s)) = c
    BY <1>2, <1>3, <1>4, <2>2, Zenon
  <2> QED
    BY <1>7, <1>9, <1>11, <2>1, <2>3, Zenon
<1>14. \A i \in 1 .. n : t[i] = s[i]
  BY <1>1, <1>2, <1>10, <1>12
<1>15. t[n + 1] = e
  BY <1>1, <1>2, <1>10, <1>12
<1>16. \A i \in n + 1 .. l : t[i + 1] = s[i]
  <2> TAKE i \in n + 1 .. l
  <2>1. i + 1 \in 1 .. l + 1 /\ ~(i + 1 <= n + 1)
    BY <1>1, <1>2
  <2>2. PICK k \in 1 .. l - n : k = i + 1 - (n + 1) /\ n + k = i
    BY <1>1, <1>2
  <2>3. c[k] = s[i]
    BY <1>6, <2>2
  <2> QED
    BY <1>12, <2>1, <2>2, <2>3
<1> QED
  BY <1>2, <1>12, <1>13, <1>14, <1>15, <1>16

(* Elements of a list of options. *)
LEMMA OptionFacts ==
  ASSUME NEW s \in Seq(Option)
  PROVE  /\ Len(s) \in Nat /\ DOMAIN s = 1 .. Len(s)
         /\ \A i \in 1 .. Len(s) : /\ s[i] \in Option /\ s[i].key \in Nat
                                   /\ s[i].length \in Nat /\ s[i].nth \in Nat
         /\ \A o : o \in ToSet(s) <=> \E i \in 1 .. Len(s) : s[i] = o
<1>1. Len(s) \in Nat /\ DOMAIN s = 1 .. Len(s) /\ \A i \in 1 .. Len(s) : s[i] \in Option
  BY LenProperties
<1> QED
  BY <1>1 DEF Option, ToSet

(* coap_insert: the new option goes behind those it does not precede, so    *)
(* that the list stays sorted and repeated options keep their order.        *)
LEMMA InsertSorts ==
  ASSUME NEW list \in Seq(Option), Sorted(list), NEW o \in Option,
         \A i \in 1 .. Len(list) : list[i].nth < o.nth,
         NEW r, r = coap_insert(list, o)
  PROVE  /\ r \in Seq(Option) /\ Len(r) = Len(list) + 1
         /\ ToSet(r) = ToSet(list) \cup {o} /\ Sorted(r)
<1>1. PICK l \in Nat : l = Len(list)
  BY OptionFacts
<1> DEFINE Passed(n) == \A i \in 1 .. n : order_opts(o, list[i]) >= 0
           Fit == {n \in 0 .. l : n = l \/ ~Passed(n + 1)}
<1>2. PICK x \in Fit : \A y \in Fit : x <= y
  <2>1. Fit \subseteq Nat /\ l \in Fit
    BY <1>1
  <2> HIDE DEF Fit
  <2> QED
    BY <2>1, LeastNatural
<1>3. x \in 0 .. l /\ Passed(x) /\ (x < l => ~Passed(x + 1))
  <2>1. x \in 0 .. l /\ (x < l => ~Passed(x + 1))
    BY <1>1, <1>2
  <2>2. CASE x = 0
    BY <2>1, <2>2
  <2>3. CASE x # 0
    <3>1. PICK y \in 0 .. l : y = x - 1 /\ y + 1 = x /\ y # l
      BY <1>1, <2>1, <2>3
    <3>2. y \notin Fit
      <4>1. ~(x <= y)
        BY <2>1, <3>1
      <4> QED
        BY <1>2, <4>1
    <3>3. Passed(y + 1)
      BY <3>1, <3>2
    <3> QED
      BY <2>1, <3>1, <3>3
  <2> QED
    BY <2>1, <2>2, <2>3
<1>4. PICK n : n = CHOOSE m \in 0 .. Len(list) : Passed(m) /\ (m < Len(list) => ~Passed(m + 1))
  OBVIOUS
<1>5. n \in 0 .. l /\ Passed(n) /\ (n < l => ~Passed(n + 1))
  <2>1. \E m \in 0 .. Len(list) : Passed(m) /\ (m < Len(list) => ~Passed(m + 1))
    BY <1>1, <1>3
  <2> HIDE DEF Passed
  <2> QED
    BY <1>1, <1>4, <2>1
<1>6. Inserts(r, list, n, o)
  BY <1>4 DEF coap_insert, Inserts
<1> HIDE DEF Fit
<1>7. /\ r \in Seq(Option) /\ Len(r) = l + 1
      /\ \A i \in 1 .. n : r[i] = list[i]
      /\ r[n + 1] = o
      /\ \A i \in n + 1 .. l : r[i + 1] = list[i]
  <2>1. n \in 0 .. Len(list)
    BY <1>1, <1>5
  <2> HIDE DEF Passed
  <2>2. /\ r \in Seq(Option) /\ Len(r) = Len(list) + 1
        /\ \A i \in 1 .. n : r[i] = list[i]
        /\ r[n + 1] = o
        /\ \A i \in n + 1 .. Len(list) : r[i + 1] = list[i]
    BY <1>6, <2>1, InsertAtProperties
  <2> QED
    BY <1>1, <2>2
<1>8. /\ \A i \in 1 .. l : list[i].key \in Nat /\ list[i].nth \in Nat /\ list[i].nth < o.nth
      /\ o.key \in Nat /\ o.nth \in Nat /\ n \in Nat /\ n <= l
  BY <1>1, <1>5, OptionFacts DEF Option
<1>9. \A i \in 1 .. n : Before(list[i], o)
  <2> TAKE i \in 1 .. n
  <2>1. order_opts(o, list[i]) >= 0 /\ i \in 1 .. l
    BY <1>5, <1>8
  <2>2. ~(o.key < list[i].key)
    BY <2>1 DEF order_opts
  <2> QED
    BY <1>8, <2>1, <2>2 DEF Before
<1>10. \A i \in n + 1 .. l : Before(o, list[i])
  <2> TAKE i \in n + 1 .. l
  <2>1. ~Passed(n + 1) /\ n + 1 \in 1 .. l /\ i \in 1 .. l
    BY <1>5, <1>8
  <2>2. PICK m \in 1 .. n + 1 : ~(order_opts(o, list[m]) >= 0)
    BY <2>1
  <2>3. m = n + 1
    BY <1>5, <1>8, <2>2
  <2>4. o.key < list[n + 1].key
    BY <2>2, <2>3 DEF order_opts
  <2>5. CASE i = n + 1
    BY <2>4, <2>5 DEF Before
  <2>6. CASE i # n + 1
    <3>1. n + 1 < i
      BY <1>8, <2>6
    <3>2. Before(list[n + 1], list[i])
      BY <1>1, <2>1, <3>1 DEF Sorted
    <3>3. list[n + 1].key <= list[i].key /\ list[n + 1].key \in Nat /\ list[i].key \in Nat
      BY <1>8, <2>1, <3>2 DEF Before
    <3>4. o.key < list[i].key
      BY <1>8, <2>4, <3>3
    <3> QED
      BY <3>4 DEF Before
  <2> QED
    BY <2>5, <2>6
<1> HIDE DEF Passed
<1>11. Sorted(r)
  <2> SUFFICES ASSUME NEW i \in 1 .. l + 1, NEW j \in 1 .. l + 1, i < j
               PROVE  Before(r[i], r[j])
    BY <1>7 DEF Sorted
  <2>1. CASE j <= n
    <3>1. i \in 1 .. n /\ j \in 1 .. n /\ i \in 1 .. l /\ j \in 1 .. l
      BY <1>8, <2>1
    <3> QED
      BY <1>1, <1>7, <3>1 DEF Sorted
  <2>2. CASE j = n + 1
    <3>1. i \in 1 .. n
      BY <1>8, <2>2
    <3> QED
      BY <1>7, <1>9, <2>2, <3>1
  <2>3. CASE j > n + 1
    <3>1. PICK k \in n + 1 .. l : j = k + 1
      BY <1>8, <2>3
    <3>2. r[j] = list[k] /\ k \in 1 .. l
      BY <1>7, <1>8, <3>1
    <3>3. CASE i <= n
      <4>1. i \in 1 .. n /\ i \in 1 .. l /\ i < k
        BY <1>8, <3>1, <3>3
      <4> QED
        BY <1>1, <1>7, <3>2, <4>1 DEF Sorted
    <3>4. CASE i = n + 1
      BY <1>7, <1>10, <3>1, <3>2, <3>4
    <3>5. CASE i > n + 1
      <4>1. PICK h \in n + 1 .. l : i = h + 1
        BY <1>8, <3>1, <3>5
      <4>2. r[i] = list[h] /\ h \in 1 .. l /\ h < k
        BY <1>7, <1>8, <3>1, <4>1
      <4> QED
        BY <1>1, <3>2, <4>2 DEF Sorted
    <3> QED
      BY <1>8, <3>3, <3>4, <3>5
  <2>4. i \in Int /\ j \in Int /\ n \in Int
    BY <1>8
  <2> QED
    BY <2>1, <2>2, <2>3, <2>4
<1>12. ToSet(r) = ToSet(list) \cup {o}
  <2>1. ASSUME NEW e \in ToSet(r) PROVE e \in ToSet(list) \cup {o}
    <3>1. PICK i \in 1 .. l + 1 : r[i] = e
      <4>1. \E i \in 1 .. Len(r) : r[i] = e
        BY <1>7, <2>1, OptionFacts
      <4> QED
        BY <1>7, <4>1
    <3>2. CASE i <= n
      <4>1. i \in 1 .. n /\ i \in 1 .. l
        BY <1>8, <3>2
      <4>2. list[i] = e
        BY <1>7, <3>1, <4>1
      <4>3. e \in ToSet(list)
        BY <1>1, <4>1, <4>2, OptionFacts
      <4> QED
        BY <4>3
    <3>3. CASE i = n + 1
      BY <1>7, <3>1, <3>3
    <3>4. CASE i > n + 1
      <4>1. PICK k \in n + 1 .. l : i = k + 1 /\ k \in 1 .. l
        BY <1>8, <3>4
      <4> QED
        BY <1>1, <1>7, <3>1, <4>1, OptionFacts
    <3> QED
      BY <1>8, <3>2, <3>3, <3>4
  <2>2. o \in ToSet(r)
    <3>1. n + 1 \in 1 .. l + 1
      BY <1>8
    <3> QED
      BY <1>7, <3>1, OptionFacts
  <2>3. ASSUME NEW e \in ToSet(list) PROVE e \in ToSet(r)
    <3>1. PICK i \in 1 .. l : list[i] = e
      BY <1>1, OptionFacts
    <3>2. CASE i <= n
      <4>1. i \in 1 .. n /\ i \in 1 .. l + 1
        BY <1>8, <3>2
      <4> QED
        BY <1>7, <3>1, <4>1, OptionFacts
    <3>3. CASE i > n
      <4>1. i \in n + 1 .. l /\ i + 1 \in 1 .. l + 1
        BY <1>8, <3>3
      <4> QED
        BY <1>7, <3>1, <4>1, OptionFacts
    <3> QED
      BY <1>8, <3>2, <3>3
  <2> QED
    BY <2>1, <2>2, <2>3
<1> QED
  BY <1>1, <1>7, <1>11, <1>12

(* What Carries says of one option. *)
LEMMA CarriedFacts ==
  ASSUME NEW list \in Seq(Option), NEW options, Carries(options, list)
  PROVE  /\ Len(options) = Len(list) /\ Len(list) \in Nat
         /\ \A n \in 1 .. Len(list) : /\ options[n] \in Encoded
                                      /\ CodedAs(options[n], list, n)
         /\ \A n \in 0 .. Len(list) : KeyAt(list, n) \in Nat
<1>1. Len(options) = Len(list) /\ Len(list) \in Nat /\ options \in Seq(Encoded)
  BY OptionFacts DEF Carries
<1>2. \A n \in 1 .. Len(list) : options[n] \in Encoded
  BY <1>1, LenProperties
<1>3. \A n \in 0 .. Len(list) : KeyAt(list, n) \in Nat
  BY <1>1, OptionFacts DEF KeyAt
<1> QED
  BY <1>1, <1>2, <1>3 DEF Carries

IsNumber(f, options) ==
  f = [n \in 0 .. Len(options) |-> IF n = 0 THEN 0 ELSE f[n - 1] + coap_opt_delta(options[n])]

(* Adding up the deltas gives the numbers of the options. *)
LEMMA NumberIs ==
  ASSUME NEW list \in Seq(Option), NEW options, Carries(options, list),
         NEW f, f = CHOOSE g : IsNumber(g, options)
  PROVE  \A n \in 0 .. Len(list) : f[n] = KeyAt(list, n)
<1>1. PICK l \in Nat : l = Len(list) /\ l = Len(options)
  BY CarriedFacts
<1>2. /\ \A n \in 0 .. l : KeyAt(list, n) \in Nat
      /\ \A n \in 1 .. l : coap_opt_delta(options[n]) = KeyAt(list, n) - KeyAt(list, n - 1)
      /\ KeyAt(list, 0) = 0
  BY <1>1, CarriedFacts DEF CodedAs, KeyAt
<1>3. IsNumber(f, options)
  <2>1. PICK g : g = [n \in 0 .. l |-> KeyAt(list, n)]
    OBVIOUS
  <2>2. ASSUME NEW n \in 0 .. l
        PROVE  g[n] = IF n = 0 THEN 0 ELSE g[n - 1] + coap_opt_delta(options[n])
    <3>1. CASE n = 0
      BY <1>2, <2>1, <3>1
    <3>2. CASE n # 0
      <4>1. n \in 1 .. l /\ n - 1 \in 0 .. l
        BY <3>2
      <4>2. g[n] = KeyAt(list, n) /\ g[n - 1] = KeyAt(list, n - 1)
        BY <2>1, <4>1
      <4>3. KeyAt(list, n) \in Nat /\ KeyAt(list, n - 1) \in Nat
        BY <1>2, <4>1
      <4> QED
        BY <1>2, <3>2, <4>1, <4>2, <4>3
    <3> QED
      BY <3>1, <3>2
  <2>3. PICK v : v = [n \in 0 .. l |-> IF n = 0 THEN 0 ELSE g[n - 1] + coap_opt_delta(options[n])]
    OBVIOUS
  <2>4. g = v
    BY <2>1, <2>2, <2>3
  <2>5. IsNumber(g, options)
    BY <1>1, <2>3, <2>4, Zenon DEF IsNumber
  <2> QED
    BY <2>5, Zenon
<1>4. f[0] = 0 /\ \A n \in 1 .. l : f[n] = f[n - 1] + coap_opt_delta(options[n])
  <2>1. PICK v : v = [n \in 0 .. l |-> IF n = 0 THEN 0 ELSE f[n - 1] + coap_opt_delta(options[n])]
    OBVIOUS
  <2>2. f = v
    BY <1>1, <1>3, <2>1, Zenon DEF IsNumber
  <2>3. v[0] = 0 /\ \A n \in 1 .. l : v[n] = f[n - 1] + coap_opt_delta(options[n])
    BY <2>1
  <2> QED
    BY <2>2, <2>3
<1> DEFINE T == {n \in Nat : n <= l => f[n] = KeyAt(list, n)}
<1>5. 0 \in T
  BY <1>2, <1>4
<1>6. ASSUME NEW n \in Nat, n \in T PROVE n + 1 \in T
  <2>1. SUFFICES ASSUME n + 1 <= l PROVE f[n + 1] = KeyAt(list, n + 1)
    OBVIOUS
  <2>2. PICK m \in 1 .. l : m = n + 1 /\ m - 1 = n /\ n \in 0 .. l /\ m \in 0 .. l
    BY <2>1
  <2>3. f[n] = KeyAt(list, n)
    BY <1>6, <2>2
  <2>4. f[m] = f[m - 1] + (KeyAt(list, m) - KeyAt(list, m - 1))
    BY <1>2, <1>4
  <2>5. KeyAt(list, n) \in Nat /\ KeyAt(list, m) \in Nat
    BY <1>2, <2>2
  <2> QED
    BY <2>2, <2>3, <2>4, <2>5
<1> HIDE DEF T
<1>7. Nat \subseteq T
  BY <1>5, <1>6, SetInduction
<1> QED
  BY <1>1, <1>7 DEF T

IsType(f, p, it) ==
  f = [k \in it.at .. Len(p.options) |->
         IF k = it.at THEN it.type ELSE Short(f[k - 1] + coap_opt_delta(p.options[k]))]

(* An iterator that stands at an option counts the numbers behind it right. *)
LEMMA TypeIs ==
  ASSUME NEW list \in Seq(Option), NEW p, Carries(p.options, list),
         NarrowList(list),
         NEW it, it.at \in 0 .. Len(list), it.type = KeyAt(list, it.at),
         NEW n \in it.at .. Len(list)
  PROVE  TypeAt(p, it, n) = KeyAt(list, n)
<1>1. PICK l \in Nat : l = Len(list) /\ l = Len(p.options)
  BY CarriedFacts
<1>2. PICK a \in 0 .. l : a = it.at
  BY <1>1
<1>3. PICK f : f = CHOOSE g : IsType(g, p, it)
  OBVIOUS
<1>4. /\ \A k \in 0 .. l : KeyAt(list, k) \in Nat /\ Short(KeyAt(list, k)) = KeyAt(list, k)
      /\ \A k \in 1 .. l : coap_opt_delta(p.options[k]) = KeyAt(list, k) - KeyAt(list, k - 1)
  <2>1. /\ \A k \in 0 .. l : KeyAt(list, k) \in Nat
        /\ \A k \in 1 .. l : coap_opt_delta(p.options[k]) = KeyAt(list, k) - KeyAt(list, k - 1)
    BY <1>1, CarriedFacts DEF CodedAs
  <2>2. ASSUME NEW k \in 0 .. l PROVE Short(KeyAt(list, k)) = KeyAt(list, k)
    <3>1. PICK x \in Nat : x = KeyAt(list, k)
      BY <2>1
    <3>2. x < 256
      <4>1. k = 0 \/ k \in 1 .. Len(list)
        BY <1>1
      <4> QED
        BY <3>1, <4>1, SMT DEF KeyAt, NarrowList
    <3>3. Short(x) = x
      BY <3>2, SMT DEF Short, USHRT_MAX
    <3> QED
      BY <3>1, <3>3, Zenon
  <2> QED
    BY <2>1, <2>2, Zenon
<1>5. IsType(f, p, it)
  <2>1. PICK g : g = [k \in a .. l |-> KeyAt(list, k)]
    OBVIOUS
  <2>2. ASSUME NEW k \in a .. l
        PROVE  g[k] = IF k = a THEN it.type ELSE Short(g[k - 1] + coap_opt_delta(p.options[k]))
    <3>1. CASE k = a
      <4>1. g[k] = it.type
        BY <1>2, <2>1, <3>1
      <4> QED
        BY <3>1, <4>1, Zenon
    <3>2. CASE k # a
      <4>1. k \in 1 .. l /\ k \in 0 .. l /\ k - 1 \in 0 .. l /\ k - 1 \in a .. l
        BY <1>2, <3>2
      <4>2. g[k] = KeyAt(list, k) /\ g[k - 1] = KeyAt(list, k - 1)
        BY <2>1, <4>1
      <4>3. PICK x \in Nat, y \in Nat : x = KeyAt(list, k - 1) /\ y = KeyAt(list, k)
        BY <1>4, <4>1
      <4>4. coap_opt_delta(p.options[k]) = y - x
        BY <1>4, <4>1, <4>3
      <4>5. x + (y - x) = y
        OBVIOUS
      <4>6. g[k - 1] + coap_opt_delta(p.options[k]) = y
        BY <4>2, <4>3, <4>4, <4>5
      <4>7. Short(y) = y
        BY <1>4, <4>1, <4>3, Zenon
      <4> QED
        BY <3>2, <4>2, <4>3, <4>6, <4>7, Zenon
    <3> QED
      BY <3>1, <3>2
  <2>3. PICK v : v = [k \in a .. l |-> IF k = a THEN it.type
                                       ELSE Short(g[k - 1] + coap_opt_delta(p.options[k]))]
    OBVIOUS
  <2>4. g = v
    <3>1. \A k \in a .. l : g[k] = v[k]
      BY <2>2, <2>3, Zenon
    <3>2. v = [k \in a .. l |-> v[k]]
      BY <2>3, Zenon
    <3> QED
      BY <2>1, <3>1, <3>2
  <2>5. IsType(g, p, it)
    BY <1>1, <1>2, <2>3, <2>4, Zenon DEF IsType
  <2> QED
    BY <1>3, <2>5, Zenon
<1>6. /\ f[a] = it.type
      /\ \A k \in a + 1 .. l : f[k] = Short(f[k - 1] + coap_opt_delta(p.options[k]))
  <2>1. PICK v : v = [k \in a .. l |-> IF k = a THEN it.type
                                       ELSE Short(f[k - 1] + coap_opt_delta(p.options[k]))]
    OBVIOUS
  <2>2. f = v
    BY <1>1, <1>2, <1>5, <2>1, Zenon DEF IsType
  <2>3. a \in a .. l /\ v[a] = it.type
    <3>1. a \in a .. l
      BY <1>2
    <3> QED
      BY <2>1, <3>1, Zenon
  <2>4. ASSUME NEW k \in a + 1 .. l
        PROVE  v[k] = Short(f[k - 1] + coap_opt_delta(p.options[k]))
    <3>1. k \in a .. l /\ k # a
      BY <1>2
    <3> QED
      BY <2>1, <3>1, Zenon
  <2> QED
    BY <2>2, <2>3, <2>4, Zenon
<1> DEFINE T == {m \in Nat : a + m <= l => f[a + m] = KeyAt(list, a + m)}
<1>7. 0 \in T
  <2>1. a + 0 = a
    BY <1>2
  <2> QED
    BY <1>2, <1>6, <2>1
<1>8. ASSUME NEW m \in Nat, m \in T PROVE m + 1 \in T
  <2>1. SUFFICES ASSUME a + (m + 1) <= l PROVE f[a + (m + 1)] = KeyAt(list, a + (m + 1))
    OBVIOUS
  <2>2. PICK k \in a + 1 .. l : /\ k = a + (m + 1) /\ k - 1 = a + m
                                /\ k \in 1 .. l /\ k \in 0 .. l /\ k - 1 \in 0 .. l
    <3>1. PICK k \in Nat : k = a + (m + 1)
      BY <1>2
    <3>2. k - 1 = a + m /\ a + 1 <= k /\ k <= l /\ a \in Nat /\ l \in Nat
      BY <1>2, <2>1, <3>1
    <3> QED
      BY <3>1, <3>2
  <2>3. f[k - 1] = KeyAt(list, k - 1)
    BY <1>8, <2>2
  <2>4. PICK x \in Nat, y \in Nat : x = KeyAt(list, k - 1) /\ y = KeyAt(list, k)
    BY <1>4, <2>2
  <2>5. coap_opt_delta(p.options[k]) = y - x
    BY <1>4, <2>2, <2>4
  <2>6. x + (y - x) = y
    OBVIOUS
  <2>7. f[k] = Short(y)
    <3>1. f[k - 1] + coap_opt_delta(p.options[k]) = y
      BY <2>3, <2>4, <2>5, <2>6
    <3> QED
      BY <1>6, <2>2, <3>1, Zenon
  <2>8. Short(y) = y
    BY <1>4, <2>2, <2>4, Zenon
  <2> QED
    BY <2>2, <2>4, <2>7, <2>8, Zenon
<1> HIDE DEF T
<1>9. Nat \subseteq T
  BY <1>7, <1>8, SetInduction
<1>10. f[n] = KeyAt(list, n)
  <2>1. PICK m \in Nat : m = n - a /\ a + m = n /\ n <= l
    BY <1>1, <1>2
  <2>2. m \in T
    BY <1>9
  <2> QED
    BY <2>1, <2>2 DEF T
<1>11. TypeAt(p, it, n) = f[n]
  BY <1>3, Zenon DEF TypeAt, IsType
<1> QED
  BY <1>10, <1>11

-----------------------------------------------------------------------------
(* The options of a request have the numbers the gateway uses and lengths   *)
(* that fit.                                                                *)
Requested(o) == o \in Option /\ o.key <= 23 /\ o.length <= 255

(* p carries the first n options of list, behind a token of length t. *)
Filled(p, t, list, n) ==
  /\ p \in [length : Nat, max_delta : Nat, options : Seq(Encoded)]
  /\ Len(p.options) = n
  /\ \A i \in 1 .. n : CodedAs(p.options[i], list, i)
  /\ p.max_delta = KeyAt(list, n)
  /\ p.length <= HeaderSize + t + n * (5 + 255)

(* The encoded option says what it should, and how long it is. *)
LEMMA HeaderValue ==
  ASSUME NEW d \in Nat, d <= 23, NEW o, Requested(o), NEW e, e = coap_opt_setheader(d, o)
  PROVE  /\ e \in Encoded /\ coap_opt_delta(e) = d /\ coap_opt_length(e) = o.length
         /\ e.nth = o.nth /\ coap_opt_size(e) \in Nat /\ coap_opt_size(e) <= 5 + 255
<1>1. PICK x : x = Nibble(d)
  OBVIOUS
<1>2. PICK n \in Nat : n = o.length /\ n <= 255
  BY SMT DEF Requested, Option
<1>3. PICK y : y = Nibble(n)
  OBVIOUS
<1>4. x \in Coded /\ Value(x) = d /\ ExtSize(x) \in 0 .. 2
  <2>1. d <= 268
    BY SMT
  <2> QED
    BY <1>1, <2>1, NibbleValue
<1>5. y \in Coded /\ Value(y) = n /\ ExtSize(y) \in 0 .. 2
  <2>1. n <= 268
    BY <1>2, SMT
  <2> QED
    BY <1>3, <2>1, NibbleValue
<1>6. e = [delta |-> x, length |-> y, nth |-> o.nth] /\ o.nth \in Nat
  BY <1>1, <1>2, <1>3 DEF coap_opt_setheader, Requested, Option
<1>7. e.delta = x /\ e.length = y /\ e.nth = o.nth /\ e \in Encoded
  BY <1>4, <1>5, <1>6 DEF Encoded
<1>8. coap_opt_delta(e) = d /\ coap_opt_length(e) = n
  BY <1>4, <1>5, <1>7 DEF coap_opt_delta, coap_opt_length
<1>9. coap_opt_size(e) = 1 + ExtSize(x) + ExtSize(y) + n
  BY <1>7, <1>8 DEF coap_opt_size
<1>10. coap_opt_size(e) \in Nat /\ coap_opt_size(e) <= 5 + 255
  BY <1>2, <1>4, <1>5, <1>9, SMT
<1> QED
  BY <1>2, <1>7, <1>8, <1>10

(* coap_add_option: there is room for the next option of a sorted list. *)
LEMMA AddOption ==
  ASSUME NEW t \in TokenLengths, NEW list \in Seq(Option), Sorted(list), Len(list) <= ListMax,
         NEW n \in 1 .. Len(list), Requested(list[n]), NEW p, Filled(p, t, list, n - 1),
         NEW u, u = coap_add_option(p, list[n])
  PROVE  Filled(u, t, list, n)
<1>1. PICK o : o = list[n]
  OBVIOUS
<1>2. PICK l \in Nat : l = Len(list) /\ n \in Nat /\ 1 <= n /\ n <= l
  BY OptionFacts
<1>3. PICK c : c = p.options
  OBVIOUS
<1>4. /\ p \in [length : Nat, max_delta : Nat, options : Seq(Encoded)]
      /\ c \in Seq(Encoded) /\ Len(c) = n - 1
      /\ \A i \in 1 .. n - 1 : CodedAs(c[i], list, i)
  BY <1>3 DEF Filled
<1>5. PICK m \in Nat : m = p.max_delta /\ m = KeyAt(list, n - 1)
  BY <1>4 DEF Filled
<1>6. o.key \in Nat /\ m <= o.key /\ o.key <= 23 /\ KeyAt(list, n) = o.key
  <2>1. o.key \in Nat /\ o.key <= 23
    BY <1>1, SMT DEF Requested, Option
  <2>2. KeyAt(list, n) = o.key
    BY <1>1, <1>2 DEF KeyAt
  <2>3. CASE n = 1
    BY <1>5, <2>1, <2>2, <2>3 DEF KeyAt
  <2>4. CASE n # 1
    <3>1. n - 1 \in 1 .. Len(list) /\ n - 1 < n /\ n - 1 # 0
      BY <1>2, <2>4
    <3>2. Before(list[n - 1], o)
      BY <1>1, <3>1 DEF Sorted
    <3>3. m = list[n - 1].key
      BY <1>5, <3>1 DEF KeyAt
    <3>4. m <= o.key
      BY <2>1, <3>2, <3>3 DEF Before
    <3> QED
      BY <2>1, <2>2, <3>4
  <2> QED
    BY <2>3, <2>4
<1>7. PICK d \in Nat : d = o.key - m /\ d <= 23
  BY <1>6, SMT
<1>8. PICK e : e = coap_opt_setheader(d, o)
  OBVIOUS
<1>9. PICK z \in Nat : z = coap_opt_size(e) /\ z <= 5 + 255
  BY <1>1, <1>7, <1>8, HeaderValue
<1>10. e \in Encoded /\ CodedAs(e, list, n)
  <2>1. /\ e \in Encoded /\ coap_opt_delta(e) = d /\ coap_opt_length(e) = o.length
        /\ e.nth = o.nth
    BY <1>1, <1>7, <1>8, HeaderValue
  <2> QED
    BY <1>1, <1>5, <1>6, <1>7, <2>1 DEF CodedAs
<1>11. PICK h \in Nat : h = p.length /\ h <= HeaderSize + t + (n - 1) * (5 + 255)
  BY <1>4 DEF Filled
<1>12. h + z <= MaxSize /\ h + z <= HeaderSize + t + n * (5 + 255) /\ MaxSize \in Nat
  <2>1. /\ t \in Nat /\ ListMax \in Nat /\ MaxSize \in Nat
        /\ HeaderSize + t + ListMax * (5 + 255) <= MaxSize
    BY PduAssumption, SMT
  <2>2. n <= ListMax
    BY <1>2, <2>1
  <2>3. n * (5 + 255) <= ListMax * (5 + 255) /\ n * (5 + 255) = (n - 1) * (5 + 255) + (5 + 255)
    BY <1>2, <2>1, <2>2, SMT
  <2> QED
    BY <1>2, <1>9, <1>11, <2>1, <2>3, SMT DEF HeaderSize
<1>13. coap_opt_encode(MaxSize - p.length, o.key - p.max_delta, o) = <<e>>
  <2>1. ~(z > MaxSize - h)
    BY <1>12
  <2>2. coap_opt_encode(MaxSize - h, d, o) = <<e>>
    BY <1>8, <1>9, <2>1 DEF coap_opt_encode
  <2> QED
    BY <1>5, <1>7, <1>11, <2>2
<1>14. PICK b : b = <<e>>
  OBVIOUS
<1>15. b # <<>> /\ b[1] = e /\ b \in Seq(Encoded) /\ Len(b) = 1
  BY <1>10, <1>14
<1>16. u = [p EXCEPT !.length = p.length + coap_opt_size(b[1]),
                     !.max_delta = o.key, !.options = p.options \o b]
  <2>1. ~(o.key < p.max_delta \/ b = <<>>)
    BY <1>5, <1>6, <1>15
  <2> QED
    BY <1>1, <1>13, <1>14, <2>1 DEF coap_add_option
<1>17. PICK q : q = c \o b
  OBVIOUS
<1>18. /\ q \in Seq(Encoded) /\ Len(q) = n
       /\ \A i \in 1 .. n - 1 : q[i] = c[i]
       /\ q[n] = e
  <2>1. /\ q \in Seq(Encoded) /\ Len(q) = Len(c) + Len(b)
        /\ \A i \in 1 .. Len(c) + Len(b) : q[i] = IF i <= Len(c) THEN c[i] ELSE b[i - Len(c)]
    BY <1>4, <1>15, <1>17, ConcatProperties
  <2>2. Len(c) + Len(b) = n
    BY <1>2, <1>4, <1>15
  <2>3. ASSUME NEW i \in 1 .. n - 1 PROVE q[i] = c[i]
    <3>1. i \in 1 .. Len(c) + Len(b) /\ i <= Len(c)
      BY <1>2, <1>4, <2>2
    <3> QED
      BY <2>1, <3>1
  <2>4. n \in 1 .. Len(c) + Len(b) /\ ~(n <= Len(c)) /\ n - Len(c) = 1
    BY <1>2, <1>4, <2>2
  <2>5. q[n] = b[1]
    BY <2>1, <2>4
  <2> QED
    BY <1>15, <2>1, <2>2, <2>3, <2>5
<1>19. /\ u.length = h + z /\ u.max_delta = o.key /\ u.options = q
       /\ u \in [length : Nat, max_delta : Nat, options : Seq(Encoded)]
  <2>1. u = [p EXCEPT !.length = h + z, !.max_delta = o.key, !.options = q]
    BY <1>3, <1>9, <1>11, <1>15, <1>16, <1>17, Zenon
  <2>2. h + z \in Nat
    BY <1>9, <1>11
  <2> QED
    BY <1>4, <1>6, <1>18, <2>1, <2>2
<1>20. \A i \in 1 .. n : CodedAs(q[i], list, i)
  <2> TAKE i \in 1 .. n
  <2>1. CASE i = n
    BY <1>10, <1>18, <2>1
  <2>2. CASE i # n
    <3>1. i \in 1 .. n - 1
      BY <1>2, <2>2
    <3> QED
      BY <1>4, <1>18, <3>1
  <2> QED
    BY <2>1, <2>2
<1> QED
  BY <1>6, <1>12, <1>18, <1>19, <1>20 DEF Filled

IsRequest(f, t, list) ==
  f = [n \in 0 .. Len(list) |-> IF n = 0 THEN coap_add_token(coap_new_pdu, t)
                                ELSE coap_add_option(f[n - 1], list[n])]

FillsTo(f, t, list, l) ==
  /\ f[0] = coap_add_token(coap_new_pdu, t)
  /\ \A n \in 1 .. l : f[n] = coap_add_option(f[n - 1], list[n])

(* The recursive definition of coap_new_request names a function. *)
LEMMA RequestExists ==
  ASSUME NEW t, NEW list, NEW l \in Nat, l = Len(list)
  PROVE  \E f : IsRequest(f, t, list)
<1> DEFINE T == {k \in Nat : \E f : FillsTo(f, t, list, k)}
<1>1. PICK z : z = coap_add_token(coap_new_pdu, t)
  OBVIOUS
<1>2. 0 \in T
  <2>1. FillsTo([k \in 0 .. 0 |-> z], t, list, 0)
    BY <1>1 DEF FillsTo
  <2> QED
    BY <2>1
<1>3. ASSUME NEW k \in Nat, k \in T PROVE k + 1 \in T
  <2>1. PICK f : FillsTo(f, t, list, k)
    BY <1>3
  <2>2. PICK e : e = coap_add_option(f[k], list[k + 1])
    OBVIOUS
  <2>3. PICK h : h = [j \in 0 .. k + 1 |-> IF j = k + 1 THEN e ELSE f[j]]
    OBVIOUS
  <2>4. h[0] = z
    <3>1. h[0] = f[0]
      BY <2>3
    <3> QED
      BY <1>1, <2>1, <3>1 DEF FillsTo
  <2>5. ASSUME NEW j \in 1 .. k + 1 PROVE h[j] = coap_add_option(h[j - 1], list[j])
    <3>1. h[j - 1] = f[j - 1]
      BY <2>3
    <3>2. CASE j = k + 1
      <4>1. j - 1 = k /\ h[j] = e
        BY <2>3, <3>2
      <4> QED
        BY <2>2, <3>1, <3>2, <4>1
    <3>3. CASE j # k + 1
      <4>1. j \in 1 .. k /\ h[j] = f[j]
        BY <2>3, <3>3
      <4> QED
        BY <2>1, <3>1, <4>1 DEF FillsTo
    <3> QED
      BY <3>2, <3>3
  <2>6. FillsTo(h, t, list, k + 1)
    BY <1>1, <2>4, <2>5 DEF FillsTo
  <2> QED
    BY <2>6
<1> HIDE DEF T
<1>4. PICK g : FillsTo(g, t, list, l)
  <2>1. l \in T
    BY <1>2, <1>3, SetInduction
  <2> QED
    BY <2>1 DEF T
<1>5. PICK f : f = [k \in 0 .. l |-> g[k]]
  OBVIOUS
<1>6. ASSUME NEW k \in 0 .. l
      PROVE  f[k] = IF k = 0 THEN z ELSE coap_add_option(f[k - 1], list[k])
  <2>1. CASE k = 0
    BY <1>1, <1>4, <1>5, <2>1 DEF FillsTo
  <2>2. CASE k # 0
    <3>1. k \in 1 .. l /\ k - 1 \in 0 .. l
      BY <2>2
    <3>2. f[k] = g[k] /\ f[k - 1] = g[k - 1]
      BY <1>5, <3>1
    <3> QED
      BY <1>4, <2>2, <3>1, <3>2 DEF FillsTo
  <2> QED
    BY <2>1, <2>2
<1>7. PICK v : v = [k \in 0 .. l |-> IF k = 0 THEN z ELSE coap_add_option(f[k - 1], list[k])]
  OBVIOUS
<1>8. f = v
  <2>1. \A k \in 0 .. l : f[k] = v[k]
    BY <1>6, <1>7, Zenon
  <2>2. v = [k \in 0 .. l |-> v[k]] /\ f = [k \in 0 .. l |-> f[k]]
    BY <1>5, <1>7
  <2> QED
    BY <2>1, <2>2
<1>9. IsRequest(f, t, list)
  BY <1>1, <1>7, <1>8, Zenon DEF IsRequest
<1> QED
  BY <1>9

(* coap_new_request: no option of a sorted list is dropped. *)
LEMMA RequestCarries ==
  ASSUME NEW t \in TokenLengths, NEW list \in Seq(Option), Sorted(list), Len(list) <= ListMax,
         \A n \in 1 .. Len(list) : Requested(list[n]),
         NEW p, p = coap_new_request(t, list)
  PROVE  Carries(p.options, list)
<1>1. PICK l \in Nat : l = Len(list)
  BY OptionFacts
<1>2. PICK f : f = CHOOSE g : IsRequest(g, t, list)
  OBVIOUS
<1>3. IsRequest(f, t, list)
  BY <1>1, <1>2, RequestExists, Zenon
<1>4. PICK z : z = coap_add_token(coap_new_pdu, t)
  OBVIOUS
<1>5. f[0] = z /\ \A n \in 1 .. l : f[n] = coap_add_option(f[n - 1], list[n])
  <2>1. PICK v : v = [k \in 0 .. l |-> IF k = 0 THEN z ELSE coap_add_option(f[k - 1], list[k])]
    OBVIOUS
  <2>2. f = v
    BY <1>1, <1>3, <1>4, <2>1, Zenon DEF IsRequest
  <2>3. v[0] = z /\ \A n \in 1 .. l : v[n] = coap_add_option(f[n - 1], list[n])
    BY <2>1
  <2> QED
    BY <2>2, <2>3, Zenon
<1> DEFINE T == {n \in Nat : n <= l => Filled(f[n], t, list, n)}
<1>6. 0 \in T
  <2>1. t \in Nat
    BY PduAssumption, SMT
  <2>2. z = [length |-> HeaderSize + t, max_delta |-> 0, options |-> <<>>]
    BY <1>4 DEF coap_add_token, coap_new_pdu
  <2>3. z \in [length : Nat, max_delta : Nat, options : Seq(Encoded)]
    BY <2>1, <2>2 DEF HeaderSize
  <2>4. Filled(z, t, list, 0)
    BY <2>1, <2>2, <2>3, SMT DEF Filled, KeyAt, HeaderSize
  <2> QED
    BY <1>5, <2>4
<1>7. ASSUME NEW n \in Nat, n \in T PROVE n + 1 \in T
  <2>1. SUFFICES ASSUME n + 1 <= l PROVE Filled(f[n + 1], t, list, n + 1)
    OBVIOUS
  <2>2. PICK m \in 1 .. Len(list) : m = n + 1 /\ m - 1 = n /\ n <= l
    BY <1>1, <2>1
  <2>3. Filled(f[m - 1], t, list, m - 1)
    BY <1>7, <2>2
  <2>4. f[m] = coap_add_option(f[m - 1], list[m])
    BY <1>1, <1>5
  <2>5. PICK p0 : p0 = f[m - 1]
    OBVIOUS
  <2>6. PICK u : u = f[m]
    OBVIOUS
  <2>7. Filled(u, t, list, m)
    BY <2>3, <2>4, <2>5, <2>6, AddOption
  <2> QED
    BY <2>2, <2>6, <2>7
<1> HIDE DEF T
<1>8. Filled(f[l], t, list, l)
  <2>1. l \in T
    BY <1>6, <1>7, SetInduction
  <2> QED
    BY <2>1 DEF T
<1>9. p = f[l]
  BY <1>1, <1>2, Zenon DEF coap_new_request, IsRequest
<1> QED
  BY <1>1, <1>8, <1>9 DEF Filled, Carries

-----------------------------------------------------------------------------
(* What Sorts says of the two sequences. *)
LEMMA SortedFacts ==
  ASSUME NEW list, NEW s, Sorts(list, s)
  PROVE  /\ list \in Seq(Option) /\ s \in Seq(Option)
         /\ Len(list) \in Nat /\ Len(s) = Len(list)
         /\ \A i \in 1 .. Len(list) : /\ list[i].key \in Nat
                                      /\ list[i].nth \in 1 .. Len(list) /\ s[list[i].nth] = list[i]
         /\ \A i, j \in 1 .. Len(list) : i < j <=> Before(list[i], list[j])
         /\ \A i, j \in 1 .. Len(list) : i <= j => list[i].key <= list[j].key
<1>1. list \in Seq(Option) /\ s \in Seq(Option) /\ Len(s) = Len(list)
  BY DEF Sorts
<1>2. PICK l \in Nat : l = Len(list)
  BY <1>1, OptionFacts
<1>3. \A i \in 1 .. l : list[i].key \in Nat /\ list[i].nth \in Nat
  BY <1>1, <1>2, OptionFacts
<1>4. ASSUME NEW i \in 1 .. l PROVE list[i].nth \in 1 .. l /\ s[list[i].nth] = list[i]
  <2>1. list[i] \in ToSet(s)
    <3>1. list[i] \in ToSet(list)
      BY <1>1, <1>2, OptionFacts
    <3> QED
      BY <3>1 DEF Sorts
  <2>2. PICK k \in 1 .. Len(s) : s[k] = list[i]
    BY <1>1, <2>1, OptionFacts
  <2>3. s[k].nth = k
    BY <2>2 DEF Sorts, Named
  <2> QED
    BY <1>1, <1>2, <2>2, <2>3
<1>5. ASSUME NEW i \in 1 .. l, NEW j \in 1 .. l, i < j PROVE Before(list[i], list[j])
  BY <1>2, <1>5 DEF Sorts, Sorted
<1>6. ASSUME NEW i \in 1 .. l, NEW j \in 1 .. l, Before(list[i], list[j]) PROVE i < j
  <2>1. CASE i = j
    BY <1>3, <1>6, <2>1 DEF Before
  <2>2. CASE j < i
    <3>1. Before(list[j], list[i])
      BY <1>5, <2>2
    <3>2. PICK a \in Nat, b \in Nat, c \in Nat, d \in Nat :
            a = list[i].key /\ b = list[j].key /\ c = list[i].nth /\ d = list[j].nth
      BY <1>3
    <3> QED
      BY <1>6, <3>1, <3>2 DEF Before
  <2> QED
    BY <2>1, <2>2
<1>7. ASSUME NEW i \in 1 .. l, NEW j \in 1 .. l, i <= j PROVE list[i].key <= list[j].key
  <2>1. CASE i = j
    BY <1>3, <2>1
  <2>2. CASE i < j
    BY <1>3, <1>5, <2>2 DEF Before
  <2> QED
    BY <1>7, <2>1, <2>2
<1> QED
  BY <1>1, <1>2, <1>3, <1>4, <1>5, <1>6, <1>7

(* What a reader decodes is the list. *)
LEMMA DecodedIs ==
  ASSUME NEW list \in Seq(Option), NEW p, Carries(p.options, list)
  PROVE  Decoded(p) = list
<1>1. PICK l \in Nat : l = Len(list) /\ l = Len(p.options)
  BY CarriedFacts
<1>2. PICK f : f = CHOOSE g : IsNumber(g, p.options)
  OBVIOUS
<1>3. \A n \in 1 .. l : f[n] = list[n].key
  <2>1. \A n \in 0 .. l : f[n] = KeyAt(list, n)
    BY <1>1, <1>2, NumberIs
  <2> QED
    BY <2>1 DEF KeyAt
<1>4. PICK d : d = [n \in 1 .. l |-> [key |-> f[n], length |-> coap_opt_length(p.options[n]),
                                      nth |-> p.options[n].nth]]
  OBVIOUS
<1>5. Decoded(p) = d
  BY <1>1, <1>2, <1>4, Zenon DEF Decoded, IsNumber
<1>6. ASSUME NEW n \in 1 .. l PROVE d[n] = list[n]
  <2>1. d[n] = [key |-> f[n], length |-> coap_opt_length(p.options[n]), nth |-> p.options[n].nth]
    BY <1>4
  <2>2. coap_opt_length(p.options[n]) = list[n].length /\ p.options[n].nth = list[n].nth
    BY <1>1, CarriedFacts DEF CodedAs
  <2>3. list[n] \in Option
    BY <1>1, OptionFacts
  <2> QED
    BY <1>3, <2>1, <2>2, <2>3 DEF Option
<1>7. list = [n \in 1 .. l |-> list[n]] /\ d = [n \in 1 .. l |-> d[n]]
  BY <1>1, <1>4, LenProperties
<1> QED
  BY <1>5, <1>6, <1>7

(* The options of a received PDU, as Receive makes them of their types. *)
FromPeer(options, s, d, ts, n) ==
  /\ \A i \in 1 .. n : ts[i] <= USHRT_MAX
  /\ \A i, j \in 1 .. n : i < j => ts[i] <= ts[j]
  /\ \A i \in 1 .. n : d[i] = IF i = 1 THEN ts[1] ELSE ts[i] - ts[i - 1]
  /\ options = [i \in 1 .. n |-> [delta |-> PeerNibble(d[i]), length |-> PeerNibble(0), nth |-> i]]
  /\ s = [i \in 1 .. n |-> [key |-> ts[i], length |-> 0, nth |-> i]]

(* A PDU a peer built: its options by increasing number. *)
LEMMA ReceivedCarries ==
  ASSUME NEW n \in Nat, NEW ts \in [1 .. n -> Nat], NEW d, NEW options, NEW s,
         FromPeer(options, s, d, ts, n)
  PROVE  Sorts(s, s) /\ Carries(options, s)
<1> USE DEF FromPeer
<1>1. s \in Seq(Option) /\ Len(s) = n
  BY DEF Option
<1>2. \A i \in 1 .. n : s[i].key = ts[i] /\ s[i].length = 0 /\ s[i].nth = i
  OBVIOUS
<1>3. Sorts(s, s)
  <2>1. Sorted(s)
    <3> SUFFICES ASSUME NEW i \in 1 .. n, NEW j \in 1 .. n, i < j PROVE Before(s[i], s[j])
      BY <1>1 DEF Sorted
    <3>1. ts[i] \in Nat /\ ts[j] \in Nat /\ ts[i] <= ts[j]
      OBVIOUS
    <3> QED
      BY <1>2, <3>1 DEF Before
  <2> QED
    BY <1>1, <1>2, <2>1 DEF Sorts, Named
<1>4. ASSUME NEW i \in 1 .. n
      PROVE  options[i] \in Encoded /\ CodedAs(options[i], s, i)
  <2>0. d[i] \in Nat /\ d[i] = KeyAt(s, i) - KeyAt(s, i - 1) /\ d[i] <= USHRT_MAX
    <3>1. CASE i = 1
      <4>1. d[i] = ts[1] /\ ts[1] \in Nat /\ ts[1] <= USHRT_MAX
        BY <3>1
      <4>2. KeyAt(s, i) = ts[1] /\ KeyAt(s, i - 1) = 0
        BY <1>2, <3>1 DEF KeyAt
      <4> QED
        BY <4>1, <4>2
    <3>2. CASE i # 1
      <4>1. PICK j \in 1 .. n : j = i - 1 /\ j < i
        BY <3>2
      <4>2. PICK a \in Nat, b \in Nat : a = ts[i] /\ b = ts[j] /\ b <= a /\ a <= USHRT_MAX
        BY <4>1
      <4>3. d[i] = a - b /\ KeyAt(s, i) = a /\ KeyAt(s, i - 1) = b
        <5>1. d[i] = ts[i] - ts[i - 1]
          BY <3>2
        <5>2. KeyAt(s, i) = s[i].key /\ KeyAt(s, i - 1) = s[j].key
          BY <4>1 DEF KeyAt
        <5> QED
          BY <1>2, <4>1, <4>2, <5>1, <5>2
      <4>4. USHRT_MAX \in Nat
        BY SMT DEF USHRT_MAX
      <4> QED
        BY <4>2, <4>3, <4>4
    <3> QED
      BY <3>1, <3>2, Zenon
  <2>1. PICK v \in Nat : v = d[i] /\ v = KeyAt(s, i) - KeyAt(s, i - 1) /\ v <= USHRT_MAX
    BY <2>0
  <2>2. PICK x : x = PeerNibble(v)
    OBVIOUS
  <2>3. PICK y : y = PeerNibble(0)
    OBVIOUS
  <2>4. x \in Coded /\ Value(x) = v
    BY <2>1, <2>2, PeerValue, SMT
  <2>5. y \in Coded /\ Value(y) = 0
    <3>1. 0 \in Nat /\ 0 <= USHRT_MAX
      BY SMT DEF USHRT_MAX
    <3> QED
      BY <2>3, <3>1, PeerValue, SMT
  <2>6. options[i] = [delta |-> x, length |-> y, nth |-> i]
    <3>1. options[i] = [delta |-> PeerNibble(d[i]), length |-> PeerNibble(0), nth |-> i]
      OBVIOUS
    <3> QED
      BY <2>1, <2>2, <2>3, <3>1, Zenon
  <2>7. options[i] \in Encoded /\ options[i].delta = x /\ options[i].length = y /\ options[i].nth = i
    BY <2>4, <2>5, <2>6 DEF Encoded
  <2> QED
    BY <1>2, <2>1, <2>4, <2>5, <2>7 DEF CodedAs, coap_opt_delta, coap_opt_length
<1>5. options \in Seq(Encoded) /\ Len(options) = n
  <2>1. PICK o : o = [i \in 1 .. n |-> options[i]]
    OBVIOUS
  <2>2. options = o
    BY <2>1
  <2>3. o \in [1 .. n -> Encoded]
    BY <1>4, <2>1
  <2>4. o \in Seq(Encoded) /\ Len(o) = n
    BY <2>1, <2>3
  <2> QED
    BY <2>2, <2>4
<1>6. Carries(options, s)
  BY <1>1, <1>4, <1>5 DEF Carries
<1> QED
  BY <1>3, <1>6

-----------------------------------------------------------------------------
(* The options a walk is to return. *)
Wants(it, o) == it.filter = ALL \/ o.key \in it.filter

(* The bits a filter can hold. *)
Holds(filter) == filter = ALL \/ \A t \in filter : t \in Nat /\ t < 64

(* The iterator stands behind an option of list and knows its number. *)
Standing(it, list) ==
  /\ it = [at |-> it.at, type |-> it.type, bad |-> it.bad, filter |-> it.filter]
  /\ it.at \in 0 .. Len(list)
  /\ it.type = KeyAt(list, it.at)
  /\ Holds(it.filter)

(* given names the wanted options in front of the iterator, which are at    *)
(* the places pos of list.                                                 *)
Marks(pos, list, it, given) ==
  /\ pos \in Seq(Nat) /\ given \in Seq(Nat) /\ Len(pos) = Len(given)
  /\ \A k \in 1 .. Len(pos) : /\ pos[k] \in 1 .. it.at
                              /\ given[k] = list[pos[k]].nth
                              /\ Wants(it, list[pos[k]])
  /\ \A j, k \in 1 .. Len(pos) : j < k => pos[j] < pos[k]
  /\ \A n \in 1 .. it.at : Wants(it, list[n]) => \E k \in 1 .. Len(pos) : pos[k] = n
  /\ it.bad => \A n \in it.at + 1 .. Len(list) : ~Wants(it, list[n])

(* The bit of a small number is the number itself, and a filter holds it if *)
(* it is below 64 (bits.h).                                                 *)
LEMMA SmallBits ==
  ASSUME NEW x \in Nat, x < 256
  PROVE  Bit(x) = x /\ (Fits(x) <=> x < 64)
<1>1. Bit(x) = x
  BY SMT DEF Bit
<1>2. x \div 8 < 8 <=> x < 64
  BY SMT
<1> QED
  BY <1>1, <1>2, SMT DEF Fits, FilterSize, COAP_MAX_OPT

(* coap_option_setb drops what the filter cannot hold. *)
LEMMA FilterHolds ==
  ASSUME NEW types \in Filters
  PROVE  Holds(FilterOf(types))
<1> SUFFICES ASSUME NEW t \in FilterOf(types) PROVE t \in Nat /\ t < 64
  BY DEF Holds
<1>1. PICK u \in types : Fits(u) /\ t = Bit(u)
  BY DEF FilterOf
<1>2. u \in Nat /\ u < 256
  BY PduAssumption, SMT
<1> QED
  BY <1>1, <1>2, SmallBits

(* A walk begins in front of the first option. *)
LEMMA WalkBegins ==
  ASSUME NEW list \in Seq(Option), NEW p, Carries(p.options, list),
         NEW filter, Holds(filter), NEW it, it = coap_option_iterator_init(p, filter)
  PROVE  Standing(it, list) /\ Marks(<<>>, list, it, <<>>)
<1>1. PICK l \in Nat : l = Len(list) /\ l = Len(p.options)
  BY CarriedFacts
<1>2. /\ it = [at |-> 0, type |-> 0, bad |-> it.bad, filter |-> filter]
      /\ it.at = 0 /\ it.type = 0 /\ it.filter = filter /\ it.bad = (p.options = <<>>)
  BY DEF coap_option_iterator_init
<1>3. Standing(it, list)
  BY <1>1, <1>2 DEF Standing, KeyAt
<1>4. it.bad => l = 0
  BY <1>1, <1>2
<1>5. Marks(<<>>, list, it, <<>>)
  <2>1. <<>> \in Seq(Nat) /\ Len(<<>>) = 0
    OBVIOUS
  <2>2. it.at = 0
    BY <1>2
  <2>3. \A k \in 1 .. 0 : FALSE
    OBVIOUS
  <2>4. it.bad => \A n \in it.at + 1 .. Len(list) : FALSE
    BY <1>1, <1>4, <2>2
  <2> QED
    BY <2>1, <2>2, <2>3, <2>4 DEF Marks
<1> QED
  BY <1>3, <1>5

(* What the filter does to the option at n. *)
LEMMA PassesWanted ==
  ASSUME NEW list, NEW s, Sorts(list, s), NarrowList(list), NEW p, Carries(p.options, list),
         NEW it, Standing(it, list), NEW n \in it.at + 1 .. Len(list)
  PROVE  /\ TypeAt(p, it, n) = list[n].key
         /\ Passes(it, TypeAt(p, it, n)) <=> Wants(it, list[n])
         /\ GivesUp(it, TypeAt(p, it, n)) <=> it.filter # ALL /\ list[n].key >= 64
<1>1. PICK l \in Nat : l = Len(list) /\ list \in Seq(Option)
  BY SortedFacts
<1>2. it.at \in 0 .. l /\ n \in 1 .. l /\ n \in it.at .. l
  BY <1>1 DEF Standing
<1>3. PICK x \in Nat : x = list[n].key /\ x < 256
  BY <1>1, <1>2, OptionFacts, SMT DEF NarrowList
<1>4. TypeAt(p, it, n) = x
  <2>1. TypeAt(p, it, n) = KeyAt(list, n)
    BY <1>1, <1>2, TypeIs DEF Standing
  <2> QED
    BY <1>2, <1>3, <2>1 DEF KeyAt
<1>5. Bit(x) = x /\ (Fits(x) <=> x < 64)
  BY <1>3, SmallBits
<1>6. x \in it.filter /\ it.filter # ALL => x < 64
  BY DEF Standing, Holds
<1>7. Passes(it, x) <=> Wants(it, list[n])
  <2>1. Passes(it, x) <=> it.filter = ALL \/ (x < 64 /\ x \in it.filter)
    BY <1>5 DEF Passes
  <2>2. Wants(it, list[n]) <=> it.filter = ALL \/ x \in it.filter
    BY <1>3 DEF Wants
  <2> QED
    BY <1>6, <2>1, <2>2, Zenon
<1>8. GivesUp(it, x) <=> it.filter # ALL /\ x >= 64
  BY <1>3, <1>5 DEF GivesUp
<1> QED
  BY <1>3, <1>4, <1>7, <1>8, Zenon

(* The iterator gives up behind all it could want, for options are sorted. *)
LEMMA HitsAre ==
  ASSUME NEW list, NEW s, Sorts(list, s), NarrowList(list), NEW p, Carries(p.options, list),
         NEW it, Standing(it, list), NEW n
  PROVE  n \in Hits(p, it) <=> n \in it.at + 1 .. Len(list) /\ Wants(it, list[n])
<1>1. PICK l \in Nat : l = Len(list) /\ l = Len(p.options) /\ list \in Seq(Option)
  BY SortedFacts, CarriedFacts
<1>2. n \in Hits(p, it) <=>
        /\ n \in it.at + 1 .. l
        /\ Passes(it, TypeAt(p, it, n))
        /\ \A m \in it.at + 1 .. n - 1 : ~GivesUp(it, TypeAt(p, it, m))
  BY <1>1 DEF Hits
<1>3. ASSUME n \in it.at + 1 .. l, Wants(it, list[n]), NEW m \in it.at + 1 .. n - 1
      PROVE  ~GivesUp(it, TypeAt(p, it, m))
  <2>1. it.at \in 0 .. l /\ m \in it.at + 1 .. l /\ m \in 1 .. l /\ n \in 1 .. l /\ m <= n
    BY <1>1, <1>3 DEF Standing
  <2>2. SUFFICES ASSUME GivesUp(it, TypeAt(p, it, m)) PROVE FALSE
    OBVIOUS
  <2>3. it.filter # ALL /\ list[m].key >= 64
    BY <1>1, <2>1, <2>2, PassesWanted
  <2>4. list[n].key \in it.filter
    BY <1>3, <2>3 DEF Wants
  <2>5. list[n].key < 64
    BY <2>3, <2>4 DEF Standing, Holds
  <2>6. list[m].key <= list[n].key /\ list[m].key \in Nat /\ list[n].key \in Nat
    BY <1>1, <2>1, SortedFacts
  <2> QED
    BY <2>3, <2>5, <2>6, SMT
<1>4. n \in it.at + 1 .. l => (Passes(it, TypeAt(p, it, n)) <=> Wants(it, list[n]))
  BY <1>1, PassesWanted
<1> QED
  BY <1>1, <1>2, <1>3, <1>4, Zenon

(* coap_option_next returns the option at n: w and r are what it makes of   *)
(* the iterator and of what was returned.                                   *)
Taken(w, r, p, it, given, n) ==
  /\ ~it.bad /\ n \in Hits(p, it) /\ \A m \in Hits(p, it) : n <= m
  /\ w = [it EXCEPT !.at = n, !.type = TypeAt(p, it, n)]
  /\ r = Append(given, p.options[n].nth)

(* coap_option_next, when it returns the option at n. *)
LEMMA WalkAdvances ==
  ASSUME NEW list, NEW s, Sorts(list, s), NarrowList(list), NEW p, Carries(p.options, list),
         NEW it, Standing(it, list), NEW pos, NEW given, Marks(pos, list, it, given),
         NEW n, NEW w, NEW r, Taken(w, r, p, it, given, n)
  PROVE  Standing(w, list) /\ Marks(Append(pos, n), list, w, r)
<1> USE DEF Taken
<1>1. PICK l \in Nat : l = Len(list) /\ l = Len(p.options) /\ list \in Seq(Option)
  BY SortedFacts, CarriedFacts
<1>2. PICK a \in 0 .. l : a = it.at
  BY <1>1 DEF Standing
<1>3. n \in a + 1 .. l /\ n \in 1 .. l /\ n \in Nat /\ Wants(it, list[n])
  <2>1. n \in it.at + 1 .. Len(list) /\ Wants(it, list[n])
    BY HitsAre
  <2>2. n \in a + 1 .. l
    BY <1>1, <1>2, <2>1
  <2>3. n \in 1 .. l /\ n \in Nat
    BY <1>2, <2>2
  <2> QED
    BY <2>1, <2>2, <2>3
<1>4. ASSUME NEW m \in a + 1 .. n - 1 PROVE ~Wants(it, list[m])
  <2>1. m \in a + 1 .. l /\ ~(n <= m)
    BY <1>2, <1>3
  <2>2. m \notin Hits(p, it)
    BY <2>1
  <2> QED
    BY <1>1, <1>2, <2>1, <2>2, HitsAre
<1>5. /\ w = [at |-> n, type |-> list[n].key, bad |-> it.bad, filter |-> it.filter]
      /\ w.at = n /\ w.type = list[n].key /\ w.bad = it.bad /\ w.filter = it.filter
  <2> HIDE DEF Taken
  <2>1. TypeAt(p, it, n) = list[n].key
    <3>1. n \in it.at + 1 .. Len(list)
      BY <1>1, <1>2, <1>3
    <3> QED
      BY <3>1, PassesWanted
  <2>2. it = [at |-> it.at, type |-> it.type, bad |-> it.bad, filter |-> it.filter]
    BY DEF Standing
  <2>3. w = [it EXCEPT !.at = n, !.type = list[n].key]
    BY <2>1 DEF Taken
  <2>4. w = [at |-> n, type |-> list[n].key, bad |-> it.bad, filter |-> it.filter]
    BY <2>2, <2>3
  <2> QED
    BY <2>4
<1>6. Standing(w, list)
  <2>1. KeyAt(list, n) = list[n].key
    BY <1>3 DEF KeyAt
  <2>2. Holds(w.filter)
    BY <1>5 DEF Standing
  <2>3. w = [at |-> w.at, type |-> w.type, bad |-> w.bad, filter |-> w.filter]
    BY <1>5
  <2>4. w.at \in 0 .. Len(list) /\ w.type = KeyAt(list, w.at)
    BY <1>1, <1>3, <1>5, <2>1
  <2> QED
    BY <2>2, <2>3, <2>4, Zenon DEF Standing
<1>7. \A o : Wants(w, o) <=> Wants(it, o)
  BY <1>5 DEF Wants
<1>8. PICK h \in Nat : h = Len(pos) /\ h = Len(given)
  BY LenProperties DEF Marks
<1>9. pos \in Seq(Nat) /\ given \in Seq(Nat)
  BY DEF Marks
<1>10. PICK x \in Nat : x = p.options[n].nth /\ x = list[n].nth
  <2>1. CodedAs(p.options[n], list, n)
    BY <1>1, <1>3, CarriedFacts
  <2> QED
    BY <1>1, <1>3, <2>1, OptionFacts DEF CodedAs
<1>11. PICK q : q = Append(pos, n)
  OBVIOUS
<1>12. /\ q \in Seq(Nat) /\ Len(q) = h + 1 /\ q[h + 1] = n
       /\ \A k \in 1 .. h : q[k] = pos[k]
  <2>1. /\ Append(pos, n) \in Seq(Nat) /\ Len(Append(pos, n)) = Len(pos) + 1
        /\ \A i \in 1 .. Len(pos) : Append(pos, n)[i] = pos[i]
        /\ Append(pos, n)[Len(pos) + 1] = n
    BY <1>3, <1>9, AppendProperties
  <2> QED
    BY <1>8, <1>11, <2>1
<1>13. /\ r \in Seq(Nat) /\ Len(r) = h + 1 /\ r[h + 1] = x
       /\ \A k \in 1 .. h : r[k] = given[k]
  BY <1>8, <1>9, <1>10, AppendProperties
<1>14. \A k \in 1 .. h : /\ pos[k] \in 1 .. a /\ given[k] = list[pos[k]].nth
                         /\ Wants(it, list[pos[k]])
  BY <1>2, <1>8 DEF Marks
<1>15. ASSUME NEW k \in 1 .. h + 1
       PROVE  q[k] \in 1 .. n /\ r[k] = list[q[k]].nth /\ Wants(w, list[q[k]])
  <2>1. CASE k = h + 1
    BY <1>3, <1>7, <1>10, <1>12, <1>13, <2>1
  <2>2. CASE k # h + 1
    <3>1. k \in 1 .. h
      BY <2>2
    <3>2. PICK y \in 1 .. a : y = pos[k] /\ y \in 1 .. n
      BY <1>3, <1>14, <3>1
    <3>3. given[k] = list[y].nth /\ Wants(it, list[y])
      BY <1>14, <3>1, <3>2
    <3> QED
      BY <1>7, <1>12, <1>13, <3>1, <3>2, <3>3
  <2> QED
    BY <2>1, <2>2
<1>16. ASSUME NEW j \in 1 .. h + 1, NEW k \in 1 .. h + 1, j < k
       PROVE  q[j] < q[k]
  <2>1. j \in 1 .. h /\ q[j] = pos[j] /\ pos[j] \in 1 .. a
    BY <1>12, <1>14, <1>16
  <2>2. CASE k = h + 1
    BY <1>3, <1>12, <2>1, <2>2
  <2>3. CASE k # h + 1
    <3>1. k \in 1 .. h
      BY <2>3
    <3>2. pos[j] < pos[k]
      BY <1>8, <1>16, <2>1, <3>1 DEF Marks
    <3> QED
      BY <1>12, <2>1, <3>1, <3>2
  <2> QED
    BY <2>2, <2>3
<1>17. ASSUME NEW m \in 1 .. n, Wants(w, list[m])
       PROVE  \E k \in 1 .. h + 1 : q[k] = m
  <2>1. CASE m = n
    <3>1. h + 1 \in 1 .. h + 1
      OBVIOUS
    <3> QED
      BY <1>12, <2>1, <3>1
  <2>2. CASE m # n /\ m <= a
    <3>1. m \in 1 .. it.at /\ Wants(it, list[m])
      BY <1>2, <1>7, <1>17, <2>2
    <3>2. PICK k \in 1 .. h : pos[k] = m
      BY <1>8, <3>1 DEF Marks
    <3> QED
      BY <1>12, <3>2
  <2>3. CASE m # n /\ m > a
    <3>1. m \in a + 1 .. n - 1
      BY <1>2, <1>3, <2>3
    <3> QED
      BY <1>4, <1>7, <1>17, <3>1
  <2>4. m \in Int /\ a \in Int
    BY <1>2
  <2> QED
    BY <2>1, <2>2, <2>3, <2>4
<1>18. Marks(q, list, w, r)
  <2>1. ~w.bad
    BY <1>5
  <2>2. Len(q) = h + 1 /\ w.at = n /\ q \in Seq(Nat) /\ r \in Seq(Nat) /\ Len(q) = Len(r)
    BY <1>5, <1>12, <1>13
  <2>3. \A k \in 1 .. Len(q) : q[k] \in 1 .. w.at /\ r[k] = list[q[k]].nth /\ Wants(w, list[q[k]])
    BY <1>15, <2>2
  <2>4. \A j, k \in 1 .. Len(q) : j < k => q[j] < q[k]
    BY <1>16, <2>2
  <2>5. \A m \in 1 .. w.at : Wants(w, list[m]) => \E k \in 1 .. Len(q) : q[k] = m
    BY <1>17, <2>2
  <2> QED
    BY <2>1, <2>2, <2>3, <2>4, <2>5, Zenon DEF Marks
<1> QED
  BY <1>6, <1>11, <1>18

(* coap_option_next, when nothing is left to return. *)
LEMMA WalkEndsRight ==
  ASSUME NEW list, NEW s, Sorts(list, s), NarrowList(list), NEW p, Carries(p.options, list),
         NEW it, Standing(it, list), NEW pos, NEW given, Marks(pos, list, it, given),
         Hits(p, it) = {}, NEW w, w = [it EXCEPT !.bad = TRUE]
  PROVE  Standing(w, list) /\ Marks(pos, list, w, given)
<1>1. /\ w = [at |-> it.at, type |-> it.type, bad |-> TRUE, filter |-> it.filter]
      /\ w.at = it.at /\ w.type = it.type /\ w.filter = it.filter
  <2>1. it = [at |-> it.at, type |-> it.type, bad |-> it.bad, filter |-> it.filter]
    BY DEF Standing
  <2> QED
    BY <2>1
<1>2. Standing(w, list)
  BY <1>1 DEF Standing
<1>3. \A o : Wants(w, o) <=> Wants(it, o)
  BY <1>1 DEF Wants
<1>4. \A n \in w.at + 1 .. Len(list) : ~Wants(w, list[n])
  <2> TAKE n \in w.at + 1 .. Len(list)
  <2>1. n \in it.at + 1 .. Len(list) /\ n \notin Hits(p, it)
    BY <1>1
  <2>2. ~Wants(it, list[n])
    BY <2>1, HitsAre
  <2> QED
    BY <1>3, <2>2
<1>5. /\ pos \in Seq(Nat) /\ given \in Seq(Nat) /\ Len(pos) = Len(given)
      /\ \A k \in 1 .. Len(pos) : /\ pos[k] \in 1 .. w.at
                                  /\ given[k] = list[pos[k]].nth
                                  /\ Wants(w, list[pos[k]])
      /\ \A j, k \in 1 .. Len(pos) : j < k => pos[j] < pos[k]
      /\ \A n \in 1 .. w.at : Wants(w, list[n]) => \E k \in 1 .. Len(pos) : pos[k] = n
  BY <1>1, <1>3, Zenon DEF Marks
<1>6. Marks(pos, list, w, given)
  BY <1>4, <1>5, Zenon DEF Marks
<1> QED
  BY <1>2, <1>6

-----------------------------------------------------------------------------
(* pdu shows the options of list, and the walk over it is where it seems.   *)
Shows(list) ==
  /\ Sorts(list, sent) /\ Carries(pdu.options, list)
  /\ NarrowList(list) =>
       Standing(oi, list) /\ \E pos : Marks(pos, list, oi, returned)

(* The option list holds what was inserted, sorted.                         *)
Building ==
  /\ Sorts(optlist, inserted) /\ Len(inserted) <= ListMax
  /\ \A i \in 1 .. Len(inserted) : Requested(inserted[i])

ShownInv == Building /\ \E list : Shows(list)

(* What the gateway inserts. *)
LEMMA OptionsRequested ==
  ASSUME NEW k \in OptionKeys, NEW l \in Lengths(k), NEW n \in Nat
  PROVE  Requested([key |-> k, length |-> l, nth |-> n])
<1>1. k \in Nat /\ k <= 23
  BY DEF OptionKeys
<1>2. l \in HostLengths \cup PathLengths \cup BlockLengths
  BY DEF Lengths
<1>3. l \in Nat /\ l <= 255
  BY <1>2, PduAssumption, SMT
<1> QED
  BY <1>1, <1>3, SMT DEF Requested, Option

(* An empty list and a PDU without options. *)
LEMMA EmptyShown ==
  /\ Sorts(<<>>, <<>>) /\ Carries(NoPdu.options, <<>>) /\ Holds(ALL)
<1>1. <<>> \in Seq(Option) /\ Len(<<>>) = 0 /\ <<>> \in Seq(Encoded)
  OBVIOUS
<1>2. NoPdu.options = <<>>
  BY DEF NoPdu, coap_new_pdu
<1>3. \A i \in 1 .. 0 : FALSE
  OBVIOUS
<1> QED
  BY <1>1, <1>2, <1>3 DEF Sorts, Sorted, Named, Carries, Holds

(* A PDU that was just built or received, and the walk that begins over it. *)
LEMMA FreshShown ==
  ASSUME NEW list, Sorts(list, sent'), Carries(pdu'.options, list),
         NEW filter, Holds(filter), oi' = coap_option_iterator_init(pdu', filter),
         returned' = <<>>
  PROVE  Shows(list)'
<1>1. list \in Seq(Option)
  BY DEF Sorts
<1>2. PICK p : p = pdu'
  OBVIOUS
<1>3. PICK it : it = oi'
  OBVIOUS
<1>4. Standing(it, list) /\ Marks(<<>>, list, it, <<>>)
  BY <1>1, <1>2, <1>3, WalkBegins
<1>5. Standing(oi', list) /\ \E pos : Marks(pos, list, oi', returned')
  BY <1>3, <1>4
<1> QED
  BY <1>5 DEF Shows

(* The empty list and the message without options satisfy the invariant. *)
LEMMA InvInit == PduInit => ShownInv
<1> SUFFICES ASSUME PduInit PROVE ShownInv
  OBVIOUS
<1> USE DEF PduInit
<1>1. Building
  <2>1. Len(inserted) = 0 /\ ListMax \in Nat
    BY PduAssumption, SMT
  <2>2. \A i \in 1 .. Len(inserted) : FALSE
    BY <2>1
  <2> QED
    BY <2>1, <2>2, EmptyShown DEF Building
<1>2. Shows(<<>>)
  <2>1. PICK e : e = <<>>
    OBVIOUS
  <2>2. e \in Seq(Option) /\ Carries(pdu.options, e)
    BY <2>1, EmptyShown DEF Sorts
  <2>3. Standing(oi, e) /\ Marks(<<>>, e, oi, <<>>)
    BY <2>2, EmptyShown, WalkBegins
  <2> QED
    BY <2>1, <2>2, <2>3, EmptyShown DEF Shows
<1> QED
  BY <1>1, <1>2 DEF ShownInv

(* new_option_node and coap_insert. *)
LEMMA InvInsert ==
  ASSUME ShownInv, Insert
  PROVE  ShownInv'
<1>1. PICK list : Shows(list)
  BY DEF ShownInv
<1>2. Shows(list)'
  BY <1>1 DEF Insert, Shows
<1>3. PICK m \in Nat : m = Len(inserted) /\ m = Len(optlist) /\ m + 1 <= ListMax
  <2>1. Sorts(optlist, inserted)
    BY DEF ShownInv, Building
  <2>2. Len(optlist) \in Nat /\ Len(inserted) = Len(optlist)
    BY <2>1, SortedFacts
  <2>3. Len(inserted) < ListMax /\ ListMax \in Nat
    BY PduAssumption, SMT DEF Insert
  <2> QED
    BY <2>2, <2>3
<1>4. PICK o : /\ o.nth = m + 1 /\ Requested(o)
               /\ optlist' = coap_insert(optlist, o) /\ inserted' = Append(inserted, o)
  <2>0. PICK k \in OptionKeys : \E l \in Lengths(k) :
          LET o == [key |-> k, length |-> l, nth |-> Len(inserted) + 1]
          IN  optlist' = coap_insert(optlist, o) /\ inserted' = Append(inserted, o)
    BY DEF Insert
  <2>1. PICK l \in Lengths(k) :
          LET o == [key |-> k, length |-> l, nth |-> Len(inserted) + 1]
          IN  optlist' = coap_insert(optlist, o) /\ inserted' = Append(inserted, o)
    BY <2>0
  <2>2. PICK o : o = [key |-> k, length |-> l, nth |-> m + 1]
    OBVIOUS
  <2>3. Requested(o)
    BY <1>3, <2>2, OptionsRequested
  <2>4. o.nth = m + 1
    BY <2>2
  <2>5. optlist' = coap_insert(optlist, o) /\ inserted' = Append(inserted, o)
    BY <1>3, <2>1, <2>2
  <2> QED
    BY <2>3, <2>4, <2>5
<1>5. o \in Option
  BY <1>4 DEF Requested
<1>6. /\ optlist \in Seq(Option) /\ inserted \in Seq(Option) /\ Sorted(optlist)
      /\ ToSet(optlist) = ToSet(inserted) /\ Named(inserted)
      /\ \A i \in 1 .. m : optlist[i].nth \in 1 .. m
  <2>1. Sorts(optlist, inserted)
    BY DEF ShownInv, Building
  <2> QED
    BY <1>3, <2>1, SortedFacts DEF Sorts
<1>7. \A i \in 1 .. Len(optlist) : optlist[i].nth < o.nth
  BY <1>3, <1>4, <1>6
<1>8. PICK r : r = coap_insert(optlist, o)
  OBVIOUS
<1>9. /\ r \in Seq(Option) /\ Len(r) = m + 1
      /\ ToSet(r) = ToSet(optlist) \cup {o} /\ Sorted(r)
  BY <1>3, <1>5, <1>6, <1>7, <1>8, InsertSorts
<1>10. PICK a : a = Append(inserted, o)
  OBVIOUS
<1>11. /\ a \in Seq(Option) /\ Len(a) = m + 1
       /\ \A i \in 1 .. m : a[i] = inserted[i]
       /\ a[m + 1] = o
  <2>1. /\ Append(inserted, o) \in Seq(Option) /\ Len(Append(inserted, o)) = Len(inserted) + 1
        /\ \A i \in 1 .. Len(inserted) : Append(inserted, o)[i] = inserted[i]
        /\ Append(inserted, o)[Len(inserted) + 1] = o
    BY <1>5, <1>6, AppendProperties
  <2> QED
    BY <1>3, <1>10, <2>1
<1>12. ToSet(a) = ToSet(inserted) \cup {o}
  BY <1>5, <1>6, <1>10, AppendSet
<1>13. \A i \in 1 .. m + 1 : a[i].nth = i /\ Requested(a[i])
  <2> TAKE i \in 1 .. m + 1
  <2>1. CASE i = m + 1
    BY <1>4, <1>11, <2>1
  <2>2. CASE i # m + 1
    <3>1. i \in 1 .. m
      BY <2>2
    <3>2. inserted[i].nth = i /\ Requested(inserted[i])
      BY <1>3, <1>6, <3>1 DEF Named, ShownInv, Building
    <3> QED
      BY <1>11, <3>1, <3>2
  <2> QED
    BY <2>1, <2>2
<1>14. Sorts(r, a)
  BY <1>6, <1>9, <1>11, <1>12, <1>13 DEF Sorts, Named
<1>15. optlist' = r /\ inserted' = a
  BY <1>4, <1>8, <1>10
<1>16. Building'
  <2>1. \A i \in 1 .. Len(a) : Requested(a[i])
    BY <1>11, <1>13
  <2> QED
    BY <1>3, <1>11, <1>14, <1>15, <2>1 DEF Building
<1> QED
  BY <1>2, <1>16 DEF ShownInv

(* The request is built. *)
LEMMA InvNewRequest ==
  ASSUME ShownInv, NewRequest
  PROVE  ShownInv'
<1>1. Building'
  <2>1. optlist' = <<>> /\ inserted' = <<>>
    BY DEF NewRequest
  <2>2. Len(inserted') = 0 /\ ListMax \in Nat
    BY <2>1, PduAssumption, SMT
  <2>3. \A i \in 1 .. Len(inserted') : FALSE
    BY <2>2
  <2>4. Sorts(optlist', inserted')
    BY <2>1, EmptyShown
  <2> QED
    BY <2>2, <2>3, <2>4 DEF Building
<1>2. PICK t \in TokenLengths : pdu' = coap_new_request(t, optlist)
  BY DEF NewRequest
<1>3. PICK list : list = optlist
  OBVIOUS
<1>4. PICK p : p = pdu'
  OBVIOUS
<1>5. Sorts(list, inserted) /\ Len(list) <= ListMax
  <2>1. Sorts(list, inserted) /\ Len(inserted) <= ListMax
    BY <1>3 DEF ShownInv, Building
  <2> QED
    BY <2>1 DEF Sorts
<1>6. \A i \in 1 .. Len(list) : Requested(list[i])
  <2> TAKE i \in 1 .. Len(list)
  <2>1. PICK k : k = list[i].nth
    OBVIOUS
  <2>2. k \in 1 .. Len(inserted) /\ inserted[k] = list[i]
    BY <1>5, <2>1, SortedFacts
  <2>3. Requested(inserted[k])
    BY <2>2 DEF ShownInv, Building
  <2> QED
    BY <2>2, <2>3
<1>7. Carries(p.options, list)
  <2>1. list \in Seq(Option) /\ Sorted(list)
    BY <1>5 DEF Sorts
  <2> QED
    BY <1>2, <1>3, <1>4, <1>5, <1>6, <2>1, RequestCarries
<1>8. sent' = inserted /\ oi' = coap_option_iterator_init(pdu', ALL) /\ returned' = <<>>
  BY DEF NewRequest
<1>9. Shows(list)'
  BY <1>4, <1>5, <1>7, <1>8, EmptyShown, FreshShown
<1> QED
  BY <1>1, <1>9 DEF ShownInv

(* A PDU is received. *)
LEMMA InvReceive ==
  ASSUME ShownInv, Receive
  PROVE  ShownInv'
<1>1. Building'
  BY DEF ShownInv, Building, Receive
<1>0. PICK n \in 1 .. ReceivedMax : \E ts \in [1 .. n -> ReceivedTypes] :
        LET delta(i) == IF i = 1 THEN ts[1] ELSE ts[i] - ts[i - 1]
        IN  /\ \A i, j \in 1 .. n : i < j => ts[i] <= ts[j]
            /\ pdu' = [NoPdu EXCEPT !.options =
                 [i \in 1 .. n |-> [delta |-> PeerNibble(delta(i)), length |-> PeerNibble(0), nth |-> i]]]
            /\ sent' = [i \in 1 .. n |-> [key |-> ts[i], length |-> 0, nth |-> i]]
            /\ oi' = coap_option_iterator_init(pdu', ALL)
  BY DEF Receive
<1>2. PICK ts \in [1 .. n -> ReceivedTypes] :
        LET delta(i) == IF i = 1 THEN ts[1] ELSE ts[i] - ts[i - 1]
        IN  /\ \A i, j \in 1 .. n : i < j => ts[i] <= ts[j]
            /\ pdu' = [NoPdu EXCEPT !.options =
                 [i \in 1 .. n |-> [delta |-> PeerNibble(delta(i)), length |-> PeerNibble(0), nth |-> i]]]
            /\ sent' = [i \in 1 .. n |-> [key |-> ts[i], length |-> 0, nth |-> i]]
            /\ oi' = coap_option_iterator_init(pdu', ALL)
  BY <1>0
<1>3. PICK d : d = [i \in 1 .. n |-> IF i = 1 THEN ts[1] ELSE ts[i] - ts[i - 1]]
  OBVIOUS
<1>4. PICK c : c = [i \in 1 .. n |-> [delta |-> PeerNibble(d[i]), length |-> PeerNibble(0), nth |-> i]]
  OBVIOUS
<1>5. PICK s : s = [i \in 1 .. n |-> [key |-> ts[i], length |-> 0, nth |-> i]]
  OBVIOUS
<1>6. \A i \in 1 .. n : d[i] = IF i = 1 THEN ts[1] ELSE ts[i] - ts[i - 1]
  BY <1>3
<1>7. pdu' = [NoPdu EXCEPT !.options = c] /\ sent' = s
  <2>1. c = [i \in 1 .. n |-> [delta |-> PeerNibble(IF i = 1 THEN ts[1] ELSE ts[i] - ts[i - 1]),
                               length |-> PeerNibble(0), nth |-> i]]
    BY <1>4, <1>6
  <2> QED
    BY <1>2, <1>5, <2>1, Zenon
<1>8. n \in Nat /\ ts \in [1 .. n -> Nat] /\ \A i \in 1 .. n : ts[i] <= USHRT_MAX
  <2>1. n \in Nat /\ \A i \in 1 .. n : ts[i] \in ReceivedTypes
    OBVIOUS
  <2>2. \A x \in ReceivedTypes : x \in Nat /\ x <= USHRT_MAX
    BY PduAssumption, Zenon
  <2> QED
    BY <2>1, <2>2
<1>9. Sorts(s, s) /\ Carries(c, s)
  <2>1. FromPeer(c, s, d, ts, n)
    BY <1>2, <1>4, <1>5, <1>6, <1>8, Zenon DEF FromPeer
  <2> QED
    BY <1>8, <2>1, ReceivedCarries
<1>10. pdu'.options = c
  BY <1>7 DEF NoPdu, coap_new_pdu
<1>11. oi' = coap_option_iterator_init(pdu', ALL) /\ returned' = <<>>
  BY <1>2 DEF Receive
<1>12. Shows(s)'
  BY <1>7, <1>9, <1>10, <1>11, EmptyShown, FreshShown
<1> QED
  BY <1>1, <1>12 DEF ShownInv

(* A search begins. *)
LEMMA InvSearch ==
  ASSUME ShownInv, Search
  PROVE  ShownInv'
<1>1. Building'
  BY DEF ShownInv, Building, Search
<1>2. PICK list : Shows(list)
  BY DEF ShownInv
<1>3. PICK types \in Filters : oi' = coap_option_iterator_init(pdu, FilterOf(types))
  BY DEF Search
<1>4. pdu' = pdu /\ sent' = sent /\ returned' = <<>>
  BY DEF Search
<1>5. Sorts(list, sent') /\ Carries(pdu'.options, list)
  BY <1>2, <1>4 DEF Shows
<1>6. PICK filter : filter = FilterOf(types)
  OBVIOUS
<1>7. Holds(filter)
  BY <1>6, FilterHolds
<1>8. Shows(list)'
  BY <1>3, <1>4, <1>5, <1>6, <1>7, FreshShown
<1> QED
  BY <1>1, <1>8 DEF ShownInv

(* A search goes on. *)
LEMMA InvNext ==
  ASSUME ShownInv, coap_option_next
  PROVE  ShownInv'
<1>1. Building'
  BY DEF ShownInv, Building, coap_option_next
<1>2. PICK list : Shows(list)
  BY DEF ShownInv
<1>3. pdu' = pdu /\ sent' = sent /\ ~oi.bad
  BY DEF coap_option_next
<1>4. Sorts(list, sent) /\ Carries(pdu.options, list)
  BY <1>2 DEF Shows
<1>5. ASSUME NarrowList(list)
      PROVE  Standing(oi', list) /\ \E pos : Marks(pos, list, oi', returned')
  <2>1. Standing(oi, list)
    BY <1>2, <1>5 DEF Shows
  <2>2. PICK pos : Marks(pos, list, oi, returned)
    BY <1>2, <1>5 DEF Shows
  <2>3. CASE /\ Hits(pdu, oi) = {}
             /\ oi' = [oi EXCEPT !.bad = TRUE] /\ UNCHANGED returned
    <3>1. PICK w : w = [oi EXCEPT !.bad = TRUE]
      OBVIOUS
    <3>2. Standing(w, list) /\ Marks(pos, list, w, returned)
      BY <1>4, <1>5, <2>1, <2>2, <2>3, <3>1, WalkEndsRight
    <3> QED
      BY <2>3, <3>1, <3>2
  <2>4. CASE \E n \in Hits(pdu, oi) :
               /\ \A m \in Hits(pdu, oi) : n <= m
               /\ oi' = [oi EXCEPT !.at = n, !.type = TypeAt(pdu, oi, n)]
               /\ returned' = Append(returned, pdu.options[n].nth)
    <3>1. PICK n \in Hits(pdu, oi) :
               /\ \A m \in Hits(pdu, oi) : n <= m
               /\ oi' = [oi EXCEPT !.at = n, !.type = TypeAt(pdu, oi, n)]
               /\ returned' = Append(returned, pdu.options[n].nth)
      BY <2>4
    <3>2. Taken(oi', returned', pdu, oi, returned, n)
      BY <1>3, <3>1, Zenon DEF Taken
    <3>3. PICK w, r : w = oi' /\ r = returned'
      OBVIOUS
    <3>4. Taken(w, r, pdu, oi, returned, n)
      BY <3>2, <3>3
    <3>5. Standing(w, list) /\ Marks(Append(pos, n), list, w, r)
      BY <1>4, <1>5, <2>1, <2>2, <3>4, WalkAdvances
    <3> QED
      BY <3>3, <3>5
  <2> QED
    BY <2>3, <2>4 DEF coap_option_next
<1>6. Shows(list)'
  BY <1>3, <1>4, <1>5 DEF Shows
<1> QED
  BY <1>1, <1>6 DEF ShownInv

(* The PDU is dropped. *)
LEMMA InvDeletePdu ==
  ASSUME ShownInv, coap_delete_pdu
  PROVE  ShownInv'
<1>1. Building'
  BY DEF ShownInv, Building, coap_delete_pdu
<1>2. /\ pdu' = NoPdu /\ sent' = <<>>
      /\ oi' = coap_option_iterator_init(pdu', ALL) /\ returned' = <<>>
  BY DEF coap_delete_pdu
<1>3. PICK e : e = <<>>
  OBVIOUS
<1>4. Shows(e)'
  BY <1>2, <1>3, EmptyShown, FreshShown
<1> QED
  BY <1>1, <1>4 DEF ShownInv

(* ShownInv is inductive. *)
LEMMA ShownStep == ShownInv /\ [PduNext]_pduVars => ShownInv'
<1> SUFFICES ASSUME ShownInv, [PduNext]_pduVars PROVE ShownInv'
  OBVIOUS
<1>1. CASE Insert
  BY <1>1, InvInsert
<1>2. CASE NewRequest
  BY <1>2, InvNewRequest
<1>3. CASE Receive
  BY <1>3, InvReceive
<1>4. CASE Search
  BY <1>4, InvSearch
<1>5. CASE coap_option_next
  BY <1>5, InvNext
<1>6. CASE coap_delete_pdu
  BY <1>6, InvDeletePdu
<1>7. CASE UNCHANGED pduVars
  BY <1>7 DEF ShownInv, Building, Shows, pduVars
<1> QED
  BY <1>1, <1>2, <1>3, <1>4, <1>5, <1>6, <1>7 DEF PduNext

(* The filter holds what was asked for, as far as it can. *)
SearchInv ==
  /\ oi = [at |-> oi.at, type |-> oi.type, bad |-> oi.bad, filter |-> oi.filter]
  /\ \/ asked = ALL /\ oi.filter = ALL
     \/ asked \in Filters /\ oi.filter = FilterOf(asked)

(* Whatever becomes of the PDU, a search keeps its filter. *)
LEMMA SearchStep == SearchInv /\ [PduNext]_pduVars => SearchInv'
<1> SUFFICES ASSUME SearchInv, [PduNext]_pduVars PROVE SearchInv'
  OBVIOUS
<1>1. ASSUME asked' = ALL, NEW p, oi' = coap_option_iterator_init(p, ALL)
      PROVE  SearchInv'
  BY <1>1 DEF SearchInv, coap_option_iterator_init
<1>2. ASSUME asked' = asked, oi' = oi PROVE SearchInv'
  BY <1>2 DEF SearchInv
<1>3. CASE Insert \/ UNCHANGED pduVars
  BY <1>2, <1>3 DEF Insert, pduVars
<1>4. CASE NewRequest
  BY <1>1, <1>4 DEF NewRequest
<1>5. CASE Receive
  BY <1>1, <1>5 DEF Receive
<1>6. CASE Search
  <2>1. PICK types \in Filters :
          asked' = types /\ oi' = coap_option_iterator_init(pdu, FilterOf(types))
    BY <1>6 DEF Search
  <2> QED
    BY <2>1 DEF SearchInv, coap_option_iterator_init
<1>7. CASE coap_option_next
  <2>1. asked' = asked
    BY <1>7 DEF coap_option_next
  <2>2. ASSUME NEW n, NEW t, oi' = [oi EXCEPT !.at = n, !.type = t] PROVE SearchInv'
    BY <2>1, <2>2 DEF SearchInv
  <2>3. ASSUME oi' = [oi EXCEPT !.bad = TRUE] PROVE SearchInv'
    BY <2>1, <2>3 DEF SearchInv
  <2> QED
    BY <1>7, <2>2, <2>3 DEF coap_option_next
<1>8. CASE coap_delete_pdu
  BY <1>1, <1>8 DEF coap_delete_pdu
<1> QED
  BY <1>3, <1>4, <1>5, <1>6, <1>7, <1>8 DEF PduNext

PduInv == ShownInv /\ SearchInv

(* PduInv holds at first, and every step keeps it. *)
LEMMA PduInvInit == PduInit => PduInv
<1>1. PduInit => SearchInv
  BY DEF PduInit, SearchInv, coap_option_iterator_init
<1> QED
  BY <1>1, InvInit DEF PduInv

LEMMA PduInvStep == PduInv /\ [PduNext]_pduVars => PduInv'
  BY ShownStep, SearchStep DEF PduInv

(* Decoding what was built gives the sorted options.                        *)
LEMMA ShownExact == ShownInv => RequestExact
<1> SUFFICES ASSUME ShownInv PROVE RequestExact
  OBVIOUS
<1>1. PICK list : Shows(list)
  BY DEF ShownInv
<1>2. Sorts(list, sent) /\ Carries(pdu.options, list)
  BY <1>1 DEF Shows
<1>3. PICK p : p = pdu
  OBVIOUS
<1>4. Decoded(p) = list
  BY <1>2, <1>3, DecodedIs DEF Sorts
<1>5. /\ Len(list) = Len(sent) /\ ToSet(list) = ToSet(sent)
      /\ \A i, j \in 1 .. Len(list) : i < j => Before(list[i], list[j])
  BY <1>2 DEF Sorts, Sorted
<1> QED
  BY <1>3, <1>4, <1>5, Zenon DEF RequestExact

(* The options are narrow if what was sent is. *)
LEMMA NarrowShown ==
  ASSUME NEW list, Sorts(list, sent), Narrow
  PROVE  NarrowList(list)
<1>1. ASSUME NEW n \in 1 .. Len(list) PROVE list[n] \in ToSet(sent)
  <2>1. list \in Seq(Option) /\ ToSet(list) = ToSet(sent)
    BY DEF Sorts
  <2> QED
    BY <2>1, OptionFacts
<1> QED
  BY <1>1, SMT DEF Narrow, NarrowList

(* The options whose bit the filter holds. *)
Passed == {o \in ToSet(sent) : oi.filter = ALL \/ o.key \in oi.filter}

(* A marked walk finds the options whose bits are set. *)
LEMMA WalkExact == ShownInv /\ Narrow => Finds(Passed)
<1> SUFFICES ASSUME ShownInv, Narrow PROVE
        LET wanted  == {o \in ToSet(sent) : oi.filter = ALL \/ o.key \in oi.filter}
            given(k) == sent[returned[k]]
        IN  /\ \A k \in 1 .. Len(returned) :
                 /\ returned[k] \in 1 .. Len(sent) /\ given(k) \in wanted
                 /\ {o \in wanted : Before(o, given(k))} = {given(j) : j \in 1 .. k - 1}
            /\ oi.bad => wanted = {given(k) : k \in 1 .. Len(returned)}
  BY Zenon DEF Finds, Passed
<1> DEFINE wanted   == {o \in ToSet(sent) : oi.filter = ALL \/ o.key \in oi.filter}
           given(k) == sent[returned[k]]
<1>1. PICK list : Shows(list)
  BY DEF ShownInv
<1>2. Sorts(list, sent) /\ Carries(pdu.options, list)
  BY <1>1 DEF Shows
<1>3. NarrowList(list)
  BY <1>2, NarrowShown
<1>4. Standing(oi, list)
  BY <1>1, <1>3 DEF Shows
<1>5. PICK pos : Marks(pos, list, oi, returned)
  BY <1>1, <1>3 DEF Shows
<1>6. PICK l \in Nat : l = Len(list) /\ l = Len(sent) /\ list \in Seq(Option)
  BY <1>2, SortedFacts
<1>7. PICK a \in 0 .. l : a = oi.at
  BY <1>4, <1>6 DEF Standing
<1>8. PICK h \in Nat : h = Len(pos) /\ h = Len(returned)
  BY <1>5, LenProperties DEF Marks
<1>9. \A o : o \in wanted <=> \E n \in 1 .. l : list[n] = o /\ Wants(oi, list[n])
  <2>1. \A o : o \in ToSet(sent) <=> \E n \in 1 .. l : list[n] = o
    BY <1>2, <1>6, OptionFacts DEF Sorts
  <2> QED
    BY <2>1 DEF Wants
<1>10. \A k \in 1 .. h : /\ pos[k] \in 1 .. a /\ pos[k] \in 1 .. l
                         /\ returned[k] \in 1 .. l /\ given(k) = list[pos[k]]
                         /\ Wants(oi, list[pos[k]])
  <2> TAKE k \in 1 .. h
  <2>1. pos[k] \in 1 .. a
    BY <1>5, <1>7, <1>8 DEF Marks
  <2>2. PICK m : m = pos[k] /\ m \in 1 .. a
    BY <2>1
  <2>3. m \in 1 .. l
    BY <2>2
  <2>4. PICK n \in 1 .. a : n = pos[k] /\ n \in 1 .. l
    BY <2>2, <2>3
  <2>5. returned[k] = list[n].nth /\ Wants(oi, list[n])
    BY <1>5, <1>8, <2>4 DEF Marks
  <2>6. list[n].nth \in 1 .. l /\ sent[list[n].nth] = list[n]
    BY <1>2, <1>6, <2>4, SortedFacts
  <2> QED
    BY <2>4, <2>5, <2>6
<1>11. \A j, k \in 1 .. h : j < k => pos[j] < pos[k]
  BY <1>5, <1>8 DEF Marks
<1>12. \A n \in 1 .. a : Wants(oi, list[n]) => \E k \in 1 .. h : pos[k] = n
  BY <1>5, <1>7, <1>8 DEF Marks
<1>13. \A i, j \in 1 .. l : i < j <=> Before(list[i], list[j])
  BY <1>2, <1>6, SortedFacts
<1> HIDE DEF wanted, given
<1>14. ASSUME NEW k \in 1 .. h
       PROVE  /\ returned[k] \in 1 .. l /\ given(k) \in wanted
              /\ {o \in wanted : Before(o, given(k))} = {given(j) : j \in 1 .. k - 1}
  <2>1. PICK n \in 1 .. a : n = pos[k] /\ n \in 1 .. l
    BY <1>10
  <2>2. given(k) = list[n] /\ returned[k] \in 1 .. l /\ given(k) \in wanted
    BY <1>9, <1>10, <2>1
  <2>3. ASSUME NEW o \in wanted, Before(o, given(k))
        PROVE  \E j \in 1 .. k - 1 : o = given(j)
    <3>1. PICK m \in 1 .. l : list[m] = o /\ Wants(oi, list[m])
      BY <1>9, <2>3
    <3>2. m < n
      BY <1>13, <2>1, <2>2, <2>3, <3>1
    <3>3. m \in 1 .. a
      BY <2>1, <3>2
    <3>4. PICK j \in 1 .. h : pos[j] = m
      BY <1>12, <3>1, <3>3
    <3>5. j < k
      <4>1. CASE j = k
        BY <2>1, <3>2, <3>4, <4>1
      <4>2. CASE k < j
        <5>1. n < m
          BY <1>11, <2>1, <3>4, <4>2
        <5> QED
          BY <2>1, <3>2, <5>1
      <4> QED
        BY <4>1, <4>2
    <3>6. j \in 1 .. k - 1 /\ given(j) = o
      BY <1>10, <3>1, <3>4, <3>5
    <3> QED
      BY <3>6
  <2>4. ASSUME NEW j \in 1 .. k - 1
        PROVE  given(j) \in wanted /\ Before(given(j), given(k))
    <3>1. j \in 1 .. h /\ j < k
      OBVIOUS
    <3>2. PICK m \in 1 .. l : m = pos[j] /\ given(j) = list[m] /\ Wants(oi, list[m])
      BY <1>10, <3>1
    <3>3. m < n
      BY <1>11, <2>1, <3>1, <3>2
    <3> QED
      BY <1>9, <1>13, <2>1, <2>2, <3>2, <3>3
  <2>5. {o \in wanted : Before(o, given(k))} = {given(j) : j \in 1 .. k - 1}
    BY <2>3, <2>4, Zenon
  <2> QED
    BY <2>2, <2>5
<1>15. ASSUME oi.bad PROVE wanted = {given(k) : k \in 1 .. h}
  <2>1. ASSUME NEW o \in wanted PROVE \E k \in 1 .. h : o = given(k)
    <3>1. PICK m \in 1 .. l : list[m] = o /\ Wants(oi, list[m])
      BY <1>9, <2>1
    <3>2. m \in 1 .. a
      <4>1. \A n \in a + 1 .. l : ~Wants(oi, list[n])
        BY <1>5, <1>6, <1>7, <1>15 DEF Marks
      <4>2. m \notin a + 1 .. l
        BY <3>1, <4>1
      <4> QED
        BY <4>2
    <3>3. PICK k \in 1 .. h : pos[k] = m
      BY <1>12, <3>1, <3>2
    <3> QED
      BY <1>10, <3>1, <3>3
  <2>2. \A k \in 1 .. h : given(k) \in wanted
    BY <1>14, Zenon
  <2> QED
    BY <2>1, <2>2, Zenon
<1> QED
  BY <1>6, <1>8, <1>14, <1>15, Zenon DEF wanted, given

(* The bits that are set are those of the types asked for. *)
LEMMA SearchExactly == PduInv => FilterExact
<1> SUFFICES ASSUME PduInv, Narrow
    PROVE Finds({o \in ToSet(sent) : asked = ALL \/ (o.key \in asked /\ o.key <= COAP_MAX_OPT)})
  BY Zenon DEF FilterExact
<1> DEFINE wanted == {o \in ToSet(sent) : asked = ALL \/ (o.key \in asked /\ o.key <= COAP_MAX_OPT)}
<1>1. PICK list : Sorts(list, sent)
  BY DEF PduInv, ShownInv, Shows
<1>2. ASSUME NEW o \in ToSet(sent)
      PROVE  (oi.filter = ALL \/ o.key \in oi.filter)
                <=> (asked = ALL \/ (o.key \in asked /\ o.key <= COAP_MAX_OPT))
  <2>1. PICK x \in Nat : x = o.key /\ x < 256
    <3>1. o \in Option
      BY <1>1, OptionFacts DEF Sorts
    <3> QED
      BY <3>1, SMT DEF Option, Narrow
  <2>2. Bit(x) = x /\ (Fits(x) <=> x <= COAP_MAX_OPT)
    BY <2>1, SmallBits DEF COAP_MAX_OPT
  <2>3. CASE asked = ALL /\ oi.filter = ALL
    BY <2>3
  <2>4. CASE asked \in Filters /\ oi.filter = FilterOf(asked)
    <3>1. asked # ALL /\ oi.filter # ALL
      BY <2>4, FilterAssumption
    <3>2. ASSUME NEW t \in asked PROVE Bit(t) = t
      <4>1. t \in Nat /\ t < 256
        BY <2>4, PduAssumption, SMT
      <4> QED
        BY <4>1, SmallBits
    <3>3. x \in FilterOf(asked) <=> x \in asked /\ Fits(x)
      BY <2>2, <3>2, Zenon DEF FilterOf
    <3> QED
      BY <2>1, <2>2, <2>4, <3>1, <3>3
  <2> QED
    BY <2>3, <2>4 DEF PduInv, SearchInv
<1>3. wanted = Passed
  BY <1>2, Zenon DEF Passed
<1>4. Finds(Passed)
  BY WalkExact DEF PduInv
<1> QED
  BY <1>3, <1>4

(* The check sees each option's number, and its filter holds all it knows.  *)
LEMMA CheckExact == ShownInv => CriticalExact
<1> SUFFICES ASSUME ShownInv, Narrow PROVE
        LET r == coap_option_check_critical(pdu)
            strange == {o \in ToSet(sent) : o.key % 2 = 1 /\ o.key \notin known_options}
        IN  /\ r.ok <=> strange = {}
            /\ r.unknown = {o.key : o \in {x \in strange : x.key <= COAP_MAX_OPT}}
  BY Zenon DEF CriticalExact
<1> USE DEF COAP_MAX_OPT
<1> DEFINE strange == {o \in ToSet(sent) : o.key % 2 = 1 /\ o.key \notin known_options}
           r       == coap_option_check_critical(pdu)
           type(n) == TypeAt(pdu, coap_option_iterator_init(pdu, ALL), n)
<1>1. PICK list : Shows(list)
  BY DEF ShownInv
<1>2. Sorts(list, sent) /\ Carries(pdu.options, list)
  BY <1>1 DEF Shows
<1>3. NarrowList(list)
  BY <1>2, NarrowShown
<1>4. PICK l \in Nat : l = Len(list) /\ l = Len(pdu.options) /\ list \in Seq(Option)
  BY <1>2, SortedFacts, CarriedFacts
<1>5. PICK it : it = coap_option_iterator_init(pdu, ALL)
  OBVIOUS
<1>6. ASSUME NEW n \in 1 .. l PROVE type(n) = list[n].key
  <2>1. PICK p : p = pdu
    OBVIOUS
  <2>2. it.at = 0 /\ it.type = 0
    BY <1>5 DEF coap_option_iterator_init
  <2>3. it.at \in 0 .. Len(list) /\ it.type = KeyAt(list, it.at) /\ n \in it.at .. Len(list)
    BY <1>4, <2>2 DEF KeyAt
  <2>4. TypeAt(p, it, n) = KeyAt(list, n)
    BY <1>2, <1>3, <1>4, <2>1, <2>3, TypeIs
  <2> QED
    BY <1>5, <2>1, <2>4 DEF KeyAt
<1> DEFINE bad  == {n \in 1 .. Len(pdu.options) : type(n) % 2 = 1 /\ Unknown(type(n))}
           seen == {n \in bad : \A m \in bad : m <= n => Fits(type(m))}
<1>7. r.ok = (bad = {}) /\ r.unknown = {Bit(type(n)) : n \in seen}
  <2>1. r = [ok |-> bad = {}, unknown |-> {Bit(type(n)) : n \in seen}]
    BY Zenon DEF coap_option_check_critical
  <2> HIDE DEF r, bad, seen, type
  <2> QED
    BY <2>1
<1>8. \A n \in 1 .. l : list[n].key \in Nat /\ list[n].key < 256
  <2>1. \A n \in 1 .. l : list[n].key \in Nat
    BY <1>4, OptionFacts
  <2>2. \A n \in 1 .. l : list[n].key < 256
    BY <1>3, <1>4, SMT DEF NarrowList
  <2> QED
    BY <2>1, <2>2, Zenon
<1>9. \A n \in 1 .. l : Bit(list[n].key) = list[n].key /\ (Fits(list[n].key) <=> list[n].key < 64)
  <2> TAKE n \in 1 .. l
  <2>1. PICK x \in Nat : x = list[n].key /\ x < 256
    BY <1>8, Zenon
  <2> QED
    BY <2>1, SmallBits
<1> DEFINE odd(n) == list[n].key % 2 = 1 /\ list[n].key \notin known_options
<1>10. \A n : n \in bad <=> n \in 1 .. l /\ odd(n)
  <2>1. ASSUME NEW n \in 1 .. l PROVE Unknown(type(n)) <=> list[n].key \notin known_options
    <3>1. PICK x \in Nat : x = list[n].key /\ Bit(x) = x /\ (Fits(x) <=> x < 64)
      BY <1>8, <1>9
    <3>2. x \in known_options => x < 64
      BY SMT DEF known_options
    <3>3. type(n) = x
      BY <1>6, <3>1
    <3> HIDE DEF type
    <3>4. Unknown(x) <=> x \notin known_options
      BY <3>1, <3>2 DEF Unknown
    <3> QED
      BY <3>1, <3>3, <3>4
  <2> HIDE DEF type
  <2> QED
    BY <1>4, <1>6, <2>1
<1> HIDE DEF r, bad, type
<1>11. \A n : n \in seen <=> n \in bad /\ list[n].key < 64
  <2>1. ASSUME NEW n \in bad, list[n].key < 64, NEW m \in bad, m <= n PROVE Fits(type(m))
    <3>1. n \in 1 .. l /\ m \in 1 .. l
      BY <1>10
    <3>2. list[m].key <= list[n].key
      BY <1>2, <1>4, <2>1, <3>1, SortedFacts
    <3>3. list[m].key < 64
      BY <1>8, <2>1, <3>1, <3>2
    <3> QED
      BY <1>6, <1>9, <3>1, <3>3
  <2>2. ASSUME NEW n \in seen PROVE n \in bad /\ list[n].key < 64
    <3>1. n \in bad /\ n \in 1 .. l
      BY <1>10
    <3>2. n <= n
      BY <3>1
    <3>3. Fits(type(n))
      BY <3>1, <3>2
    <3> QED
      BY <1>6, <1>9, <3>1, <3>3
  <2> QED
    BY <2>1, <2>2
<1>12. \A o : o \in strange <=> \E n \in bad : list[n] = o
  <2>1. \A o : o \in ToSet(sent) <=> \E n \in 1 .. l : list[n] = o
    BY <1>2, <1>4, OptionFacts DEF Sorts
  <2> QED
    BY <1>10, <2>1
<1> HIDE DEF seen, strange
<1>13. bad = {} <=> strange = {}
  BY <1>12
<1>14. {Bit(type(n)) : n \in seen} = {o.key : o \in {x \in strange : x.key <= COAP_MAX_OPT}}
  <2>1. \A n \in seen : Bit(type(n)) = list[n].key /\ list[n] \in strange /\ list[n].key <= 63
    <3> TAKE n \in seen
    <3>1. n \in bad /\ n \in 1 .. l /\ list[n].key < 64
      BY <1>10, <1>11
    <3>2. list[n].key \in Nat
      BY <1>8, <3>1
    <3>3. list[n].key <= 63
      BY <3>1, <3>2, SMT
    <3> QED
      BY <1>6, <1>9, <1>12, <3>1, <3>3
  <2>2. ASSUME NEW o \in strange, o.key <= 63 PROVE \E n \in seen : Bit(type(n)) = o.key
    <3>1. PICK n \in bad : list[n] = o
      BY <1>12
    <3>2. n \in 1 .. l /\ list[n].key \in Nat
      BY <1>8, <1>10, <3>1
    <3>3. list[n].key < 64
      BY <2>2, <3>1, <3>2, SMT
    <3>4. n \in seen
      BY <1>11, <3>1, <3>3
    <3> QED
      BY <2>1, <3>1, <3>4
  <2> DEFINE noted == {Bit(type(n)) : n \in seen}
             low   == {x \in strange : x.key <= COAP_MAX_OPT}
             keys  == {o.key : o \in low}
  <2>3. ASSUME NEW v \in noted PROVE v \in keys
    <3>1. PICK n \in seen : v = Bit(type(n))
      OBVIOUS
    <3>2. list[n] \in low /\ v = list[n].key
      BY <2>1, <3>1
    <3> QED
      BY <3>2
  <2>4. ASSUME NEW v \in keys PROVE v \in noted
    <3>1. PICK o \in low : v = o.key
      OBVIOUS
    <3>2. o \in strange /\ o.key <= 63
      OBVIOUS
    <3>3. PICK n \in seen : Bit(type(n)) = o.key
      BY <2>2, <3>2
    <3> QED
      BY <3>1, <3>3
  <2>5. noted \subseteq keys /\ keys \subseteq noted
    BY <2>3, <2>4
  <2> HIDE DEF noted, keys
  <2>6. noted = keys
    BY <2>5
  <2> QED
    BY <2>6 DEF noted, keys, low
<1>15. r.ok <=> strange = {}
  BY <1>7, <1>13
<1>16. r.unknown = {o.key : o \in {x \in strange : x.key <= COAP_MAX_OPT}}
  BY <1>7, <1>14
<1> QED
  BY <1>15, <1>16, Zenon DEF r, strange

(* The invariant holds: the option list is what was inserted, sorted, the   *)
(* PDU shows the options that were meant, and the iterator is where what it *)
(* returned says.                                                           *)
THEOREM PduInvariant == PduSpec => []PduInv
<1>1. PduInit => PduInv
  BY PduInvInit
<1>2. PduInv /\ [PduNext]_pduVars => PduInv'
  BY PduInvStep
<1> QED
  BY <1>1, <1>2, PTL DEF PduSpec

(* RequestExact (coap_new_request, CoAPpthread.c:568-605): no option of a   *)
(* request is lost, changed or out of order.                                *)
THEOREM RequestsExact == PduSpec => []RequestExact
<1>1. PduInv => RequestExact
  BY ShownExact DEF PduInv
<1> QED
  BY <1>1, PduInvariant, PTL

(* FilterExact (coap_option_next): a search finds exactly the options of   *)
(* the types it was asked for, as far as these go up to COAP_MAX_OPT.      *)
THEOREM FiltersExact == PduSpec => []FilterExact
<1>1. PduInv => FilterExact
  BY SearchExactly
<1> QED
  BY <1>1, PduInvariant, PTL

(* CriticalExact (coap_option_check_critical): exactly the messages with an *)
(* unknown critical option are refused.                                     *)
THEOREM CriticalsExact == PduSpec => []CriticalExact
<1>1. PduInv => CriticalExact
  BY CheckExact DEF PduInv
<1> QED
  BY <1>1, PduInvariant, PTL
=============================================================================
