---------------------------- MODULE TurnProofs ------------------------------
(***************************************************************************)
(* Proofs about the two parts that divide time into turns: a layer of the  *)
(* round-robin bus, for every number of compartments and ports and every   *)
(* length of a turn, and the turns of CommandQueueTP, for every turn       *)
(* length and every set of timing parameters.  Both rest on the same       *)
(* lemmas about quotients and remainders.                                  *)
(***************************************************************************)
EXTENDS RRBusLayer, DramTiming, TLAPS

----------------------------------------------------------------------------
(* Quotients and remainders *)

\* Two products of a positive number that differ by less than it are equal.
LEMMA ProductGap ==
    ASSUME NEW b \in Nat \ {0}, NEW p \in Int, NEW q \in Int,
           NEW r \in 0..(b - 1), NEW s \in 0..(b - 1), b * p + r = b * q + s
    PROVE  p = q /\ r = s
<1>1. CASE p = q
  BY <1>1
<1>2. CASE p < q
  <2>1. q >= p + 1
    BY <1>2
  <2>2. b * q >= b * (p + 1)
    BY <2>1
  <2>3. b * (p + 1) = b * p + b
    OBVIOUS
  <2>. QED BY <2>2, <2>3
<1>3. CASE q < p
  <2>1. p >= q + 1
    BY <1>3
  <2>2. b * p >= b * (q + 1)
    BY <2>1
  <2>3. b * (q + 1) = b * q + b
    OBVIOUS
  <2>. QED BY <2>2, <2>3
<1>. QED BY <1>1, <1>2, <1>3

\* Quotient and remainder of a number, from a positive divisor.
LEMMA DivMod ==
    ASSUME NEW a \in Int, NEW b \in Nat \ {0}
    PROVE  /\ a \div b \in Int /\ a % b \in 0..(b - 1)
           /\ a = b * (a \div b) + (a % b)
OBVIOUS

\* They are the only numbers of that form.
LEMMA DivModUnique ==
    ASSUME NEW a \in Int, NEW b \in Nat \ {0}, NEW q \in Int,
           NEW r \in 0..(b - 1), a = b * q + r
    PROVE  a \div b = q /\ a % b = r
BY DivMod, ProductGap

----------------------------------------------------------------------------
(* The time arithmetic of the round-robin bus *)

\* Multiplication distributes over addition.
LEMMA Distribute ==
    ASSUME NEW p \in Int, NEW a \in Int, NEW b \in Int
    PROVE  p * (a + b) = p * a + p * b
OBVIOUS

\* The period is positive, and a turn fits into it.
LEMMA PeriodFacts ==
    /\ Period \in Nat \ {0}
    /\ \A tid \in Pid : /\ tid * tl \in Nat
                        /\ (tid + 1) * tl <= Period
                        /\ (tid + 1) * tl = tid * tl + tl
<1>1. num_pids \in Nat \ {0} /\ tl \in Nat \ {0}
  BY TurnAssumption
<1>2. Period \in Nat \ {0}
  BY <1>1 DEF Period
<1>3. ASSUME NEW tid \in Pid
      PROVE  /\ tid * tl \in Nat
             /\ (tid + 1) * tl <= Period
             /\ (tid + 1) * tl = tid * tl + tl
  <2>1. tid \in Nat /\ tid + 1 <= num_pids
    BY <1>1, <1>3 DEF Pid
  <2>2. (tid + 1) * tl <= num_pids * tl
    BY <1>1, <2>1
  <2>. QED BY <1>1, <2>1, <2>2 DEF Period
<1>. QED BY <1>2, <1>3

\* active_id at cycle k of the turn of tid, in any period, is tid.
LEMMA TurnIsOwn ==
    ASSUME NEW n \in Int, NEW tid \in Pid, NEW k \in 0..(tl - 1), NEW t \in Int,
           t = Period * n + (tid * tl + k)
    PROVE  active_id(t) = tid
<1>1. tl \in Nat \ {0} /\ tid \in Int
  BY TurnAssumption DEF Pid
<1>2. tid * tl + k \in 0..(Period - 1)
  BY <1>1, PeriodFacts
<1>3. t % Period = tid * tl + k
  BY <1>2, PeriodFacts, DivModUnique, ZenonT(60)
<1>4. tid * tl + k = tl * tid + k /\ tid * tl + k \in Int
  BY <1>1, <1>2
<1>5. (tid * tl + k) \div tl = tid
  BY <1>1, <1>4, DivModUnique, ZenonT(60)
<1>. QED BY <1>3, <1>5 DEF active_id

\* In the turn of tid the current edge is some cycle k of it.
LEMMA OwnTurn ==
    ASSUME NEW time \in Nat, NEW tid \in Pid, active_id(time) = tid
    PROVE  \E k \in 0..(tl - 1) :
              /\ time % Period = tid * tl + k
              /\ time = Period * (time \div Period) + (tid * tl + k)
<1>1. tl \in Nat \ {0} /\ tid \in Int
  BY TurnAssumption DEF Pid
<1>2. /\ time \div Period \in Int /\ time % Period \in Int
      /\ time = Period * (time \div Period) + (time % Period)
  <2>1. Period \in Nat \ {0} /\ time \in Int
    BY PeriodFacts
  <2>2. /\ time \div Period \in Int /\ time % Period \in 0..(Period - 1)
        /\ time = Period * (time \div Period) + (time % Period)
    BY <2>1, DivMod
  <2>. QED BY <2>2
<1> DEFINE r == time % Period
<1>3. /\ r = tl * (r \div tl) + (r % tl) /\ r % tl \in 0..(tl - 1)
  BY <1>1, <1>2, DivMod, ZenonT(60)
<1>4. r \div tl = tid
  BY DEF active_id
<1>5. r = tid * tl + (r % tl)
  BY <1>1, <1>3, <1>4
<1>. QED BY <1>2, <1>3, <1>5

\* calcFinishTime, called in a turn of tid, returns a time in a turn of tid
\* that is at least `size' cycles away: releaseLayer, which asks active_id whom
\* to release, finds the compartment that occupied the layer.
THEOREM FinishesInOwnTurn ==
    ASSUME NEW time \in Nat, NEW tid \in Pid, NEW size \in Nat,
           active_id(time) = tid
    PROVE  /\ calcFinishTime(time, tid, size) \in Nat
           /\ calcFinishTime(time, tid, size) >= size
           /\ active_id(time + calcFinishTime(time, tid, size)) = tid
<1>1. /\ tl \in Nat \ {0} /\ num_pids \in Nat \ {0}
      /\ tid \in Int /\ tid * tl \in Nat /\ Period \in Nat \ {0}
  BY TurnAssumption, PeriodFacts DEF Pid
<1>2. PICK k \in 0..(tl - 1) :
         /\ time % Period = tid * tl + k
         /\ time = Period * (time \div Period) + (tid * tl + k)
  BY OwnTurn
<1> DEFINE n == time \div Period
           rem == tl - 1 - k
           turns == (size - rem) \div tl
           data == (size - rem) % tl
           f == calcFinishTime(time, tid, size)
<1>3. n \in Int /\ time = Period * n + (tid * tl + k)
  BY <1>1, <1>2, DivMod
<1>4. rem \in 0..(tl - 1) /\ (tl - 1) - (time % Period) + (tid * tl) = rem
  BY <1>1, <1>2
<1>5. f = IF rem >= size THEN size
          ELSE IF data = 0 THEN rem + (Period * turns)
          ELSE rem + (Period * turns) + ((num_pids - 1) * tl) + data
  BY <1>4 DEF calcFinishTime
<1>. HIDE DEF n, f
<1>6. CASE rem >= size
  <2>1. f = size /\ k + size \in 0..(tl - 1)
    BY <1>1, <1>4, <1>5, <1>6
  <2>2. time + f = Period * n + (tid * tl + (k + size)) /\ time + f \in Int
    BY <1>1, <1>2, <1>3, <2>1
  <2>3. active_id(time + f) = tid
    BY <1>3, <2>1, <2>2, TurnIsOwn
  <2>. QED BY <2>1, <2>3 DEF f
<1>7. CASE ~(rem >= size)
  <2>1. /\ turns \in Int /\ data \in 0..(tl - 1)
        /\ size - rem = tl * turns + data /\ size - rem > 0
    <3>1. size - rem \in Int /\ size - rem > 0
      BY <1>1, <1>4, <1>7
    <3>. HIDE DEF rem
    <3>. QED BY <1>1, <3>1, DivMod, ZenonT(60)
  <2>. HIDE DEF turns, data
  <2>2. turns >= 0
    <3>1. CASE turns <= -1
      <4>1. tl * turns <= tl * (-1)
        BY <1>1, <2>1, <3>1
      <4>. QED BY <1>1, <2>1, <4>1
    <3>. QED BY <2>1, <3>1
  <2>3. Period * turns \in Nat /\ Period * turns >= tl * turns
    <3>1. Period * turns = (num_pids * tl) * turns
      BY DEF Period
    <3>2. (num_pids * tl) * turns = num_pids * (tl * turns)
      BY <1>1, <2>1
    <3>3. tl * turns \in Nat
      BY <1>1, <2>1, <2>2
    <3>4. num_pids * (tl * turns) >= tl * turns /\ num_pids * (tl * turns) \in Nat
      BY <1>1, <3>3
    <3>. QED BY <3>1, <3>2, <3>4
  <2>4. Period * (n + turns) = Period * n + Period * turns
    BY <1>1, <1>3, <2>1, Distribute
  <2>5. CASE data = 0
    <3>1. f = rem + Period * turns
      BY <1>5, <1>7, <2>5
    <3>2. time + f = Period * (n + turns) + (tid * tl + (tl - 1)) /\ time + f \in Int
      BY <1>1, <1>2, <1>3, <1>4, <2>1, <2>3, <2>4, <3>1
    <3>3. tl - 1 \in 0..(tl - 1) /\ n + turns \in Int
      BY <1>1, <1>3, <2>1
    <3>4. active_id(time + f) = tid
      BY <3>2, <3>3, TurnIsOwn
    <3>5. f \in Nat /\ f >= size
      BY <1>1, <1>4, <2>1, <2>3, <2>5, <3>1
    <3>. QED BY <3>4, <3>5 DEF f
  <2>6. CASE data # 0
    <3>1. f = rem + Period * turns + (num_pids - 1) * tl + data
      BY <1>5, <1>7, <2>6
    <3>2. (num_pids - 1) * tl = Period - tl /\ (num_pids - 1) * tl \in Nat
      BY <1>1 DEF Period
    <3>3. Period * (n + turns + 1) = Period * n + Period * turns + Period
      <4>1. Period * ((n + turns) + 1) = Period * (n + turns) + Period * 1
        BY <1>1, <1>3, <2>1, Distribute
      <4>. QED BY <1>1, <2>4, <4>1
    <3>4. data - 1 \in 0..(tl - 1) /\ n + turns + 1 \in Int
      BY <1>1, <1>3, <2>1, <2>6
    <3>5. /\ time + f = Period * (n + turns + 1) + (tid * tl + (data - 1))
          /\ time + f \in Int
      BY <1>1, <1>2, <1>3, <1>4, <2>1, <2>3, <3>1, <3>2, <3>3
    <3>6. active_id(time + f) = tid
      BY <3>4, <3>5, TurnIsOwn
    <3>7. f \in Nat /\ f >= size
      BY <1>1, <1>4, <2>1, <2>3, <3>1, <3>2
    <3>. QED BY <3>6, <3>7 DEF f
  <2>. QED BY <2>1, <2>5, <2>6
<1>. QED BY <1>4, <1>6, <1>7

----------------------------------------------------------------------------
(* The state of a layer *)

Layer == [state : [Pid -> {"IDLE", "BUSY"}], retryList : [Pid -> Seq(Port)],
          release : [Pid -> Nat \union {Off}]]

\* A layer that is released by its owner.
Good(ly) ==
    /\ ly \in Layer
    /\ \A t \in Pid : /\ ly.state[t] = "BUSY" <=> ly.release[t] # Off
                      /\ ly.release[t] # Off => active_id(now + ly.release[t]) = t

\* The ports of t that wait are remembered, with e the retry events.
Remembered(ly, t, e) ==
    ly.retryList[t] # <<>> => ly.state[t] = "BUSY" \/ e[t] # Off

----------------------------------------------------------------------------
(* Time *)

\* Adding periods does not change whose turn it is.
LEMMA SameTurn ==
    ASSUME NEW x \in Int, NEW y \in Int, NEW q \in Int, y = x + Period * q
    PROVE  active_id(y) = active_id(x)
<1>1. Period \in Nat \ {0}
  BY PeriodFacts
<1>2. /\ x \div Period \in Int /\ x % Period \in 0..(Period - 1)
      /\ x = Period * (x \div Period) + (x % Period)
  BY <1>1, DivMod
<1>3. Period * ((x \div Period) + q) = Period * (x \div Period) + Period * q
  BY <1>1, <1>2, Distribute
<1>4. y = Period * ((x \div Period) + q) + (x % Period)
  <2> DEFINE d == Period * (x \div Period)
             m == x % Period
             e == Period * q
  <2>1. d \in Int /\ m \in Int /\ e \in Int
    BY <1>1, <1>2
  <2>2. x = d + m /\ y = x + e
    BY <1>2, Zenon
  <2> HIDE DEF d, m, e
  <2>3. y = (d + e) + m
    BY <2>1, <2>2
  <2> QED BY <1>3, <2>3, ZenonT(60) DEF d, e, m
<1>5. (x \div Period) + q \in Int
  BY <1>2
<1>6. y % Period = x % Period
  BY <1>1, <1>2, <1>4, <1>5, DivModUnique, ZenonT(60)
<1> QED BY <1>6 DEF active_id

\* An event one cycle nearer, one cycle later modulo the period, is in the turn
\* it was in.
LEMMA NearerIsSameTurn ==
    ASSUME NEW x \in Nat, NEW e \in Nat
    PROVE  active_id(((x + 1) % Period) + (e - 1)) = active_id(x + e)
<1>1. Period \in Nat \ {0} /\ x + 1 \in Int
  BY PeriodFacts
<1> DEFINE y == (x + 1) % Period
           q == (x + 1) \div Period
           k == Period * q
<1>2. q \in Int /\ y \in 0..(Period - 1) /\ x + 1 = Period * q + y
  BY <1>1, DivMod
<1>3. k \in Int /\ y \in Int /\ x + 1 = k + y
  BY <1>1, <1>2
<1> HIDE DEF y, k
<1>4. x + e = (y + (e - 1)) + k /\ y + (e - 1) \in Int /\ x + e \in Int
  BY <1>3
<1> HIDE DEF q
<1>5. active_id(x + e) = active_id(y + (e - 1))
  BY <1>2, <1>4, SameTurn DEF k
<1> QED BY <1>5 DEF y

\* It is always the turn of a compartment.
LEMMA ActiveIsPid ==
    ASSUME NEW x \in Int
    PROVE  active_id(x) \in Pid
<1>1. Period \in Nat \ {0} /\ tl \in Nat \ {0} /\ num_pids \in Nat \ {0}
  BY PeriodFacts, TurnAssumption
<1> DEFINE r == x % Period
           a == r \div tl
<1>2. r \in 0..(Period - 1)
  BY <1>1, DivMod
<1> HIDE DEF r
<1>3. a \in Int /\ r % tl \in 0..(tl - 1) /\ r = tl * a + (r % tl)
  <2>1. r \in Int
    BY <1>1, <1>2
  <2> QED BY <1>1, <2>1, DivMod
<1> HIDE DEF a
<1>4. a >= 0
  <2>1. CASE a <= -1
    <3>1. tl * a <= tl * (-1)
      BY <1>1, <1>3, <2>1
    <3> QED BY <1>1, <1>2, <1>3, <3>1
  <2> QED BY <1>3, <2>1
<1>5. a <= num_pids - 1
  <2>1. CASE a >= num_pids
    <3>1. tl * a >= tl * num_pids
      BY <1>1, <1>3, <2>1
    <3>2. tl * num_pids = Period
      BY <1>1 DEF Period
    <3> QED BY <1>1, <1>2, <1>3, <3>1, <3>2
  <2> QED BY <1>1, <1>3, <2>1
<1>6. active_id(x) = a
  BY DEF active_id, r, a
<1> QED BY <1>1, <1>3, <1>4, <1>5, <1>6 DEF Pid

\* tryTiming schedules the retry event of a compartment for one of its turns.
LEMMA RetryInOwnTurn ==
    ASSUME NEW x \in 0..(Period - 1), NEW t \in Pid
    PROVE  retryDelay(x, t) \in Nat /\ active_id(x + retryDelay(x, t)) = t
<1>1. /\ Period \in Nat \ {0} /\ tl \in Nat \ {0} /\ t \in Int
      /\ t * tl \in Nat /\ t * tl + tl <= Period
  BY PeriodFacts, TurnAssumption DEF Pid
<1>2. x % Period = x
  <2>1. x = Period * 0 + x /\ x \in Int /\ 0 \in Int
    BY <1>1
  <2> QED BY <1>1, <2>1, DivModUnique
<1>3. 0 \in 0..(tl - 1) /\ x \in Int
  BY <1>1
<1>4. CASE t * tl - x < 0
  <2>1. retryDelay(x, t) = t * tl - x + Period
    BY <1>2, <1>4 DEF retryDelay
  <2>2. x + retryDelay(x, t) = Period * 1 + (t * tl + 0)
    BY <1>1, <1>3, <2>1
  <2>3. x + retryDelay(x, t) \in Int /\ retryDelay(x, t) \in Nat
    BY <1>1, <1>3, <2>1
  <2> QED BY <1>3, <2>2, <2>3, TurnIsOwn
<1>5. CASE ~(t * tl - x < 0)
  <2>1. retryDelay(x, t) = t * tl - x
    BY <1>2, <1>5 DEF retryDelay
  <2>2. x + retryDelay(x, t) = Period * 0 + (t * tl + 0)
    BY <1>1, <1>3, <2>1
  <2>3. x + retryDelay(x, t) \in Int /\ retryDelay(x, t) \in Nat
    BY <1>1, <1>3, <1>5, <2>1
  <2> QED BY <1>3, <2>2, <2>3, TurnIsOwn
<1> QED BY <1>4, <1>5
----------------------------------------------------------------------------
(* The layer *)

\* occupyLayer of an idle active compartment is good, and releases it in one of
\* its own turns.
LEMMA OccupyIsGood ==
    ASSUME now \in Nat, NEW ly, Good(ly), NEW t \in Pid, active_id(now) = t,
           ly.release[t] = Off, NEW size \in Nat, NEW owes, NEW o,
           o = occupyLayer(ly, t, size, owes)
    PROVE  /\ Good(o.layer) /\ o.owes = owes /\ o.abort = "no"
           /\ o.layer.state[t] = "BUSY" /\ o.layer.retryList = ly.retryList
           /\ \A u \in Pid \ {t} : o.layer.state[u] = ly.state[u]
<1> DEFINE f == calcFinishTime(now, t, size)
           new == [ly EXCEPT !.state[t] = "BUSY", !.release[t] = f]
<1>1. f \in Nat /\ active_id(now + f) = t
  BY FinishesInOwnTurn
<1> HIDE DEF f
<1>2. o = [layer |-> new, owes |-> owes, abort |-> "no"]
  BY DEF occupyLayer, Outcome, f
<1>3. ly \in Layer
  BY DEF Good
<1>4. /\ new \in Layer /\ new.retryList = ly.retryList
      /\ new.state = [ly.state EXCEPT ![t] = "BUSY"]
      /\ new.release = [ly.release EXCEPT ![t] = f]
  BY <1>1, <1>3, ZenonT(60) DEF Layer
<1> HIDE DEF new
<1>5. /\ new.state[t] = "BUSY" /\ new.release[t] = f
      /\ \A u \in Pid \ {t} : new.state[u] = ly.state[u] /\ new.release[u] = ly.release[u]
  BY <1>3, <1>4 DEF Layer
<1>6. f # Off
  BY <1>1 DEF Off
<1>7. Good(new)
  BY <1>1, <1>4, <1>5, <1>6 DEF Good
<1>8. o.layer = new
  BY <1>2
<1>9. o.owes = owes
  BY <1>2
<1>10. o.abort = "no"
  BY <1>2
<1> QED BY <1>4, <1>5, <1>7, <1>8, <1>9, <1>10, Zenon

\* Taking a port off a list, and putting one on it, changes nothing else.
LEMMA ListsOnly ==
    ASSUME NEW ly, Good(ly), NEW t \in Pid, NEW s \in Seq(Port), NEW new,
           new = [ly EXCEPT !.retryList[t] = s]
    PROVE  /\ Good(new) /\ new.state = ly.state /\ new.release = ly.release
           /\ \A u \in Pid \ {t} : new.retryList[u] = ly.retryList[u]
<1>1. ly \in Layer
  BY DEF Good
<1>2. /\ new \in Layer /\ new.state = ly.state /\ new.release = ly.release
      /\ \A u \in Pid \ {t} : new.retryList[u] = ly.retryList[u]
  BY <1>1, ZenonT(60) DEF Layer
<1> QED BY <1>2 DEF Good

\* The first port is taken off the list.
LEMMA PopFrontIsGood ==
    ASSUME NEW ly, Good(ly), NEW t \in Pid, ly.retryList[t] # <<>>
    PROVE  /\ Good(PopFront(ly, t)) /\ PopFront(ly, t).state = ly.state
           /\ PopFront(ly, t).release = ly.release
           /\ \A u \in Pid \ {t} : PopFront(ly, t).retryList[u] = ly.retryList[u]
<1>1. ly.retryList[t] \in Seq(Port)
  BY DEF Good, Layer
<1>2. Tail(ly.retryList[t]) \in Seq(Port)
  BY <1>1
<1> DEFINE s == Tail(ly.retryList[t])
           new == PopFront(ly, t)
<1>3. s \in Seq(Port) /\ new = [ly EXCEPT !.retryList[t] = s]
  BY <1>2 DEF PopFront
<1> HIDE DEF s, new
<1>4. /\ Good(new) /\ new.state = ly.state /\ new.release = ly.release
      /\ \A u \in Pid \ {t} : new.retryList[u] = ly.retryList[u]
  BY <1>3, ListsOnly
<1> QED BY <1>4 DEF new

\* A port is put on the list.
LEMMA WaitingIsGood ==
    ASSUME NEW ly, Good(ly), NEW t \in Pid, NEW p \in Port
    PROVE  /\ Good(Waiting(ly, t, p)) /\ Waiting(ly, t, p).state = ly.state
           /\ Waiting(ly, t, p).release = ly.release
           /\ \A u \in Pid \ {t} : Waiting(ly, t, p).retryList[u] = ly.retryList[u]
<1>1. ly.retryList[t] \in Seq(Port)
  BY DEF Good, Layer
<1>2. Append(ly.retryList[t], p) \in Seq(Port)
  BY <1>1
<1> DEFINE s == Append(ly.retryList[t], p)
           new == Waiting(ly, t, p)
<1>3. s \in Seq(Port) /\ new = [ly EXCEPT !.retryList[t] = s]
  BY <1>2 DEF Waiting
<1> HIDE DEF s, new
<1>4. /\ Good(new) /\ new.state = ly.state /\ new.release = ly.release
      /\ \A u \in Pid \ {t} : new.retryList[u] = ly.retryList[u]
  BY <1>3, ListsOnly
<1> QED BY <1>4 DEF new

\* An outcome of the handlers: a good layer in which all ports are remembered.
OutcomeOK(o, e) ==
    /\ Good(o.layer) /\ o.owes \in BOOLEAN /\ o.abort \in {"no", "retryWaiting"}
    /\ o.abort = "no" => \A u \in Pid : Remembered(o.layer, u, e)

\* Occupying the active compartment, whose list may have changed, remembers all
\* ports when the other compartments do.
LEMMA OccupyRemembers ==
    ASSUME now \in Nat, NEW t \in Pid, active_id(now) = t,
           NEW ly, NEW new, NEW e, Good(new), new.release[t] = Off,
           \A u \in Pid \ {t} : /\ Remembered(ly, u, e) /\ new.state[u] = ly.state[u]
                                /\ new.retryList[u] = ly.retryList[u],
           NEW size \in Nat, NEW owes \in BOOLEAN
    PROVE  OutcomeOK(occupyLayer(new, t, size, owes), e)
<1> DEFINE o == occupyLayer(new, t, size, owes)
<1>1. /\ Good(o.layer) /\ o.owes = owes /\ o.abort = "no"
      /\ o.layer.state[t] = "BUSY" /\ o.layer.retryList = new.retryList
      /\ \A u \in Pid \ {t} : o.layer.state[u] = new.state[u]
  BY OccupyIsGood
<1> HIDE DEF o
<1>2. \A u \in Pid : Remembered(o.layer, u, e)
  BY <1>1 DEF Remembered
<1>3. OutcomeOK(o, e)
  BY <1>1, <1>2 DEF OutcomeOK
<1> QED BY <1>3 DEF o

\* Trying the destination.
LEMMA AttemptOK ==
    ASSUME now \in Nat, NEW t \in Pid, active_id(now) = t, NEW ly, NEW e,
           \A u \in Pid \ {t} : Remembered(ly, u, e),
           NEW acc, NEW rej, NEW owes \in BOOLEAN,
           \A new \in {acc, rej} :
              /\ Good(new) /\ new.release[t] = Off
              /\ \A u \in Pid \ {t} : /\ new.state[u] = ly.state[u]
                                      /\ new.retryList[u] = ly.retryList[u],
           NEW o \in Attempt(acc, rej, t, owes)
    PROVE  OutcomeOK(o, e)
<1>1. headerCycles \in Nat /\ \A d \in DataCycles : headerCycles + d \in Nat
  BY LayerAssumption
<1>2. \/ \E d \in DataCycles : o = occupyLayer(acc, t, headerCycles + d, owes)
      \/ o = occupyLayer(rej, t, headerCycles, TRUE)
  BY ZenonT(60) DEF Attempt
<1>3. \A d \in DataCycles : OutcomeOK(occupyLayer(acc, t, headerCycles + d, owes), e)
  BY <1>1, OccupyRemembers, ZenonT(60)
<1>4. OutcomeOK(occupyLayer(rej, t, headerCycles, TRUE), e)
  BY <1>1, OccupyRemembers, ZenonT(60)
<1> QED BY <1>2, <1>3, <1>4, ZenonT(60)

\* retryWaiting remembers all ports when the compartments that are not active do.
LEMMA RetryWaitingOK ==
    ASSUME now \in Nat, NEW ly, Good(ly), NEW owes \in BOOLEAN, NEW e,
           \A u \in Pid \ {active_id(now)} : Remembered(ly, u, e),
           NEW o \in retryWaiting(ly, owes)
    PROVE  OutcomeOK(o, e)
<1> DEFINE t == active_id(now)
<1>1. t \in Pid
  BY ActiveIsPid
<1>2. CASE ly.retryList[t] = <<>>
  <2>1. o = [layer |-> ly, owes |-> owes, abort |-> "retryWaiting"]
    BY <1>2 DEF retryWaiting, Outcome
  <2> QED BY <2>1 DEF OutcomeOK
<1>3. CASE ly.retryList[t] # <<>> /\ ly.state[t] # "IDLE"
  <2>1. o = [layer |-> ly, owes |-> owes, abort |-> "no"]
    BY <1>3 DEF retryWaiting, Outcome
  <2>2. ly.state[t] = "BUSY"
    BY <1>1, <1>3 DEF Good, Layer
  <2>3. \A u \in Pid : Remembered(ly, u, e)
    BY <2>2 DEF Remembered
  <2> QED BY <2>1, <2>3 DEF OutcomeOK
<1>4. CASE ly.retryList[t] # <<>> /\ ly.state[t] = "IDLE"
  <2> DEFINE pop == PopFront(ly, t)
  <2>1. o \in Attempt(pop, ly, t, owes) \/ o = occupyLayer(pop, t, 1, owes)
    BY <1>4 DEF retryWaiting
  <2>2. /\ Good(pop) /\ pop.state = ly.state /\ pop.release = ly.release
        /\ \A u \in Pid \ {t} : pop.retryList[u] = ly.retryList[u]
    BY <1>1, <1>4, PopFrontIsGood
  <2>3. ly.release[t] = Off
    BY <1>1, <1>4 DEF Good
  <2> HIDE DEF pop
  <2>4. CASE o \in Attempt(pop, ly, t, owes)
    BY <1>1, <2>2, <2>3, <2>4, AttemptOK, SMTT(60)
  <2>5. CASE o = occupyLayer(pop, t, 1, owes)
    BY <1>1, <2>2, <2>3, <2>5, OccupyRemembers
  <2> QED BY <2>1, <2>4, <2>5
<1> QED BY <1>2, <1>3, <1>4

----------------------------------------------------------------------------
(* The actions *)

\* The retry events of the compartments fire in their turns.
EventsOK(e) ==
    /\ e \in [Pid -> Nat \union {Off}]
    /\ \A t \in Pid : e[t] # Off => active_id(now + e[t]) = t

\* The invariant in the terms of the lemmas about the layer.
LEMMA IInvFacts ==
    ASSUME IInv
    PROVE  /\ Good(layer) /\ EventsOK(retryEvent) /\ now \in Nat
           /\ now \in 0..(Period - 1) /\ owesRetry \in BOOLEAN
           /\ abort = "no" => \A u \in Pid : Remembered(layer, u, retryEvent)
<1>1. now \in Nat /\ now \in 0..(Period - 1) /\ layer \in Layer /\ owesRetry \in BOOLEAN
  BY PeriodFacts DEF IInv, TypeOK, Layer
<1>2. Good(layer)
  BY <1>1 DEF IInv, ReleasedByOwner, Good
<1>3. EventsOK(retryEvent)
  BY DEF IInv, TypeOK, EventsOK
<1>4. abort = "no" => \A u \in Pid : Remembered(layer, u, retryEvent)
  BY DEF IInv, WaitingIsRemembered, Remembered
<1> QED BY <1>1, <1>2, <1>3, <1>4

\* A step at one clock edge that takes such an outcome keeps the invariant.
LEMMA TakeKeepsIInv ==
    ASSUME IInv, NEW o, OutcomeOK(o, retryEvent'), Take(o), EventsOK(retryEvent'),
           UNCHANGED <<which, now>>, drainEvent' \in {"no", "waiting", "drained"}
    PROVE  IInv'
<1>1. layer' = o.layer /\ owesRetry' = o.owes /\ abort' = o.abort
  BY DEF Take
<1>2. layer' \in Layer /\ owesRetry' \in BOOLEAN /\ abort' \in {"no", "retryWaiting"}
  BY <1>1 DEF OutcomeOK, Good
<1>3. which' \in Layers /\ now' \in 0..(Period - 1)
  BY DEF IInv, TypeOK
<1>4. TypeOK'
  BY <1>2, <1>3 DEF TypeOK, Layer, EventsOK, Pid, Off, Period
<1>5. ReleasedByOwner'
  BY <1>1, <1>2 DEF ReleasedByOwner, OutcomeOK, Good, active_id, Pid, Off, Period
<1>6. WaitingIsRemembered'
  BY <1>1 DEF WaitingIsRemembered, OutcomeOK, Remembered, Pid, Off
<1>7. \A t \in Pid : retryEvent'[t] # Off => active_id(now' + retryEvent'[t]) = t
  BY ZenonT(60) DEF EventsOK
<1> QED BY <1>4, <1>5, <1>6, <1>7 DEF IInv, Pid, Off, active_id, Period

\* A packet is sent.
LEMMA RecvTimingKeeps ==
    ASSUME IInv, NEW p \in Port, recvTiming(p), UNCHANGED which
    PROVE  IInv'
<1> DEFINE t == tidOf[p]
           wait == Waiting(layer, t, p)
<1>1. t \in Pid /\ UNCHANGED <<now, drainEvent>> /\ abort = "no"
  BY LayerAssumption DEF recvTiming
<1>2. /\ Good(layer) /\ EventsOK(retryEvent) /\ now \in Nat /\ now \in 0..(Period - 1)
      /\ owesRetry \in BOOLEAN /\ \A u \in Pid : Remembered(layer, u, retryEvent)
  BY <1>1, IInvFacts, SMTT(60)
<1>3. /\ Good(wait) /\ wait.state = layer.state /\ wait.release = layer.release
      /\ \A u \in Pid \ {t} : wait.retryList[u] = layer.retryList[u]
  BY <1>1, <1>2, WaitingIsGood
<1>4. drainEvent' \in {"no", "waiting", "drained"}
  BY <1>1 DEF IInv, TypeOK
<1> HIDE DEF wait
<1> DEFINE w == Outcome(wait, owesRetry, "no")
<1>5. w.layer = wait /\ w.owes = owesRetry /\ w.abort = "no"
  BY DEF Outcome
<1>6. CASE /\ active_id(now) # t /\ Take(w)
           /\ retryEvent' = [retryEvent EXCEPT ![t] =
                               IF @ = Off THEN retryDelay(now, t) ELSE @]
  <2>1. retryDelay(now, t) \in Nat /\ active_id(now + retryDelay(now, t)) = t
    BY <1>1, <1>2, RetryInOwnTurn
  <2>2. EventsOK(retryEvent') /\ retryEvent'[t] # Off
        /\ \A u \in Pid \ {t} : retryEvent'[u] = retryEvent[u]
    BY <1>1, <1>2, <1>6, <2>1, SMTT(60) DEF EventsOK, Off
  <2>3. \A u \in Pid : Remembered(wait, u, retryEvent')
    BY <1>2, <1>3, <2>2 DEF Remembered
  <2>4. OutcomeOK(w, retryEvent')
    BY <1>2, <1>3, <1>5, <2>3, SMTT(60) DEF OutcomeOK
  <2> QED BY <1>1, <1>4, <1>6, <2>2, <2>4, TakeKeepsIInv, ZenonT(60)
<1>7. CASE active_id(now) = t /\ layer.state[t] = "BUSY" /\ Take(w) /\ UNCHANGED retryEvent
  <2>1. \A u \in Pid : Remembered(wait, u, retryEvent')
    BY <1>2, <1>3, <1>7, ZenonT(60) DEF Remembered
  <2>2. OutcomeOK(w, retryEvent')
    BY <1>2, <1>3, <1>5, <2>1 DEF OutcomeOK
  <2> QED BY <1>1, <1>2, <1>4, <1>7, <2>2, TakeKeepsIInv, SMTT(60)
<1>8. CASE /\ active_id(now) = t /\ layer.state[t] = "IDLE" /\ UNCHANGED retryEvent
           /\ \E o \in Attempt(layer, wait, t, owesRetry) : Take(o)
  <2>1. PICK o \in Attempt(layer, wait, t, owesRetry) : Take(o)
    BY <1>8, ZenonT(60)
  <2>2. layer.release[t] = Off /\ wait.release[t] = Off
    BY <1>1, <1>2, <1>3, <1>8, ZenonT(60) DEF Good
  <2>3. OutcomeOK(o, retryEvent)
    <3>1. \A u \in Pid \ {t} : Remembered(layer, u, retryEvent)
      BY <1>2
    <3> HIDE DEF t
    <3>2. \A new \in {layer, wait} :
            /\ Good(new) /\ new.release[t] = Off
            /\ \A u \in Pid \ {t} : /\ new.state[u] = layer.state[u]
                                    /\ new.retryList[u] = layer.retryList[u]
      BY <1>2, <1>3, <2>2, Zenon
    <3>3. now \in Nat /\ t \in Pid /\ active_id(now) = t /\ owesRetry \in BOOLEAN
      BY <1>1, <1>2, <1>8, Zenon
    <3> QED BY <3>1, <3>2, <3>3, AttemptOK, SMTT(30), ZenonT(60)
  <2> QED BY <1>1, <1>2, <1>4, <1>8, <2>1, <2>3, TakeKeepsIInv
<1> QED BY <1>6, <1>7, <1>8, SMTT(60) DEF recvTiming, wait, w

\* A retry event fires, in a turn of its compartment.
LEMMA RetryFiresKeeps ==
    ASSUME IInv, NEW t \in Pid, RetryFires(t), UNCHANGED which
    PROVE  IInv'
<1>1. /\ abort = "no" /\ retryEvent[t] = 0 /\ UNCHANGED <<now, drainEvent>>
      /\ retryEvent' = [retryEvent EXCEPT ![t] = Off]
  BY DEF RetryFires
<1>2. /\ Good(layer) /\ EventsOK(retryEvent) /\ now \in Nat
      /\ owesRetry \in BOOLEAN /\ \A u \in Pid : Remembered(layer, u, retryEvent)
  BY <1>1, IInvFacts
<1>3. active_id(now) = t
  <2>1. active_id(now + 0) = t
    BY <1>1, <1>2 DEF EventsOK, Off
  <2> QED BY <1>2, <2>1
<1>4. EventsOK(retryEvent') /\ \A u \in Pid \ {t} : retryEvent'[u] = retryEvent[u]
  BY <1>1, <1>2 DEF EventsOK, Off
<1>5. \A u \in Pid \ {active_id(now)} : Remembered(layer, u, retryEvent')
  BY <1>2, <1>3, <1>4 DEF Remembered
<1>6. PICK o \in retryWaiting(layer, owesRetry) : Take(o)
  BY DEF RetryFires
<1>7. OutcomeOK(o, retryEvent')
  BY <1>2, <1>5, <1>6, RetryWaitingOK
<1>8. drainEvent' \in {"no", "waiting", "drained"}
  BY <1>1 DEF IInv, TypeOK
<1> QED BY <1>1, <1>4, <1>6, <1>7, <1>8, TakeKeepsIInv, ZenonT(60)

\* A release event fires, in a turn of its compartment, and the assertions of
\* releaseLayer hold.
LEMMA ReleaseKeeps ==
    ASSUME IInv, NEW t \in Pid, releaseLayer(t), UNCHANGED which
    PROVE  IInv'
<1> DEFINE fired == [layer EXCEPT !.release[t] = Off]
           idle == [fired EXCEPT !.state[t] = "IDLE"]
<1>1. abort = "no" /\ layer.release[t] = 0 /\ UNCHANGED <<now, retryEvent>>
  BY DEF releaseLayer
<1>2. /\ Good(layer) /\ EventsOK(retryEvent) /\ now \in Nat
      /\ owesRetry \in BOOLEAN /\ \A u \in Pid : Remembered(layer, u, retryEvent)
  BY <1>1, IInvFacts
<1>3. active_id(now) = t
  <2>1. active_id(now + 0) = t
    BY <1>1, <1>2 DEF Good, Off
  <2> QED BY <1>2, <2>1
<1>4. layer \in Layer /\ layer.state[t] = "BUSY"
  BY <1>1, <1>2 DEF Good, Off
<1>5. /\ fired.state = layer.state /\ fired.release[t] = Off
      /\ idle \in Layer /\ idle.retryList = layer.retryList
      /\ idle.state[t] = "IDLE" /\ idle.release[t] = Off
      /\ \A u \in Pid \ {t} : idle.state[u] = layer.state[u]
                              /\ idle.release[u] = layer.release[u]
  BY <1>4, ZenonT(60) DEF Layer
<1>6. \/ /\ idle.retryList[t] # <<>>
         /\ \E o \in retryWaiting(idle, owesRetry) : Take(o)
         /\ UNCHANGED drainEvent
      \/ /\ idle.retryList[t] = <<>> /\ Take(Outcome(idle, owesRetry, "no"))
         /\ drainEvent' = IF drainEvent = "waiting" THEN "drained" ELSE drainEvent
  BY <1>3, <1>4, <1>5 DEF releaseLayer
<1> HIDE DEF fired, idle
<1>7. Good(idle)
  BY <1>2, <1>5, SMTT(60) DEF Good
<1>8. \A u \in Pid \ {t} : Remembered(idle, u, retryEvent)
  BY <1>2, <1>5 DEF Remembered
<1>9. drainEvent' \in {"no", "waiting", "drained"}
  BY <1>6, ZenonT(60) DEF IInv, TypeOK
<1>10. CASE \E o \in retryWaiting(idle, owesRetry) : Take(o)
  <2>1. PICK o \in retryWaiting(idle, owesRetry) : Take(o)
    BY <1>10
  <2>2. OutcomeOK(o, retryEvent)
    BY <1>2, <1>3, <1>7, <1>8, <2>1, RetryWaitingOK
  <2> QED BY <1>1, <1>2, <1>9, <2>1, <2>2, TakeKeepsIInv
<1>11. CASE idle.retryList[t] = <<>> /\ Take(Outcome(idle, owesRetry, "no"))
  <2> DEFINE o == Outcome(idle, owesRetry, "no")
  <2>1. o.layer = idle /\ o.owes = owesRetry /\ o.abort = "no"
    BY DEF Outcome
  <2> HIDE DEF o
  <2>2. \A u \in Pid : Remembered(idle, u, retryEvent)
    BY <1>8, <1>11 DEF Remembered
  <2>3. OutcomeOK(o, retryEvent)
    BY <1>2, <1>7, <2>1, <2>2 DEF OutcomeOK
  <2>4. Take(o)
    BY <1>11 DEF o
  <2> QED BY <1>1, <1>2, <1>9, <2>3, <2>4, TakeKeepsIInv
<1> QED BY <1>6, <1>10, <1>11

\* The destination has room again.
LEMMA PeerRetryKeeps ==
    ASSUME IInv, PeerRetry, UNCHANGED which
    PROVE  IInv'
<1>1. abort = "no" /\ UNCHANGED <<now, retryEvent, drainEvent>>
  BY DEF PeerRetry
<1>2. /\ Good(layer) /\ EventsOK(retryEvent) /\ now \in Nat
      /\ owesRetry \in BOOLEAN /\ \A u \in Pid : Remembered(layer, u, retryEvent)
  BY <1>1, IInvFacts
<1>3. drainEvent' \in {"no", "waiting", "drained"}
  BY <1>1 DEF IInv, TypeOK
<1>4. PICK o \in RetryOutcomes : Take(o)
  BY DEF PeerRetry
<1>5. \/ o = Outcome(layer, FALSE, "no")
      \/ \E x \in retryWaiting(layer, FALSE) :
            o = x \/ (o \in retryWaiting(x.layer, x.owes) /\ x.abort = "no")
  BY <1>4, ZenonT(60) DEF RetryOutcomes
<1>6. CASE o = Outcome(layer, FALSE, "no")
  <2>1. o.layer = layer /\ o.owes = FALSE /\ o.abort = "no"
    BY <1>6 DEF Outcome
  <2>2. OutcomeOK(o, retryEvent)
    BY <1>2, <2>1, ZenonT(60) DEF OutcomeOK
  <2> QED BY <1>1, <1>2, <1>3, <1>4, <2>2, TakeKeepsIInv
<1>7. ASSUME NEW x \in retryWaiting(layer, FALSE),
             o = x \/ (o \in retryWaiting(x.layer, x.owes) /\ x.abort = "no")
      PROVE  IInv'
  <2>1. OutcomeOK(x, retryEvent)
    BY <1>2, <1>7, RetryWaitingOK, ZenonT(60)
  <2>2. OutcomeOK(o, retryEvent)
    <3>1. CASE o = x
      BY <2>1, <3>1, SMTT(60)
    <3>2. CASE o \in retryWaiting(x.layer, x.owes) /\ x.abort = "no"
      <4>1. /\ Good(x.layer) /\ x.owes \in BOOLEAN
            /\ \A u \in Pid : Remembered(x.layer, u, retryEvent)
        BY <2>1, <3>2 DEF OutcomeOK
      <4> QED BY <1>2, <3>2, <4>1, RetryWaitingOK
    <3> QED BY <1>7, <3>1, <3>2
  <2> QED BY <1>1, <1>2, <1>3, <1>4, <2>2, TakeKeepsIInv
<1> QED BY <1>5, <1>6, <1>7, ZenonT(60)

\* Time passes: the events come nearer, and stay in the turns they were in.
LEMMA TickKeeps ==
    ASSUME IInv, Tick, UNCHANGED which
    PROVE  IInv'
<1> DEFINE Sooner(e) == IF e = Off THEN Off ELSE e - 1
<1>1. /\ abort = "no" /\ \A t \in Pid : retryEvent[t] # 0 /\ layer.release[t] # 0
      /\ now' = (now + 1) % Period
      /\ retryEvent' = [t \in Pid |-> Sooner(retryEvent[t])]
      /\ layer' = [layer EXCEPT !.release = [t \in Pid |-> Sooner(layer.release[t])]]
      /\ UNCHANGED <<owesRetry, drainEvent, abort>>
  BY DEF Tick
<1>2. /\ Good(layer) /\ EventsOK(retryEvent) /\ now \in Nat /\ layer \in Layer
      /\ \A u \in Pid : Remembered(layer, u, retryEvent)
  BY <1>1, IInvFacts DEF Good
<1>3. now' \in 0..(Period - 1) /\ now' \in Nat
  <2>1. Period \in Nat \ {0} /\ now + 1 \in Int
    BY <1>2, PeriodFacts
  <2>2. (now + 1) % Period \in 0..(Period - 1)
    BY <2>1, DivMod, ZenonT(60)
  <2> QED BY <1>1, <2>1, <2>2
<1>4. ASSUME NEW e \in Nat \union {Off}, e # 0
      PROVE  /\ Sooner(e) \in Nat \union {Off} /\ (Sooner(e) # Off <=> e # Off)
             /\ e # Off => active_id(now' + Sooner(e)) = active_id(now + e)
  <2>1. CASE e = Off
    BY <2>1
  <2>2. CASE e # Off
    <3>1. e \in Nat /\ e >= 1 /\ Sooner(e) = e - 1 /\ e - 1 \in Nat
      BY <1>4, <2>2
    <3>2. active_id(now' + (e - 1)) = active_id(now + e)
      BY <1>1, <1>2, <3>1, NearerIsSameTurn
    <3>3. e - 1 # Off
      BY <3>1 DEF Off
    <3> QED BY <2>2, <3>1, <3>2, <3>3
  <2> QED BY <2>1, <2>2
<1>5. /\ layer' \in Layer /\ layer'.state = layer.state
      /\ layer'.retryList = layer.retryList
      /\ \A t \in Pid : layer'.release[t] = Sooner(layer.release[t])
  <2>1. [t \in Pid |-> Sooner(layer.release[t])] \in [Pid -> Nat \union {Off}]
    BY <1>1, <1>2, <1>4 DEF Layer
  <2> QED BY <1>1, <1>2, <2>1, ZenonT(60) DEF Layer
<1>6. retryEvent' \in [Pid -> Nat \union {Off}]
      /\ \A t \in Pid : retryEvent'[t] = Sooner(retryEvent[t])
  BY <1>1, <1>2, <1>4 DEF EventsOK
<1> HIDE DEF Sooner
<1>7. TypeOK'
  BY <1>1, <1>3, <1>5, <1>6, ZenonT(60) DEF IInv, TypeOK, Layer, Pid, Off, Period
<1>8. \A t \in Pid : /\ layer.release[t] \in Nat \union {Off} /\ layer.release[t] # 0
                     /\ retryEvent[t] \in Nat \union {Off} /\ retryEvent[t] # 0
  BY <1>1, <1>2 DEF Layer, EventsOK
<1>9. ASSUME NEW t \in Pid
      PROVE  /\ layer'.state[t] = "BUSY" <=> layer'.release[t] # Off
             /\ layer'.release[t] # Off => active_id(now' + layer'.release[t]) = t
             /\ retryEvent'[t] # Off => active_id(now' + retryEvent'[t]) = t
             /\ layer'.retryList[t] # <<>> =>
                   layer'.state[t] = "BUSY" \/ retryEvent'[t] # Off
  BY <1>2, <1>4, <1>5, <1>6, <1>8, <1>9, ZenonT(60) DEF Good, EventsOK, Remembered
<1>10. ReleasedByOwner' /\ WaitingIsRemembered'
  BY <1>1, <1>9 DEF ReleasedByOwner, WaitingIsRemembered
<1> QED BY <1>7, <1>9, <1>10 DEF IInv

----------------------------------------------------------------------------
(* Theorems *)

\* The inductive invariant: the layer is released by its owner, retry events
\* fire in the turns of their compartments and no port is forgotten.
THEOREM LayerInvariance == Spec => []IInv
<1>1. Init => IInv
  <2> SUFFICES ASSUME Init PROVE IInv
    OBVIOUS
  <2>1. layer \in Layer
    BY DEF Init, Layer
  <2>2. TypeOK
    BY <2>1, ZenonT(60) DEF Init, TypeOK, Layer
  <2>3. \A t \in Pid : /\ layer.state[t] = "IDLE" /\ layer.release[t] = Off
                       /\ layer.retryList[t] = <<>> /\ retryEvent[t] = Off
    BY DEF Init
  <2>4. abort = "no"
    BY DEF Init
  <2> QED BY <2>2, <2>3, <2>4 DEF IInv, ReleasedByOwner, WaitingIsRemembered
<1>2. IInv /\ [Next]_vars => IInv'
  <2> SUFFICES ASSUME IInv, [Next]_vars PROVE IInv'
    OBVIOUS
  <2>1. CASE UNCHANGED which /\ \E p \in Port : recvTiming(p)
    BY <2>1, RecvTimingKeeps
  <2>2. CASE UNCHANGED which /\ \E t \in Pid : RetryFires(t)
    BY <2>2, RetryFiresKeeps
  <2>3. CASE UNCHANGED which /\ \E t \in Pid : releaseLayer(t)
    BY <2>3, ReleaseKeeps
  <2>4. CASE UNCHANGED which /\ PeerRetry
    BY <2>4, PeerRetryKeeps
  <2>5. CASE UNCHANGED which /\ drain
    BY <2>5, ZenonT(60) DEF drain, IInv, TypeOK, ReleasedByOwner, WaitingIsRemembered
  <2>6. CASE UNCHANGED which /\ Tick
    BY <2>6, TickKeeps
  <2>7. CASE UNCHANGED vars
    BY <2>7 DEF vars, IInv, TypeOK, ReleasedByOwner, WaitingIsRemembered
  <2> QED BY <2>1, <2>2, <2>3, <2>4, <2>5, <2>6, <2>7 DEF Next
<1> QED BY <1>1, <1>2, PTL DEF Spec

\* releaseLayer, which asks whose turn it is, always finds the compartment that
\* occupied the layer, and its assertions hold.
THEOREM OwnerReleases == Spec => []ReleasedByOwner
BY LayerInvariance, PTL DEF IInv

\* No port that waits is forgotten, whatever is rejected and retried.
THEOREM NobodyIsForgotten == Spec => []WaitingIsRemembered
BY LayerInvariance, PTL DEF IInv

\* Type correctness of the layer.
THEOREM LayerTypeCorrect == Spec => []TypeOK
BY LayerInvariance, PTL DEF IInv

----------------------------------------------------------------------------
(* The response layer *)

\* A retry event of t is scheduled for the next turn of t.
NextTurn(t, x, e) == \A d \in 0..(e - 1) : active_id(x + d) # t

\* Nothing is rejected in the response layer.  A list is shortened in a turn of its
\* compartment only, and its retry event has fired by then.
ResponseInv ==
    which = "response" =>
        /\ ~owesRetry /\ abort = "no"
        /\ \A t \in Pid : retryEvent[t] # Off => /\ layer.retryList[t] # <<>>
                                                 /\ NextTurn(t, now, retryEvent[t])

\* The edges of a period that belong to a compartment.
LEMMA OwnEdges ==
    ASSUME NEW r \in 0..(Period - 1), NEW t \in Pid, NEW x \in Int, NEW q \in Int,
           x = Period * q + r
    PROVE  active_id(x) = t <=> t * tl <= r /\ r < t * tl + tl
<1>1. /\ Period \in Nat \ {0} /\ tl \in Nat \ {0} /\ t \in Int /\ t * tl \in Int
      /\ r \in Int /\ t * tl + tl <= Period
  BY PeriodFacts, TurnAssumption DEF Pid
<1>2. x % Period = r
  BY <1>1, DivModUnique
<1>3. active_id(x) = r \div tl
  BY <1>2 DEF active_id
<1>4. ASSUME t * tl <= r, r < t * tl + tl PROVE active_id(x) = t
  <2>1. r - t * tl \in 0..(tl - 1) /\ x = Period * q + (t * tl + (r - t * tl))
    BY <1>1, <1>4
  <2> QED BY <2>1, TurnIsOwn
<1>5. ASSUME active_id(x) = t PROVE t * tl <= r /\ r < t * tl + tl
  <2>1. r % tl \in 0..(tl - 1) /\ r = tl * (r \div tl) + (r % tl)
    BY <1>1, DivMod
  <2>2. r = tl * t + (r % tl)
    BY <1>3, <1>5, <2>1
  <2>3. tl * t = t * tl
    BY <1>1
  <2> QED BY <1>1, <2>1, <2>2, <2>3
<1> QED BY <1>4, <1>5

\* tryTiming of a compartment that is not active schedules the retry event for
\* its next turn, not for a later one.
LEMMA RetryInNextTurn ==
    ASSUME NEW x \in 0..(Period - 1), NEW t \in Pid, active_id(x) # t
    PROVE  NextTurn(t, x, retryDelay(x, t))
<1> DEFINE b == t * tl
<1>1. /\ Period \in Nat \ {0} /\ tl \in Nat \ {0} /\ b \in Nat
      /\ b + tl <= Period /\ x \in Int
  BY PeriodFacts, TurnAssumption DEF Pid
<1>2. x = Period * 0 + x /\ 0 \in Int
  BY <1>1
<1>3. x % Period = x
  BY <1>1, <1>2, DivModUnique
<1>4. ~(b <= x /\ x < b + tl)
  BY <1>1, <1>2, OwnEdges, ZenonT(60)
<1>5. retryDelay(x, t) = IF b - x < 0 THEN b - x + Period ELSE b - x
  BY <1>3 DEF retryDelay
<1> SUFFICES ASSUME NEW d \in 0..(retryDelay(x, t) - 1), active_id(x + d) = t
             PROVE  FALSE
  BY DEF NextTurn
<1> HIDE DEF b
<1>6. CASE x + d < Period
  <2>1. x + d \in 0..(Period - 1) /\ x + d = Period * 0 + (x + d) /\ x + d \in Int
    BY <1>1, <1>5, <1>6
  <2>2. b <= x + d /\ x + d < b + tl
    BY <1>2, <2>1, OwnEdges DEF b
  <2> QED BY <1>1, <1>4, <1>5, <2>2
<1>7. CASE x + d >= Period
  <2> DEFINE r == x + d - Period
  <2>1. b - x < 0 /\ r \in 0..(Period - 1) /\ r < b /\ x + d \in Int
    BY <1>1, <1>5, <1>7
  <2>2. x + d = Period * 1 + r /\ 1 \in Int
    BY <1>1, <1>7
  <2> HIDE DEF r
  <2>3. b <= r
    BY <2>1, <2>2, OwnEdges DEF b
  <2> QED BY <1>1, <2>1, <2>3
<1> QED BY <1>1, <1>5, <1>6, <1>7

\* A retry with a port that waits runs into no assertion, and changes no other
\* list.
LEMMA RetryResponse ==
    ASSUME now \in Nat, NEW ly, Good(ly), which = "response",
           ly.retryList[active_id(now)] # <<>>, NEW owes,
           NEW o \in retryWaiting(ly, owes)
    PROVE  /\ o.abort = "no" /\ o.owes = owes
           /\ \A u \in Pid \ {active_id(now)} : o.layer.retryList[u] = ly.retryList[u]
<1> DEFINE t == active_id(now)
           pop == PopFront(ly, t)
<1>1. t \in Pid
  BY ActiveIsPid, SMTT(60)
<1>2. CASE ly.state[t] # "IDLE"
  BY <1>2 DEF retryWaiting, Outcome
<1>3. CASE ly.state[t] = "IDLE"
  <2>1. \E size \in Nat : o = occupyLayer(pop, t, size, owes)
    <3>1. \/ \E d \in DataCycles : o = occupyLayer(pop, t, headerCycles + d, owes)
          \/ o = occupyLayer(pop, t, 1, owes)
      BY <1>3 DEF retryWaiting, Attempt
    <3>2. \A d \in DataCycles : headerCycles + d \in Nat
      BY LayerAssumption, SMTT(60)
    <3> QED BY <3>1, <3>2
  <2>2. /\ Good(pop) /\ pop.release = ly.release
        /\ \A u \in Pid \ {t} : pop.retryList[u] = ly.retryList[u]
    BY <1>1, PopFrontIsGood
  <2>3. ly.release[t] = Off
    BY <1>1, <1>3, SMTT(60) DEF Good
  <2> HIDE DEF pop
  <2>4. o.owes = owes /\ o.abort = "no" /\ o.layer.retryList = pop.retryList
    <3>1. PICK size \in Nat : o = occupyLayer(pop, t, size, owes)
      BY <2>1, Zenon
    <3>2. pop.release[t] = Off
      BY <2>2, <2>3, Zenon
    <3> QED BY <1>1, <2>2, <3>1, <3>2, OccupyIsGood
  <2> QED BY <2>2, <2>4, ZenonT(60)
<1> QED BY <1>2, <1>3

\* The action steps: one edge of the clock, or the passing of time.
LEMMA ResponseKeeps ==
    ASSUME IInv, ResponseInv, Next
    PROVE  ResponseInv'
<1> SUFFICES ASSUME which = "response"
             PROVE  /\ ~owesRetry' /\ abort' = "no"
                    /\ \A t \in Pid : retryEvent'[t] # Off =>
                          layer'.retryList[t] # <<>> /\ NextTurn(t, now', retryEvent'[t])
  <2>1. which' = which
    BY ZenonT(60) DEF Next
  <2> QED BY <2>1 DEF ResponseInv, Pid, Off, NextTurn, active_id, Period
<1>1. /\ ~owesRetry /\ abort = "no"
      /\ \A t \in Pid : retryEvent[t] # Off =>
            layer.retryList[t] # <<>> /\ NextTurn(t, now, retryEvent[t])
  BY SMTT(60) DEF ResponseInv
<1>2. /\ Good(layer) /\ layer \in Layer /\ EventsOK(retryEvent) /\ now \in Nat
      /\ now \in 0..(Period - 1) /\ retryEvent \in [Pid -> Nat \union {Off}]
  BY IInvFacts DEF Good, EventsOK
<1>3. ASSUME NEW p \in Port, recvTiming(p)
      PROVE  /\ ~owesRetry' /\ abort' = "no"
             /\ \A t \in Pid : retryEvent'[t] # Off =>
                   layer'.retryList[t] # <<>> /\ NextTurn(t, now', retryEvent'[t])
  <2> DEFINE a == tidOf[p]
             wait == Waiting(layer, a, p)
             w == Outcome(wait, owesRetry, "no")
  <2>1. a \in Pid /\ now' = now
    BY <1>3, LayerAssumption, ZenonT(60) DEF recvTiming
  <2>2. \A t \in Pid : layer.retryList[t] # <<>> => wait.retryList[t] # <<>>
    <3>1. wait.retryList[a] = Append(layer.retryList[a], p)
      BY <1>2, <2>1 DEF Waiting, Layer
    <3>2. layer.retryList[a] \in Seq(Port)
      BY <1>2, <2>1, ZenonT(60) DEF Layer
    <3>3. wait.retryList[a] # <<>>
      BY <3>1, <3>2, SMTT(60)
    <3>4. \A t \in Pid \ {a} : wait.retryList[t] = layer.retryList[t]
      BY <1>2, <2>1, WaitingIsGood
    <3> QED BY <3>3, <3>4
  <2>3. wait.retryList[a] # <<>>
    <3>1. wait.retryList[a] = Append(layer.retryList[a], p)
      BY <1>2, <2>1 DEF Waiting, Layer
    <3>2. layer.retryList[a] \in Seq(Port)
      BY <1>2, <2>1 DEF Layer
    <3> QED BY <3>1, <3>2
  <2>4. w.layer = wait /\ w.owes = owesRetry /\ w.abort = "no"
    BY ZenonT(60) DEF Outcome
  <2> HIDE DEF wait
  <2>5. CASE /\ active_id(now) # a /\ Take(w)
             /\ retryEvent' = [retryEvent EXCEPT ![a] =
                                  IF @ = Off THEN retryDelay(now, a) ELSE @]
    <3>1. layer' = wait /\ owesRetry' = owesRetry /\ abort' = "no"
      BY <2>4, <2>5 DEF Take
    <3>2. NextTurn(a, now, retryDelay(now, a))
      BY <1>2, <2>1, <2>5, RetryInNextTurn
    <3>3. /\ \A t \in Pid \ {a} : retryEvent'[t] = retryEvent[t]
          /\ retryEvent'[a] = IF retryEvent[a] = Off THEN retryDelay(now, a)
                              ELSE retryEvent[a]
      BY <1>2, <2>1, <2>5, ZenonT(60)
    <3>4. \A t \in Pid : retryEvent'[t] # Off => NextTurn(t, now, retryEvent'[t])
      BY <1>1, <2>1, <3>2, <3>3, SMTT(60)
    <3>5. \A t \in Pid : retryEvent'[t] # Off => wait.retryList[t] # <<>>
      BY <1>1, <2>2, <2>3, <3>3, SMTT(60)
    <3> QED BY <1>1, <2>1, <3>1, <3>4, <3>5
  <2>6. CASE Take(w) /\ UNCHANGED retryEvent
    <3>1. layer' = wait /\ owesRetry' = owesRetry /\ abort' = "no"
      BY <2>4, <2>6, ZenonT(60) DEF Take
    <3> QED BY <1>1, <2>1, <2>2, <2>6, <3>1
  <2>7. CASE /\ layer.state[a] = "IDLE" /\ active_id(now) = a /\ UNCHANGED retryEvent
             /\ \E o \in Attempt(layer, wait, a, owesRetry) : Take(o)
    <3>1. PICK o \in Attempt(layer, wait, a, owesRetry) : Take(o)
      BY <2>7
    <3>2. PICK d \in DataCycles : o = occupyLayer(layer, a, headerCycles + d, owesRetry)
      BY <3>1 DEF Attempt
    <3>3. headerCycles + d \in Nat
      BY LayerAssumption, SMTT(60)
    <3>4. layer.release[a] = Off
      BY <1>2, <2>1, <2>7, ZenonT(60) DEF Good
    <3>5. o.owes = owesRetry /\ o.abort = "no" /\ o.layer.retryList = layer.retryList
      <4>1. now \in Nat /\ Good(layer) /\ a \in Pid
        BY <1>2, <2>1, ZenonT(60)
      <4> QED BY <2>7, <3>2, <3>3, <3>4, <4>1, OccupyIsGood
    <3> QED BY <1>1, <2>1, <2>7, <3>1, <3>5, SMTT(60) DEF Take
  <2> QED BY <1>3, <2>5, <2>6, <2>7, ZenonT(60) DEF recvTiming, wait, w
<1>4. ASSUME NEW u \in Pid, RetryFires(u)
      PROVE  /\ ~owesRetry' /\ abort' = "no"
             /\ \A t \in Pid : retryEvent'[t] # Off =>
                   layer'.retryList[t] # <<>> /\ NextTurn(t, now', retryEvent'[t])
  <2>1. /\ retryEvent[u] = 0 /\ now' = now
        /\ retryEvent' = [retryEvent EXCEPT ![u] = Off]
    BY <1>4 DEF RetryFires
  <2>2. active_id(now) = u
    <3>1. active_id(now + 0) = u
      BY <1>2, <2>1 DEF EventsOK, Off
    <3> QED BY <1>2, <3>1
  <2>3. layer.retryList[active_id(now)] # <<>>
    BY <1>1, <2>1, <2>2 DEF Off
  <2>4. PICK o \in retryWaiting(layer, owesRetry) : Take(o)
    BY <1>4, SMTT(60) DEF RetryFires
  <2>5. /\ o.abort = "no" /\ o.owes = owesRetry
        /\ \A t \in Pid \ {u} : o.layer.retryList[t] = layer.retryList[t]
    BY <1>2, <2>2, <2>3, <2>4, RetryResponse
  <2>6. retryEvent'[u] = Off /\ \A t \in Pid \ {u} : retryEvent'[t] = retryEvent[t]
    BY <1>2, <2>1, ZenonT(60)
  <2> QED BY <1>1, <2>1, <2>4, <2>5, <2>6 DEF Take
<1>5. ASSUME NEW u \in Pid, releaseLayer(u)
      PROVE  /\ ~owesRetry' /\ abort' = "no"
             /\ \A t \in Pid : retryEvent'[t] # Off =>
                   layer'.retryList[t] # <<>> /\ NextTurn(t, now', retryEvent'[t])
  <2> DEFINE fired == [layer EXCEPT !.release[u] = Off]
             idle == [fired EXCEPT !.state[u] = "IDLE"]
  <2>1. /\ layer.release[u] = 0 /\ UNCHANGED <<now, retryEvent>>
        /\ \A t \in Pid : retryEvent[t] # 0
    BY <1>5 DEF releaseLayer
  <2>2. active_id(now) = u
    <3>1. active_id(now + 0) = u
      BY <1>2, <2>1 DEF Good, Off
    <3> QED BY <1>2, <3>1
  <2>3. retryEvent[u] = Off
    <3> SUFFICES ASSUME retryEvent[u] # Off PROVE FALSE
      OBVIOUS
    <3>1. retryEvent[u] \in Nat /\ 0 \in 0..(retryEvent[u] - 1)
      BY <1>2, <2>1
    <3>2. active_id(now + 0) # u
      BY <1>1, <3>1 DEF NextTurn
    <3> QED BY <1>2, <2>2, <3>2
  <2>4. layer.state[u] = "BUSY"
    BY <1>2, <2>1 DEF Good, Off
  <2>5. /\ fired.state = layer.state /\ fired.release[u] = Off
        /\ idle \in Layer /\ idle.retryList = layer.retryList
        /\ idle.state[u] = "IDLE" /\ idle.release[u] = Off
        /\ \A t \in Pid \ {u} : idle.state[t] = layer.state[t]
                                /\ idle.release[t] = layer.release[t]
    BY <1>2, ZenonT(60) DEF Layer
  <2>6. \/ /\ idle.retryList[u] # <<>>
           /\ \E o \in retryWaiting(idle, owesRetry) : Take(o)
        \/ Take(Outcome(idle, owesRetry, "no"))
    BY <1>5, <2>2, <2>4, <2>5, SMTT(60) DEF releaseLayer
  <2> HIDE DEF fired, idle
  <2>7. Good(idle)
    BY <1>2, <2>5, ZenonT(60) DEF Good
  <2>8. CASE /\ idle.retryList[u] # <<>>
             /\ \E o \in retryWaiting(idle, owesRetry) : Take(o)
    <3>1. PICK o \in retryWaiting(idle, owesRetry) : Take(o)
      BY <2>8, ZenonT(60)
    <3>2. /\ o.abort = "no" /\ o.owes = owesRetry
          /\ \A t \in Pid \ {u} : o.layer.retryList[t] = idle.retryList[t]
      BY <1>2, <2>2, <2>7, <2>8, <3>1, RetryResponse, SMTT(60)
    <3> QED BY <1>1, <2>1, <2>3, <2>5, <3>1, <3>2 DEF Take
  <2>9. CASE Take(Outcome(idle, owesRetry, "no"))
    BY <1>1, <2>1, <2>5, <2>9 DEF Take, Outcome
  <2> QED BY <2>6, <2>8, <2>9
<1>6. CASE PeerRetry
  BY <1>1, <1>6 DEF PeerRetry
<1>7. CASE drain
  BY <1>1, <1>7 DEF drain
<1>8. CASE Tick
  <2>1. /\ \A t \in Pid : retryEvent[t] # 0
        /\ now' = (now + 1) % Period
        /\ \A t \in Pid : retryEvent'[t] = IF retryEvent[t] = Off THEN Off
                                           ELSE retryEvent[t] - 1
        /\ layer'.retryList = layer.retryList
        /\ UNCHANGED <<owesRetry, abort>>
    BY <1>2, <1>8 DEF Tick, Layer
  <2>2. ASSUME NEW t \in Pid, retryEvent'[t] # Off
        PROVE  NextTurn(t, now', retryEvent'[t])
    <3>1. retryEvent[t] # Off /\ retryEvent[t] \in Nat
      BY <1>2, <2>1, <2>2
    <3>2. ASSUME NEW d \in 0..(retryEvent'[t] - 1)
          PROVE  active_id(now' + d) # t
      <4>1. d + 1 \in Nat /\ d + 1 >= 1 /\ (d + 1) - 1 = d /\ d + 1 \in 0..(retryEvent[t] - 1)
        BY <2>1, <3>1, <3>2
      <4>2. active_id(now + (d + 1)) # t
        BY <1>1, <3>1, <4>1 DEF NextTurn
      <4>3. active_id(now' + ((d + 1) - 1)) = active_id(now + (d + 1))
        BY <1>2, <2>1, <4>1, NearerIsSameTurn, ZenonT(60)
      <4> QED BY <4>1, <4>2, <4>3
    <3> QED BY <3>2 DEF NextTurn
  <2> QED BY <1>1, <2>1, <2>2
<1> QED BY <1>3, <1>4, <1>5, <1>6, <1>7, <1>8, ZenonT(60) DEF Next

\* In the response layer retryWaiting is never called with an empty retry list,
\* for any turn length, number of compartments, ports and packet sizes.
THEOREM ResponsesFindSomeone == Spec => []ResponsesRetrySomeone
<1>1. Init => ResponseInv
  BY DEF Init, ResponseInv
<1>2. IInv /\ ResponseInv /\ [Next]_vars => ResponseInv'
  <2> SUFFICES ASSUME IInv, ResponseInv, [Next]_vars PROVE ResponseInv'
    OBVIOUS
  <2>1. CASE Next
    BY <2>1, ResponseKeeps
  <2>2. CASE UNCHANGED vars
    BY <2>2 DEF vars, ResponseInv, NextTurn, active_id, Pid, Off, Period
  <2> QED BY <2>1, <2>2
<1>3. ResponseInv => ResponsesRetrySomeone
  BY DEF ResponseInv, ResponsesRetrySomeone, RetryListNotEmpty
<1> QED BY <1>1, <1>2, <1>3, LayerInvariance, PTL DEF Spec

----------------------------------------------------------------------------
(* The turns of the memory controller: an activate that isBufferTime lets  *)
(* through has the time for its access, and for the refresh of the turn if *)
(* there is one, before the next process gets its turn.                    *)

\* A tenth of a number is not more than the number.
LEMMA Tenth ==
    ASSUME NEW a \in Nat
    PROVE  a \div 10 \in Nat /\ a \div 10 <= a
OBVIOUS

\* The delays of SystemConfiguration.h are numbers of cycles.
LEMMA DelayTypes ==
    /\ WORST_CASE_DELAY \in Nat /\ TP_BUFFER_TIME \in Nat
    /\ TP_BUFFER_TIME = WORST_CASE_DELAY + tRFC
<1>1. {CL, BL, tRP, tRCD, tWR, tRFC} \subseteq Nat \ {0} /\ BL >= 2 /\ CL >= 2
  BY DelayAssumption
<1>2. Burst \in Nat
  BY <1>1 DEF Burst
<1>3. WL \in Nat
  BY <1>1 DEF WL, RL
<1> QED BY <1>1, <1>2, <1>3 DEF WORST_CASE_DELAY, TP_BUFFER_TIME

\* Half of the values of an int are a whole number of turns.
LEMMA IntFacts ==
    /\ IntRange \div 2 \in Nat \ {0} /\ IntRange = 2 * (IntRange \div 2)
    /\ \E h \in Nat : IntRange \div 2 = tlength * h
<1> DEFINE h == IntRange \div (2 * tlength)
<1>1. /\ IntRange \in Int /\ IntRange \in Nat \ {0}
      /\ tlength \in Nat \ {0} /\ 2 * tlength \in Nat \ {0}
  BY SliceAssumption
<1>2. h \in Int /\ IntRange = (2 * tlength) * h + (IntRange % (2 * tlength))
  BY <1>1, DivMod, ZenonT(60)
<1> HIDE DEF h
<1>3. IntRange = 2 * (tlength * h) + 0
  BY <1>1, <1>2, SliceAssumption
<1>4. tlength * h \in Int
  BY <1>1, <1>2
<1>5. IntRange \div 2 = tlength * h
  BY <1>1, <1>3, <1>4, DivModUnique
<1>6. h \in Nat
  BY <1>1, <1>2, <1>3, <1>4
<1> QED BY <1>1, <1>3, <1>4, <1>5, <1>6

\* What the conversion to an int returns differs from its argument by a multiple
\* of IntRange.
LEMMA AsIntIs ==
    ASSUME NEW n \in Int
    PROVE  /\ AsInt(n) \in Int
           /\ -(IntRange \div 2) <= AsInt(n) /\ AsInt(n) < IntRange \div 2
           /\ \E m \in Int : n = IntRange * m + AsInt(n)
<1> DEFINE low == n % IntRange
           m == n \div IntRange
<1>1. IntRange \in Nat \ {0}
  BY SliceAssumption
<1>2. m \in Int /\ low \in 0..(IntRange - 1) /\ n = IntRange * m + low
  BY <1>1, DivMod, ZenonT(60)
<1>3. AsInt(n) = IF low < IntRange \div 2 THEN low ELSE low - IntRange
  BY DEF AsInt
<1> HIDE DEF low, m
<1>4. CASE low < IntRange \div 2
  <2>1. AsInt(n) = low
    BY <1>3, <1>4
  <2>2. low \in Int /\ -(IntRange \div 2) <= low
    BY <1>2, IntFacts
  <2> QED BY <1>2, <1>4, <2>1, <2>2, Zenon
<1>5. CASE ~(low < IntRange \div 2)
  <2>1. m + 1 \in Int /\ IntRange * (m + 1) = IntRange * m + IntRange
    BY <1>1, <1>2
  <2>2. n = IntRange * (m + 1) + (low - IntRange)
    BY <1>1, <1>2, <2>1
  <2>3. /\ low - IntRange \in Int /\ low - IntRange < IntRange \div 2
        /\ -(IntRange \div 2) <= low - IntRange
    BY <1>1, <1>2, <1>5, IntFacts
  <2> QED BY <1>3, <1>5, <2>1, <2>2, <2>3
<1> QED BY <1>4, <1>5

\* It is the only int that does.
LEMMA AsIntUnique ==
    ASSUME NEW n \in Int, NEW m \in Int, NEW k \in Int, n = IntRange * m + k,
           -(IntRange \div 2) <= k, k < IntRange \div 2
    PROVE  AsInt(n) = k
<1>1. IntRange \in Nat \ {0}
  BY SliceAssumption
<1>2. CASE k >= 0
  <2>1. k \in 0..(IntRange - 1)
    BY <1>1, <1>2, IntFacts
  <2>2. n % IntRange = k
    BY <1>1, <2>1, DivModUnique
  <2> QED BY <2>2 DEF AsInt
<1>3. CASE k < 0
  <2>1. k + IntRange \in 0..(IntRange - 1) /\ ~(k + IntRange < IntRange \div 2)
    BY <1>1, <1>3, IntFacts
  <2>2. m - 1 \in Int /\ IntRange * (m - 1) = IntRange * m - IntRange
    BY <1>1
  <2>3. n = IntRange * (m - 1) + (k + IntRange)
    BY <1>1, <2>2
  <2>4. n % IntRange = k + IntRange
    BY <1>1, <2>1, <2>2, <2>3, DivModUnique
  <2>5. (k + IntRange) - IntRange = k
    BY <1>1
  <2> QED BY <2>1, <2>4, <2>5 DEF AsInt
<1> QED BY <1>2, <1>3

\* The clock of the turns, its turn and its place in the turn.
LEMMA ClockIs ==
    ASSUME NEW c \in Int
    PROVE  /\ turnClock(c) \in Int /\ turnOf(c) \in Int
           /\ intoTurn(c) \in 0..(tlength - 1)
           /\ turnClock(c) = tlength * turnOf(c) + intoTurn(c)
<1>1. c - offset \in Int /\ tlength \in Nat \ {0}
  BY SliceAssumption
<1>2. turnClock(c) \in Int
  BY <1>1, AsIntIs DEF turnClock
<1> QED BY <1>1, <1>2, DivMod, ZenonT(60) DEF turnOf, intoTurn

\* The turn is negative exactly when the clock is.
LEMMA TurnSign ==
    ASSUME NEW c \in Int
    PROVE  turnOf(c) >= 0 <=> turnClock(c) >= 0
<1>1. tlength \in Nat \ {0}
  BY SliceAssumption
<1>2. ASSUME turnOf(c) >= 0 PROVE turnClock(c) >= 0
  <2>1. tlength * turnOf(c) >= 0
    BY <1>1, <1>2, ClockIs
  <2> QED BY <1>1, <2>1, ClockIs
<1>3. ASSUME ~(turnOf(c) >= 0) PROVE ~(turnClock(c) >= 0)
  <2>1. turnOf(c) <= -1
    BY <1>3, ClockIs
  <2>2. tlength * turnOf(c) <= -tlength
    BY <1>1, <2>1, ClockIs
  <2> QED BY <1>1, <2>2, ClockIs
<1> QED BY <1>2, <1>3

\* getCurrentPID names one of the num_pids processes, so that getCommandQueue
\* finds a queue for it, exactly while the int has not become negative, or in
\* every num_pids-th turn.  Before the first turn begins, and after the int has
\* overflowed, the number it returns is out of range in all other turns.
THEOREM PidIffInt ==
    ASSUME NEW c \in Int
    PROVE  getCurrentPID(c) \in Pid <=> \/ turnClock(c) >= 0
                                        \/ (-turnOf(c)) % num_pids = 0
<1> DEFINE turn == turnOf(c)
           rem == (-turn) % num_pids
<1>1. /\ num_pids \in Nat \ {0} /\ IntRange \in Nat \ {0}
      /\ num_pids < IntRange \div 2 /\ turn \in Int /\ -turn \in Int
  BY SliceAssumption, ClockIs
<1>2. CASE turn >= 0
  <2>1. turn % num_pids \in 0..(num_pids - 1)
    BY <1>1, DivMod, ZenonT(60)
  <2>2. getCurrentPID(c) = turn % num_pids
    BY <1>2 DEF getCurrentPID
  <2> QED BY <1>2, <2>1, <2>2, TurnSign DEF Pid
<1>3. CASE ~(turn >= 0)
  <2>1. rem \in 0..(num_pids - 1)
    BY <1>1, DivMod, ZenonT(60)
  <2>2. getCurrentPID(c) = (-rem) % IntRange
    BY <1>3 DEF getCurrentPID
  <2>3. ~(turnClock(c) >= 0)
    BY <1>3, TurnSign
  <2> HIDE DEF rem
  <2>4. CASE rem = 0
    <3>1. (-rem) % IntRange = 0
      BY <1>1, <2>4
    <3> QED BY <1>1, <2>2, <2>4, <3>1 DEF Pid, rem
  <2>5. CASE rem # 0
    <3>1. IntRange - rem \in 0..(IntRange - 1) /\ ~(IntRange - rem \in Pid)
      BY <1>1, <2>1, <2>5, IntFacts DEF Pid
    <3>2. -rem \in Int /\ -1 \in Int /\ -rem = IntRange * (-1) + (IntRange - rem)
      BY <1>1, <2>1
    <3>3. (-rem) % IntRange = IntRange - rem
      <4> DEFINE n == -rem
                 q == -1
                 r == IntRange - rem
      <4>1. n \in Int /\ q \in Int /\ r \in 0..(IntRange - 1) /\ n = IntRange * q + r
        BY <3>1, <3>2
      <4> HIDE DEF n, q, r
      <4>2. n % IntRange = r
        BY <1>1, <4>1, DivModUnique, ZenonT(60)
      <4> QED BY <4>2 DEF n, r
    <3> QED BY <2>2, <2>3, <2>5, <3>1, <3>3 DEF rem
  <2> QED BY <2>4, <2>5
<1> QED BY <1>2, <1>3

\* From the first turn on, for as many cycles as an int can count, getCurrentPID
\* names one of the num_pids processes.
THEOREM PidInRange ==
    ASSUME NEW c \in Nat, c >= offset, c - offset < IntRange \div 2
    PROVE  getCurrentPID(c) \in Pid
<1>1. /\ c - offset \in Int /\ 0 \in Int /\ c - offset = IntRange * 0 + (c - offset)
      /\ -(IntRange \div 2) <= c - offset
  BY SliceAssumption, IntFacts
<1>2. turnClock(c) = c - offset
  BY <1>1, AsIntUnique DEF turnClock
<1>3. turnClock(c) >= 0
  BY <1>2, SliceAssumption
<1> QED BY <1>3, PidIffInt

\* What isBufferTime leaves: a cycle that is not in the dead time of its turn is
\* followed by `delay' cycles of the same turn.
LEMMA DeadTimeLeaves ==
    ASSUME NEW delay \in Nat, NEW i \in 0..(tlength - 1),
           ~(tlength - i <= deadtime(delay))
    PROVE  i + delay < tlength
<1>1. ~(tlength < delay)
  BY SliceAssumption DEF deadtime
<1>2. tlength - delay \in Nat
  BY <1>1, SliceAssumption
<1>3. /\ (tlength - delay) \div 10 \in Nat
      /\ (tlength - delay) \div 10 <= tlength - delay
  BY <1>2, Tenth
<1>4. deadtime(delay) = tlength - (tlength - delay) \div 10
  BY <1>1 DEF deadtime
<1>5. i < (tlength - delay) \div 10
  BY <1>3, <1>4, SliceAssumption
<1> QED BY <1>2, <1>3, <1>5, SliceAssumption

\* The clock overflows only between two turns.
LEMMA ClockGoesOn ==
    ASSUME NEW c \in Int, NEW d \in Nat, intoTurn(c) + d < tlength
    PROVE  turnClock(c + d) = turnClock(c) + d
<1> DEFINE k == turnClock(c)
           q == turnOf(c)
<1>1. /\ tlength \in Nat \ {0} /\ IntRange \in Nat \ {0} /\ offset \in Nat
      /\ c - offset \in Int /\ (c + d) - offset \in Int
  BY SliceAssumption
<1>2. /\ k \in Int /\ q \in Int /\ intoTurn(c) \in 0..(tlength - 1)
      /\ k = tlength * q + intoTurn(c)
  BY ClockIs
<1>3. /\ -(IntRange \div 2) <= k /\ k < IntRange \div 2
      /\ \E m \in Int : c - offset = IntRange * m + k
  BY <1>1, AsIntIs, ZenonT(60) DEF turnClock
<1>4. PICK m \in Int : c - offset = IntRange * m + k
  BY <1>3
<1>5. PICK h \in Nat : IntRange \div 2 = tlength * h
  BY IntFacts
<1> HIDE DEF k, q
<1>6. q < h
  <2> SUFFICES ASSUME q >= h PROVE FALSE
    BY <1>2
  <2>1. tlength * q >= tlength * h
    BY <1>1, <1>2
  <2> QED BY <1>1, <1>2, <1>3, <1>5, <2>1, IntFacts
<1>7. tlength * (q + 1) <= tlength * h
  BY <1>1, <1>2, <1>6
<1>8. tlength * (q + 1) = tlength * q + tlength
  BY <1>1, <1>2
<1>9. k + d < IntRange \div 2 /\ -(IntRange \div 2) <= k + d /\ k + d \in Int
  BY <1>1, <1>2, <1>3, <1>5, <1>7, <1>8, IntFacts
<1>10. (c + d) - offset = IntRange * m + (k + d)
  <2> DEFINE p == IntRange * m
  <2>1. p \in Int /\ c - offset = p + k
    BY <1>1, <1>4
  <2> HIDE DEF p
  <2>2. (c + d) - offset = p + (k + d)
    BY <1>1, <1>2, <2>1
  <2> QED BY <2>2 DEF p
<1>11. AsInt((c + d) - offset) = k + d
  BY <1>1, <1>9, <1>10, AsIntUnique, ZenonT(60)
<1> QED BY <1>11 DEF turnClock, k

\* Cycles of one turn belong to one process.
LEMMA SameProcess ==
    ASSUME NEW c \in Int, NEW d \in Nat, intoTurn(c) + d < tlength
    PROVE  getCurrentPID(c + d) = getCurrentPID(c)
<1>1. /\ turnClock(c) \in Int /\ turnOf(c) \in Int
      /\ intoTurn(c) \in 0..(tlength - 1) /\ tlength \in Nat \ {0}
      /\ turnClock(c) = tlength * turnOf(c) + intoTurn(c)
  BY ClockIs, SliceAssumption
<1>2. intoTurn(c) + d \in 0..(tlength - 1)
  BY <1>1
<1>3. turnClock(c + d) = tlength * turnOf(c) + (intoTurn(c) + d)
  BY <1>1, ClockGoesOn
<1>4. turnClock(c + d) \in Int
  BY ClockIs
<1>5. turnClock(c + d) \div tlength = turnOf(c)
  BY <1>1, <1>2, <1>3, <1>4, DivModUnique
<1>6. turnOf(c + d) = turnOf(c)
  BY <1>5 DEF turnOf
<1> QED BY <1>6 DEF getCurrentPID

\* An activate that isBufferTime lets through in cycle c has the worst case of
\* its access, up to the precharge of the row, inside the turn of the process
\* that issued it; and the time of a refresh besides, if one becomes due.
THEOREM ActivateEndsInItsTurn ==
    ASSUME NEW c \in Int, ~isBufferTime(c),
           NEW d \in 0..(IF RefreshInTurn(c) THEN TP_BUFFER_TIME
                                              ELSE WORST_CASE_DELAY)
    PROVE  getCurrentPID(c + d) = getCurrentPID(c)
<1> DEFINE delay == IF RefreshInTurn(c) THEN TP_BUFFER_TIME ELSE WORST_CASE_DELAY
<1>1. delay \in Nat
  BY DelayTypes
<1>2. intoTurn(c) \in 0..(tlength - 1)
  BY ClockIs
<1>3. ~(tlength - intoTurn(c) <= deadtime(delay))
  BY DEF isBufferTime
<1> HIDE DEF delay
<1>4. intoTurn(c) + delay < tlength
  BY <1>1, <1>2, <1>3, DeadTimeLeaves
<1>5. d \in Nat /\ d <= delay
  BY <1>1 DEF delay
<1>6. intoTurn(c) + d < tlength
  BY <1>1, <1>2, <1>4, <1>5, SliceAssumption
<1> QED BY <1>5, <1>6, SameProcess
=============================================================================
