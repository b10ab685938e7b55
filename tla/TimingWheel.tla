----------------------------- MODULE TimingWheel -----------------------------
(***************************************************************************)
(* trantor::TimingWheel (utils/TimingWheel.cc): a hierarchy of wheels of   *)
(* buckets.  A bucket holds shared pointers; an entry is released when the *)
(* last bucket that holds it is dropped.  An entry with a long delay is    *)
(* wrapped, once per wheel, in an entry whose destructor puts the inner    *)
(* one into the wheel below.                                               *)
(*                                                                         *)
(* Time is counted in ticks.  ticksInterval_ is 1.  The tick and           *)
(* insertEntryInloop() both run in the loop, one at a time.                *)
(***************************************************************************)
EXTENDS Naturals, Sequences, FiniteSets

CONSTANTS
  Entries,             \* the objects that are inserted
  bucketsNumPerWheel,
  maxTimeout,
  MaxTicks             \* bound: ticks

N == bucketsNumPerWheel

\* wheelsNum_: the fewest wheels that hold maxTimeout ticks
wheelsNum ==
  CHOOSE k \in 1 .. maxTimeout :
    maxTimeout <= N ^ k /\ \A j \in 1 .. k - 1 : maxTimeout > N ^ j

Wheels == 0 .. wheelsNum - 1
Slots == 0 .. N - 1

VARIABLES
  wheels,        \* wheels_: each bucket is a set of pointers
  ticksCounter,  \* ticksCounter_
  due            \* history: the tick at which each entry is to be released

wheelVars == <<wheels, ticksCounter, due>>

\* A pointer is an entry with the slots that its wrappers will put it into, from
\* the wheel below down to wheel 0.
Pointer(e, path) == [entry |-> e, path |-> path]

WheelInit ==
  /\ wheels = [i \in Wheels |-> [b \in Slots |-> {}]]
  /\ ticksCounter = 0
  /\ due = [e \in Entries |-> 0]

\* Some bucket holds the entry, in a wrapper or not.
Held(e, ws) == \E i \in Wheels, b \in Slots : \E p \in ws[i][b] : p.entry = e

-----------------------------------------------------------------------------
\* Where a wrapper will put its entry in the wheel it was made for
Lower(delay, t) == (delay + (t % N) - 1) % N

\* The delay in rounds of a wheel
Upper(delay, t) == (delay + (t % N) - 1) \div N

\* insertEntryInloop(), for delay in ticks: at[i] is the delay and the counter that
\* its loop has for wheel i.
Place(e, delay, ws) ==
  LET at[i \in Wheels] ==
        IF i = 0 THEN <<delay, ticksCounter>>
        ELSE <<Upper(at[i - 1][1], at[i - 1][2]), at[i - 1][2] \div N>>
      fits == {i \in Wheels : at[i][1] <= N}
      wheel == IF fits = {} THEN wheelsNum - 1
               ELSE CHOOSE i \in fits : \A j \in fits : i <= j
      slot == IF fits = {} THEN N - 1 ELSE at[wheel][1] - 1
      path == [k \in 1 .. wheel |-> Lower(at[wheel - k][1], at[wheel - k][2])]
  IN [ws EXCEPT ![wheel][slot] = @ \cup {Pointer(e, path)}]

\* The delay in ticks: one more, because the current tick has begun.
Ticks(delay) == delay + 1

Larger(x, y) == IF x > y THEN x ELSE y

\* insertEntry(): an entry may be inserted again and then counts from now.
Insert(e, delay) ==
  /\ delay > 0
  /\ wheels' = Place(e, Ticks(delay), wheels)
  /\ due' = [due EXCEPT ![e] = Larger(@, ticksCounter + delay + 1)]
  /\ UNCHANGED ticksCounter

-----------------------------------------------------------------------------
\* The destructor of a wrapper, and of an entry that is in no other bucket
Drop(bucket, i, ws) ==
  IF i = 0 THEN ws
  ELSE [ws EXCEPT ![i - 1] =
          [b \in Slots |->
             @[b] \cup {Pointer(p.entry, Tail(p.path)) :
                          p \in {q \in bucket : q.path[1] = b}}]]

\* One turn of wheel i: the first bucket goes, and an empty one comes at the end.
Rotate(i, ws) ==
  LET turned == [ws EXCEPT ![i] =
                   [b \in Slots |-> IF b = N - 1 THEN {} ELSE @[b + 1]]]
  IN Drop(ws[i][0], i, turned)

\* Whether wheel i turns at tick t
Turns(t, i) == t % (N ^ i) = 0

\* The function of the timer: each wheel in turn
Tick ==
  /\ ticksCounter < MaxTicks
  /\ ticksCounter' = ticksCounter + 1
  /\ LET turn[i \in Wheels] ==
           LET ws == IF i = 0 THEN wheels ELSE turn[i - 1]
           IN IF Turns(ticksCounter + 1, i) THEN Rotate(i, ws) ELSE ws
     IN wheels' = turn[wheelsNum - 1]
  /\ UNCHANGED due

WheelNext == Tick \/ \E e \in Entries, d \in 1 .. maxTimeout : Insert(e, d)

WheelSpec == WheelInit /\ [][WheelNext]_wheelVars

-----------------------------------------------------------------------------
\* A pointer in wheel i has a path through all the wheels below it.
TypeOK ==
  /\ ticksCounter \in 0 .. MaxTicks
  /\ \A i \in Wheels, b \in Slots :
       \A p \in wheels[i][b] : p.entry \in Entries /\ p.path \in [1 .. i -> Slots]

\* The promise of the wheel, in ticks: whatever wheels an entry goes through, and
\* however often it is inserted again, it is held for the last delay it was given
\* and released by the next tick.  (A tick takes up to ticksInterval_, the "low
\* accuracy" of TimingWheel.h.)
ReleasedWhenDue ==
  TypeOK /\ \A e \in Entries : Held(e, wheels) <=> ticksCounter < due[e]
=============================================================================
