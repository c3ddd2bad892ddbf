-------------------------- MODULE LinearWalkProofs --------------------------
(***************************************************************************)
(* Proofs about LinearWalk, for every set of names, of effects, and every  *)
(* bound.                                                                  *)
(***************************************************************************)
EXTENDS LinearWalk, SequenceTheorems, TLAPS

-----------------------------------------------------------------------------
(* The stack operators.                                                    *)

\* a function on an initial segment is a sequence
LEMMA SegmentIsSeq ==
  ASSUME NEW S, NEW n \in Nat, NEW f \in [1..n -> S]
  PROVE  f \in Seq(S) /\ Len(f) = n
BY SeqDef

\* Pop, Below and TopN keep the values they keep
LEMMA PopProps ==
  ASSUME NEW S, NEW s \in Seq(S), Len(s) # 0
  PROVE  /\ Pop(s) \in Seq(S)
         /\ Len(Pop(s)) = Len(s) - 1
         /\ \A i \in 1..(Len(s) - 1) : Pop(s)[i] = s[i]
         /\ Top(s) \in S
         /\ Len(s) \in 1..Len(s)
<1>1. Len(s) \in Nat /\ Len(s) \in 1..Len(s) /\ Top(s) \in S
  BY DEF Top
<1>2. PICK n \in Nat : Len(s) = n + 1
  BY <1>1
<1>3. /\ SubSeq(s, 1, n) \in Seq(S)
      /\ Len(SubSeq(s, 1, n)) = n
      /\ \A i \in 1..n : SubSeq(s, 1, n)[i] = s[i]
  BY <1>2
<1>4. Len(s) - 1 = n
  BY <1>2
<1> QED BY <1>1, <1>3, <1>4 DEF Pop

LEMMA CutProps ==
  ASSUME NEW S, NEW s \in Seq(S), NEW n \in Nat, n <= Len(s)
  PROVE  /\ Below(s, n) \in Seq(S)
         /\ TopN(s, n) \in Seq(S)
         /\ Len(Below(s, n)) = Len(s) - n
         /\ Len(TopN(s, n)) = n
         /\ \A i \in 1..n : TopN(s, n)[i] = s[Len(s) - n + i]
<1>1. /\ \A i \in 1..(Len(s) - n) : s[i] \in S
      /\ \A i \in (Len(s) - n + 1)..Len(s) : s[i] \in S
  OBVIOUS
<1>2. /\ Below(s, n) \in Seq(S)
      /\ Len(Below(s, n)) = Len(s) - n
  BY <1>1, SubSeqProperties DEF Below
<1>3. /\ TopN(s, n) \in Seq(S)
      /\ Len(TopN(s, n)) = n
      /\ \A i \in 1..n : TopN(s, n)[i] = s[Len(s) - n + i]
  <2> DEFINE m == Len(s) - n + 1
  <2>1. m \in Int /\ Len(s) \in Int /\ Len(s) - m + 1 = n
    OBVIOUS
  <2>2. /\ SubSeq(s, m, Len(s)) \in Seq(S)
        /\ Len(SubSeq(s, m, Len(s))) = IF m <= Len(s) THEN Len(s) - m + 1 ELSE 0
        /\ \A i \in 1..(Len(s) - m + 1) : SubSeq(s, m, Len(s))[i] = s[m + i - 1]
    BY <1>1, <2>1, SubSeqProperties
  <2> QED BY <2>1, <2>2 DEF TopN
<1> QED BY <1>2, <1>3

\* a rotation moves values, by the same permutation whatever they are
RotateAt(len, k, i) == IF i <= len - k THEN i ELSE IF i = len THEN len - k + 1 ELSE i + 1

LEMMA RotateProps ==
  ASSUME NEW S, NEW s \in Seq(S), NEW k \in 2..3, k <= Len(s)
  PROVE  /\ Rotate(s, k) \in Seq(S)
         /\ Len(Rotate(s, k)) = Len(s)
         /\ \A i \in 1..Len(s) : /\ RotateAt(Len(s), k, i) \in 1..Len(s)
                                 /\ Rotate(s, k)[i] = s[RotateAt(Len(s), k, i)]
<1>1. \A i \in 1..Len(s) : /\ RotateAt(Len(s), k, i) \in 1..Len(s)
                           /\ Rotate(s, k)[i] = s[RotateAt(Len(s), k, i)]
  BY DEF Rotate, RotateAt
<1>2. Rotate(s, k) \in [1..Len(s) -> S]
  BY DEF Rotate
<1> QED BY <1>1, <1>2, SegmentIsSeq

-----------------------------------------------------------------------------
(* The inductive invariant.                                                *)

\* the values v and the locals e of an execution are what the types st and
\* the move-states mv say
Sync(v, e, st, mv) ==
  /\ Len(v) = Len(st)
  /\ \A i \in 1..Len(st) : (st[i] = "linear") <=> (v[i] # 0)
  /\ \A n \in Names : /\ (mv[n] = "live" => e[n] # 0)
                      /\ (e[n] # 0 => mv[n] \in {"live", "maybe"})

\* an open block has run some of its arms, and picked one of them
FramesOK ==
  \A k \in 1..Len(frames) : /\ frames[k].arm \in 1..frames[k].arms
                            /\ frames[k].pick \in 1..frames[k].arms

\* where the execution runs, it agrees with the walk, and it took the
\* current arm of every open block
RunsInSync ==
  mode = "run" =>
    /\ Sync(vals, env, stack, moves)
    /\ \A k \in 1..Len(frames) : frames[k].arm = frames[k].pick

\* where it skips an arm, it agrees with the state in front of the block, or
\* with what the arms up to the one it took leave
SkipsInSync ==
  mode = "skip" =>
    /\ skipped \in 1..Len(frames)
    /\ frames[skipped].arm # frames[skipped].pick
    /\ (frames[skipped].arm < frames[skipped].pick =>
          Sync(vals, env, frames[skipped].stack, frames[skipped].moves))
    /\ (frames[skipped].arm > frames[skipped].pick =>
          Sync(vals, env, frames[skipped].base, frames[skipped].joined))
    /\ \A k \in 1..(skipped - 1) : frames[k].arm = frames[k].pick

\* each resource alive has one holder, and no holder has anything else
Custody ==
  /\ fault = FALSE
  /\ \A r \in alive : r \in 1..made
  /\ \A i \in 1..Len(vals) : vals[i] # 0 => vals[i] \in alive
  /\ \A n \in Names : env[n] # 0 => env[n] \in alive
  /\ \A r \in alive : \/ \E i \in 1..Len(vals) : vals[i] = r
                      \/ \E n \in Names : env[n] = r
  /\ UniqueHolder

\* an accepted walk ended outside every block with the declared outputs
Verdict ==
  status = "accepted" =>
    /\ stack = effect.outs
    /\ \A n \in Names : moves[n] = "absent"

\* a name out of scope has no move-state
Scoped == \A n \in Names : level[n] = 0 => moves[n] = "absent"

\* the names in scope were bound in a block that is open, and the names an
\* arm started with are those bound before the block
Domains ==
  /\ \A n \in Names : level[n] <= Len(frames) + 1
  /\ \A k \in 1..Len(frames), n \in Names :
       /\ (frames[k].moves[n] = "absent" <=> (moves[n] = "absent" \/ level[n] > k))
       /\ (frames[k].arm > 1 =>
             (frames[k].joined[n] = "absent" <=> (moves[n] = "absent" \/ level[n] > k)))

SafetyInv ==
  TypeOK /\ FramesOK /\ RunsInSync /\ SkipsInSync /\ Custody /\ Verdict /\ Scoped /\ Domains

-----------------------------------------------------------------------------
(* The initial states.                                                     *)

LEMMA InitSafety == Init => SafetyInv
<1> SUFFICES ASSUME Init PROVE SafetyInv
  OBVIOUS
<1>1. /\ effect.ins \in Seq(Types)
      /\ Len(effect.ins) \in Nat
  BY EffectsAssumption DEF Init
<1>2. vals \in [1..Len(effect.ins) -> Nat]
  BY <1>1 DEF Init
<1>3. vals \in Seq(Nat) /\ Len(vals) = Len(effect.ins)
  BY <1>1, <1>2, SegmentIsSeq
<1>4. TypeOK
  <2>1. alive \in SUBSET Nat /\ made \in Nat
    BY <1>1 DEF Init
  <2>2. level \in [Names -> Nat] /\ moves \in [Names -> MoveStates] /\ env \in [Names -> Nat]
    BY DEF Init, NoMoves, MoveStates
  <2>3. frames \in Seq(Frames)
    BY DEF Init
  <2> QED BY <1>1, <1>3, <2>1, <2>2, <2>3 DEF Init, TypeOK
<1>5. FramesOK /\ SkipsInSync /\ Verdict /\ Scoped /\ Domains
  BY DEF Init, FramesOK, SkipsInSync, Verdict, Scoped, Domains, NoMoves
<1>6. RunsInSync
  <2>1. \A i \in 1..Len(stack) : (stack[i] = "linear") <=> (vals[i] # 0)
    BY <1>1 DEF Init
  <2>2. \A n \in Names : moves[n] = "absent" /\ env[n] = 0
    BY DEF Init, NoMoves
  <2> QED BY <1>3, <2>1, <2>2 DEF Init, RunsInSync, Sync
<1>7. Custody
  BY <1>1, <1>3 DEF Init, Custody, UniqueHolder
<1> QED BY <1>4, <1>5, <1>6, <1>7 DEF SafetyInv

-----------------------------------------------------------------------------
(* What one step of the execution does to its values.                      *)

\* nothing moves
LEMMA CustodyKept ==
  ASSUME Custody, UNCHANGED <<vals, env, alive, made, fault>>
  PROVE  Custody'
BY DEF Custody, UniqueHolder

\* a Copy value is pushed
LEMMA CustodyPushCopy ==
  ASSUME TypeOK, Custody, vals' = Append(vals, 0), UNCHANGED <<env, alive, made, fault>>
  PROVE  Custody'
<1>1. /\ Len(vals) \in Nat
      /\ Len(vals') = Len(vals) + 1
      /\ \A i \in 1..Len(vals') : vals'[i] = IF i = Len(vals) + 1 THEN 0 ELSE vals[i]
      /\ \A i \in 1..Len(vals) : i \in 1..Len(vals')
  BY DEF TypeOK
<1>2. \A r \in alive : \/ \E i \in 1..Len(vals') : vals'[i] = r
                       \/ \E n \in Names : env'[n] = r
  <2> SUFFICES ASSUME NEW r \in alive, ~ \E n \in Names : env[n] = r
               PROVE  \E i \in 1..Len(vals') : vals'[i] = r
    OBVIOUS
  <2>1. PICK i \in 1..Len(vals) : vals[i] = r
    BY DEF Custody
  <2> QED BY <1>1, <2>1
<1> QED BY <1>1, <1>2 DEF Custody, UniqueHolder

\* a resource is created
LEMMA CustodyProduce ==
  ASSUME TypeOK, Custody,
         vals' = Append(vals, made + 1), made' = made + 1, alive' = alive \cup {made + 1},
         UNCHANGED <<env, fault>>
  PROVE  Custody'
<1>1. /\ Len(vals) \in Nat /\ made \in Nat
      /\ Len(vals') = Len(vals) + 1
      /\ \A i \in 1..Len(vals') : vals'[i] = IF i = Len(vals) + 1 THEN made + 1 ELSE vals[i]
      /\ \A i \in 1..Len(vals) : i \in 1..Len(vals')
      /\ Len(vals) + 1 \in 1..Len(vals')
  BY DEF TypeOK
<1>2. made + 1 \notin alive /\ made + 1 # 0
  BY <1>1 DEF Custody
<1>3. /\ \A i \in 1..Len(vals) : vals[i] # made + 1
      /\ \A n \in Names : env[n] # made + 1
  BY <1>2 DEF Custody
<1>4. \A r \in alive' : \/ \E i \in 1..Len(vals') : vals'[i] = r
                        \/ \E n \in Names : env'[n] = r
  <2> SUFFICES ASSUME NEW r \in alive, ~ \E n \in Names : env[n] = r
               PROVE  \E i \in 1..Len(vals') : vals'[i] = r
    BY <1>1
  <2>1. PICK i \in 1..Len(vals) : vals[i] = r
    BY DEF Custody
  <2> QED BY <1>1, <2>1
<1>5. \A r \in alive' : r \in 1..made'
  BY <1>1 DEF Custody
<1>6. UniqueHolder'
  BY <1>1, <1>3 DEF Custody, UniqueHolder
<1> QED BY <1>1, <1>4, <1>5, <1>6 DEF Custody

\* what popping a value of the execution leaves
PoppedVals ==
  /\ Len(vals) \in 1..Len(vals)
  /\ Len(vals') = Len(vals) - 1
  /\ \A i \in 1..Len(vals') : i \in 1..Len(vals) /\ i # Len(vals) /\ vals'[i] = vals[i]
  /\ \A i \in 1..Len(vals) : i # Len(vals) => i \in 1..Len(vals')
  /\ Top(vals) = vals[Len(vals)]

LEMMA PopVals ==
  ASSUME TypeOK, Len(vals) # 0, vals' = Pop(vals)
  PROVE  PoppedVals
<1>1. vals \in Seq(Nat) /\ Len(vals) \in Nat
  BY DEF TypeOK
<1>2. /\ Len(Pop(vals)) = Len(vals) - 1
      /\ \A i \in 1..(Len(vals) - 1) : Pop(vals)[i] = vals[i]
      /\ Len(vals) \in 1..Len(vals)
  BY <1>1, PopProps
<1> QED BY <1>1, <1>2 DEF PoppedVals, Top

\* the top of the stack is disposed of
LEMMA CustodyDispose ==
  ASSUME TypeOK, Custody, Len(vals) # 0, NEW t \in Types,
         vals' = Pop(vals), Dispose(t, Top(vals)), (t = "linear") <=> (Top(vals) # 0),
         UNCHANGED <<env, made>>
  PROVE  Custody'
<1>1. PoppedVals
  BY PopVals
<1>2. Top(vals) = vals[Len(vals)]
  BY <1>1 DEF PoppedVals
<1> USE DEF PoppedVals
<1>3. fault' = FALSE
  BY <1>1, <1>2 DEF Custody, Dispose
<1>4. \A r \in alive' : r \in 1..made'
  BY DEF Custody, Dispose
<1>5. \A i \in 1..Len(vals') : vals'[i] # 0 => vals'[i] \in alive'
  BY <1>1, <1>2 DEF Custody, Dispose, UniqueHolder
<1>6. \A n \in Names : env'[n] # 0 => env'[n] \in alive'
  BY <1>1, <1>2 DEF Custody, Dispose, UniqueHolder
<1>7. \A r \in alive' : \/ \E i \in 1..Len(vals') : vals'[i] = r
                        \/ \E n \in Names : env'[n] = r
  <2> TAKE r \in alive'
  <2>1. r \in alive /\ r # vals[Len(vals)]
    BY <1>2 DEF Dispose
  <2>2. CASE \E n \in Names : env[n] = r
    BY <2>2
  <2>3. CASE \E i \in 1..Len(vals) : vals[i] = r
    <3>1. PICK i \in 1..Len(vals) : vals[i] = r
      BY <2>3
    <3>2. i \in 1..Len(vals') /\ vals'[i] = r
      BY <1>1, <2>1, <3>1
    <3> QED BY <3>2
  <2> QED BY <2>1, <2>2, <2>3 DEF Custody
<1>8. UniqueHolder'
  BY <1>1 DEF Custody, UniqueHolder
<1> QED BY <1>3, <1>4, <1>5, <1>6, <1>7, <1>8 DEF Custody

\* a Copy value is popped
LEMMA CustodyForget ==
  ASSUME TypeOK, Custody, Len(vals) # 0, Top(vals) = 0,
         vals' = Pop(vals), UNCHANGED <<env, alive, made, fault>>
  PROVE  Custody'
<1>1. Dispose("copy", Top(vals))
  BY DEF Dispose, Custody, TypeOK
<1> QED BY <1>1, CustodyDispose DEF Types

\* values change places
LEMMA CustodyReorder ==
  ASSUME TypeOK, Custody, NEW k \in 2..3, k <= Len(vals),
         vals' = Rotate(vals, k), UNCHANGED <<env, alive, made, fault>>
  PROVE  Custody'
<1>0. vals \in Seq(Nat)
  BY DEF TypeOK
<1>1. /\ Len(vals) \in Nat
      /\ Len(vals') = Len(vals)
      /\ \A i \in 1..Len(vals) : /\ RotateAt(Len(vals), k, i) \in 1..Len(vals)
                                 /\ vals'[i] = vals[RotateAt(Len(vals), k, i)]
  <2>1. /\ Len(Rotate(vals, k)) = Len(vals)
        /\ \A i \in 1..Len(vals) : /\ RotateAt(Len(vals), k, i) \in 1..Len(vals)
                                   /\ Rotate(vals, k)[i] = vals[RotateAt(Len(vals), k, i)]
    BY <1>0, RotateProps, Zenon
  <2> QED BY <1>0, <2>1
<1>2. \A i, j \in 1..Len(vals) : RotateAt(Len(vals), k, i) = RotateAt(Len(vals), k, j) => i = j
  BY <1>1 DEF RotateAt
<1>3. \A j \in 1..Len(vals) : \E i \in 1..Len(vals) : RotateAt(Len(vals), k, i) = j
  <2> TAKE j \in 1..Len(vals)
  <2>1. CASE j <= Len(vals) - k
    BY <1>1, <2>1 DEF RotateAt
  <2>2. CASE j = Len(vals) - k + 1
    <3>1. RotateAt(Len(vals), k, Len(vals)) = j
      BY <1>1, <2>2 DEF RotateAt
    <3> QED BY <1>1, <3>1
  <2>3. CASE j > Len(vals) - k + 1
    <3>1. RotateAt(Len(vals), k, j - 1) = j /\ j - 1 \in 1..Len(vals)
      BY <1>1, <2>3 DEF RotateAt
    <3> QED BY <3>1
  <2> QED BY <1>1, <2>1, <2>2, <2>3
<1>4. \A r \in alive : \/ \E i \in 1..Len(vals') : vals'[i] = r
                       \/ \E n \in Names : env'[n] = r
  <2> TAKE r \in alive
  <2>1. CASE \E n \in Names : env[n] = r
    BY <2>1
  <2>2. CASE \E j \in 1..Len(vals) : vals[j] = r
    <3>1. PICK j \in 1..Len(vals) : vals[j] = r
      BY <2>2
    <3>2. PICK i \in 1..Len(vals) : RotateAt(Len(vals), k, i) = j
      BY <1>3
    <3>3. i \in 1..Len(vals') /\ vals'[i] = r
      BY <1>1, <3>1, <3>2
    <3> QED BY <3>3
  <2> QED BY <2>1, <2>2 DEF Custody
<1> DEFINE P(i) == RotateAt(Len(vals), k, i)
<1>5. UniqueHolder'
  <2>1. ASSUME NEW i \in 1..Len(vals'), NEW j \in 1..Len(vals'), vals'[i] = vals'[j], vals'[i] # 0
        PROVE  i = j
    <3>1. P(i) \in 1..Len(vals) /\ P(j) \in 1..Len(vals) /\ vals[P(i)] = vals[P(j)] /\ vals[P(i)] # 0
      BY <1>1, <2>1
    <3>2. P(i) = P(j)
      BY <3>1 DEF Custody, UniqueHolder
    <3> QED BY <1>1, <1>2, <3>2
  <2>2. ASSUME NEW i \in 1..Len(vals'), NEW n \in Names, vals'[i] = env'[n]
        PROVE  vals'[i] = 0
    <3>1. P(i) \in 1..Len(vals) /\ vals[P(i)] = env[n] /\ vals'[i] = vals[P(i)]
      BY <1>1, <2>2
    <3> QED BY <3>1 DEF Custody, UniqueHolder
  <2> QED BY <2>1, <2>2 DEF Custody, UniqueHolder
<1>6. \A i \in 1..Len(vals') : vals'[i] # 0 => vals'[i] \in alive
  BY <1>1 DEF Custody
<1> QED BY <1>4, <1>5, <1>6 DEF Custody

\* the top of the stack moves into a local that holds nothing
LEMMA CustodyBind ==
  ASSUME TypeOK, Custody, Len(vals) # 0, NEW n \in Names, env[n] = 0,
         vals' = Pop(vals), env' = [env EXCEPT ![n] = Top(vals)],
         UNCHANGED <<alive, made, fault>>
  PROVE  Custody'
<1>1. PoppedVals
  BY PopVals
<1>2. Top(vals) = vals[Len(vals)]
  BY <1>1 DEF PoppedVals
<1> USE DEF PoppedVals
<1>3. \A m \in Names : env'[m] = IF m = n THEN vals[Len(vals)] ELSE env[m]
  BY <1>2 DEF TypeOK
<1>4. \A r \in alive : \/ \E i \in 1..Len(vals') : vals'[i] = r
                       \/ \E m \in Names : env'[m] = r
  <2> TAKE r \in alive
  <2>1. CASE \E m \in Names : env[m] = r
    <3>1. PICK m \in Names : env[m] = r
      BY <2>1
    <3>2. r \in 1..made /\ made \in Nat
      BY DEF Custody, TypeOK
    <3>3. m # n
      BY <3>1, <3>2
    <3>4. env'[m] = r
      BY <1>3, <3>1, <3>3
    <3> QED BY <3>4
  <2>2. CASE \E i \in 1..Len(vals) : vals[i] = r
    <3>1. PICK i \in 1..Len(vals) : vals[i] = r
      BY <2>2
    <3>2. CASE i = Len(vals)
      <4>1. env'[n] = r
        BY <1>3, <3>1, <3>2
      <4> QED BY <4>1
    <3>3. CASE i # Len(vals)
      <4>1. i \in 1..Len(vals') /\ vals'[i] = r
        BY <1>1, <3>1, <3>3
      <4> QED BY <4>1
    <3> QED BY <3>2, <3>3
  <2> QED BY <2>1, <2>2 DEF Custody
<1>5. UniqueHolder'
  <2>1. ASSUME NEW i \in 1..Len(vals'), NEW j \in 1..Len(vals'), vals'[i] = vals'[j], vals'[i] # 0
        PROVE  i = j
    BY <1>1, <2>1 DEF Custody, UniqueHolder
  <2>2. ASSUME NEW l \in Names, NEW m \in Names, env'[l] = env'[m], env'[l] # 0
        PROVE  l = m
    <3>1. \A o \in Names : vals[Len(vals)] = env[o] => vals[Len(vals)] = 0
      BY <1>1 DEF Custody, UniqueHolder
    <3> QED BY <1>3, <2>2, <3>1 DEF Custody, UniqueHolder
  <2>3. ASSUME NEW i \in 1..Len(vals'), NEW m \in Names, vals'[i] = env'[m]
        PROVE  vals'[i] = 0
    <3>1. i \in 1..Len(vals) /\ i # Len(vals) /\ vals'[i] = vals[i]
      BY <1>1
    <3> QED BY <1>1, <1>3, <2>3, <3>1 DEF Custody, UniqueHolder
  <2> QED BY <2>1, <2>2, <2>3 DEF UniqueHolder
<1>6. \A m \in Names : env'[m] # 0 => env'[m] \in alive
  BY <1>1, <1>3 DEF Custody
<1> QED BY <1>1, <1>4, <1>5, <1>6 DEF Custody

\* a local gives its value to the stack
LEMMA CustodyName ==
  ASSUME TypeOK, Custody, NEW n \in Names,
         vals' = Append(vals, env[n]), env' = [env EXCEPT ![n] = 0],
         fault' = FALSE, UNCHANGED <<alive, made>>
  PROVE  Custody'
<1>1. /\ Len(vals) \in Nat
      /\ Len(vals') = Len(vals) + 1
      /\ \A i \in 1..Len(vals') : vals'[i] = IF i = Len(vals) + 1 THEN env[n] ELSE vals[i]
      /\ \A i \in 1..Len(vals) : i \in 1..Len(vals')
      /\ Len(vals) + 1 \in 1..Len(vals')
  BY DEF TypeOK
<1>2. \A m \in Names : env'[m] = IF m = n THEN 0 ELSE env[m]
  BY DEF TypeOK
<1>3. \A r \in alive : \/ \E i \in 1..Len(vals') : vals'[i] = r
                       \/ \E m \in Names : env'[m] = r
  <2> TAKE r \in alive
  <2>1. CASE \E m \in Names : env[m] = r
    BY <1>1, <1>2, <2>1
  <2>2. CASE \E i \in 1..Len(vals) : vals[i] = r
    <3>1. PICK i \in 1..Len(vals) : vals[i] = r
      BY <2>2
    <3> QED BY <1>1, <3>1
  <2> QED BY <2>1, <2>2 DEF Custody
<1>4. UniqueHolder'
  BY <1>1, <1>2 DEF Custody, UniqueHolder
<1>5. \A m \in Names : env'[m] # 0 => env'[m] \in alive
  BY <1>2 DEF Custody
<1>6. \A i \in 1..Len(vals') : vals'[i] # 0 => vals'[i] \in alive
  BY <1>1 DEF Custody
<1> QED BY <1>3, <1>4, <1>5, <1>6 DEF Custody

\* the back-edge: what is above the arguments' place goes on, and nothing
\* else holds anything
LEMMA CustodyLoop ==
  ASSUME TypeOK, Custody, NEW n \in Nat, n <= Len(vals),
         \A i \in 1..(Len(vals) - n) : vals[i] = 0,
         \A m \in Names : env[m] = 0,
         vals' = TopN(vals, n), env' = [m \in Names |-> 0],
         UNCHANGED <<alive, made, fault>>
  PROVE  Custody'
<1>1. vals \in Seq(Nat) /\ Len(vals) \in Nat
  BY DEF TypeOK
<1>2. /\ Len(vals') = n
      /\ \A i \in 1..n : vals'[i] = vals[Len(vals) - n + i]
  BY <1>1, CutProps
<1>3. \A i \in 1..n : Len(vals) - n + i \in 1..Len(vals)
  BY <1>1
<1>4. \A m \in Names : env'[m] = 0
  OBVIOUS
<1>5. \A r \in alive : \/ \E i \in 1..Len(vals') : vals'[i] = r
                       \/ \E m \in Names : env'[m] = r
  <2> TAKE r \in alive
  <2>1. r # 0
    BY DEF Custody, TypeOK
  <2>2. PICK j \in 1..Len(vals) : vals[j] = r
    BY <2>1 DEF Custody
  <2>3. j > Len(vals) - n
    BY <1>1, <2>1, <2>2
  <2>4. j - (Len(vals) - n) \in 1..n /\ Len(vals) - n + (j - (Len(vals) - n)) = j
    BY <1>1, <2>3
  <2>5. vals'[j - (Len(vals) - n)] = r
    BY <1>2, <2>2, <2>4
  <2> QED BY <1>2, <2>4, <2>5
<1>6. UniqueHolder'
  <2>1. ASSUME NEW i \in 1..n, NEW j \in 1..n, vals'[i] = vals'[j], vals'[i] # 0
        PROVE  i = j
    <3>1. Len(vals) - n + i = Len(vals) - n + j
      BY <1>2, <1>3, <2>1 DEF Custody, UniqueHolder
    <3> QED BY <1>1, <3>1
  <2> QED BY <1>2, <1>4, <2>1 DEF UniqueHolder
<1>7. \A i \in 1..Len(vals') : vals'[i] # 0 => vals'[i] \in alive
  BY <1>2, <1>3 DEF Custody
<1> QED BY <1>4, <1>5, <1>6, <1>7 DEF Custody

-----------------------------------------------------------------------------
(* What one term does to the agreement of an execution with the walk.      *)

LEMMA SyncPush ==
  ASSUME NEW v \in Seq(Nat), NEW e, NEW st \in Seq(Types), NEW mv, Sync(v, e, st, mv),
         NEW x \in Nat, NEW t \in Types, (t = "linear") <=> (x # 0)
  PROVE  Sync(Append(v, x), e, Append(st, t), mv)
BY DEF Sync

LEMMA SyncPop ==
  ASSUME NEW v \in Seq(Nat), NEW e, NEW st \in Seq(Types), NEW mv, Sync(v, e, st, mv),
         Len(st) # 0
  PROVE  /\ Sync(Pop(v), e, Pop(st), mv)
         /\ Pop(v) \in Seq(Nat) /\ Pop(st) \in Seq(Types)
         /\ Len(v) # 0
         /\ Top(v) \in Nat /\ Top(st) \in Types
         /\ (Top(st) = "linear") <=> (Top(v) # 0)
<1>1. Len(v) = Len(st) /\ Len(v) # 0
  BY DEF Sync
<1>2. /\ Pop(v) \in Seq(Nat)
      /\ Len(Pop(v)) = Len(v) - 1
      /\ \A i \in 1..(Len(v) - 1) : Pop(v)[i] = v[i]
      /\ Top(v) \in Nat
      /\ Len(v) \in 1..Len(v)
  BY <1>1, PopProps
<1>3. /\ Pop(st) \in Seq(Types)
      /\ Len(Pop(st)) = Len(st) - 1
      /\ \A i \in 1..(Len(st) - 1) : Pop(st)[i] = st[i]
      /\ Top(st) \in Types
  BY PopProps
<1>4. (Top(st) = "linear") <=> (Top(v) # 0)
  BY <1>1, <1>2 DEF Sync, Top
<1>5. Sync(Pop(v), e, Pop(st), mv)
  <2>1. ASSUME NEW i \in 1..Len(Pop(st))
        PROVE  (Pop(st)[i] = "linear") <=> (Pop(v)[i] # 0)
    <3>1. i \in 1..(Len(st) - 1) /\ i \in 1..Len(st)
      BY <1>3
    <3> QED BY <1>1, <1>2, <1>3, <3>1 DEF Sync
  <2>2. Len(Pop(v)) = Len(Pop(st))
    BY <1>1, <1>2, <1>3
  <2> QED BY <2>1, <2>2 DEF Sync
<1> QED BY <1>1, <1>2, <1>3, <1>4, <1>5

LEMMA SyncRotate ==
  ASSUME NEW v \in Seq(Nat), NEW e, NEW st \in Seq(Types), NEW mv, Sync(v, e, st, mv),
         NEW k \in 2..3, k <= Len(st)
  PROVE  /\ Sync(Rotate(v, k), e, Rotate(st, k), mv)
         /\ Rotate(v, k) \in Seq(Nat) /\ Rotate(st, k) \in Seq(Types)
         /\ k <= Len(v)
<1>1. Len(v) = Len(st) /\ k <= Len(v)
  BY DEF Sync
<1>2. /\ Rotate(v, k) \in Seq(Nat)
      /\ Len(Rotate(v, k)) = Len(v)
      /\ \A i \in 1..Len(v) : /\ RotateAt(Len(v), k, i) \in 1..Len(v)
                            /\ Rotate(v, k)[i] = v[RotateAt(Len(v), k, i)]
  BY <1>1, RotateProps
<1>3. /\ Rotate(st, k) \in Seq(Types)
      /\ Len(Rotate(st, k)) = Len(st)
      /\ \A i \in 1..Len(st) : /\ RotateAt(Len(st), k, i) \in 1..Len(st)
                             /\ Rotate(st, k)[i] = st[RotateAt(Len(st), k, i)]
  BY RotateProps
<1>4. ASSUME NEW i \in 1..Len(st)
      PROVE  (Rotate(st, k)[i] = "linear") <=> (Rotate(v, k)[i] # 0)
  <2>1. PICK j \in 1..Len(st) : Rotate(st, k)[i] = st[j] /\ Rotate(v, k)[i] = v[j]
    BY <1>1, <1>2, <1>3
  <2> QED BY <2>1 DEF Sync
<1>5. Sync(Rotate(v, k), e, Rotate(st, k), mv)
  <2>1. Len(Rotate(v, k)) = Len(Rotate(st, k)) /\ Len(Rotate(st, k)) = Len(st)
    BY <1>1, <1>2, <1>3
  <2> QED BY <1>4, <2>1 DEF Sync
<1> QED BY <1>1, <1>2, <1>3, <1>5

\* the names an arm bound leave it moved or absent, so they hold nothing
LEMMA LeaveSync ==
  ASSUME TypeOK, NEW d \in Nat, NEW st, Sync(vals, env, st, moves), Leaks(d) = {}
  PROVE  /\ \A n \in Names : level[n] > d => env[n] = 0
         /\ Sync(vals, env, st, LeaveMoves(d))
<1>1. ASSUME NEW n \in Names, level[n] > d
      PROVE  env[n] = 0
  <2>1. moves[n] \notin {"live", "maybe"}
    BY <1>1 DEF Leaks, Unconsumed, Inside
  <2> QED BY <2>1 DEF Sync
<1>2. \A n \in Names : LeaveMoves(d)[n] = IF level[n] > d THEN "absent" ELSE moves[n]
  BY DEF LeaveMoves
<1> QED BY <1>1, <1>2 DEF Sync

\* the join of two states agrees with an execution that one of them agrees
\* with
LEMMA JoinSync ==
  ASSUME NEW v, NEW e, NEW st, NEW a, NEW b,
         Sync(v, e, st, a) \/ Sync(v, e, st, b)
  PROVE  Sync(v, e, st, Join(a, b))
<1>1. \A n \in Names : Join(a, b)[n] = IF a[n] = b[n] THEN a[n] ELSE "maybe"
  BY DEF Join, JoinState
<1> QED BY <1>1 DEF Sync

-----------------------------------------------------------------------------
(* The types of what blocks record.                                        *)

LEMMA MovesTyped ==
  ASSUME TypeOK
  PROVE  /\ NoMoves \in [Names -> MoveStates]
         /\ \A n \in Names : Take(moves, n) \in [Names -> MoveStates]
         /\ \A d \in Nat : LeaveMoves(d) \in [Names -> MoveStates]
         /\ \A d \in Nat : LeaveLevel(d) \in [Names -> Nat]
         /\ (Depth > 0 => JoinedMoves \in [Names -> MoveStates])
         /\ (Depth > 0 => JoinedStack \in Seq(Types))
         /\ Depth \in Nat
         /\ (Depth > 0 => Frame \in Frames)
<1>1. NoMoves \in [Names -> MoveStates]
  BY DEF NoMoves, MoveStates
<1>2. ASSUME NEW n \in Names PROVE Take(moves, n) \in [Names -> MoveStates]
  BY DEF TypeOK, Take, MoveStates
<1>3. \A d \in Nat : LeaveMoves(d) \in [Names -> MoveStates]
  BY DEF TypeOK, LeaveMoves, MoveStates
<1>4. \A d \in Nat : LeaveLevel(d) \in [Names -> Nat]
  BY DEF TypeOK, LeaveLevel
<1>5. Depth \in Nat /\ (Depth > 0 => Frame \in Frames)
  BY DEF TypeOK, Depth, Frame
<1>6. ASSUME Depth > 0
      PROVE  JoinedMoves \in [Names -> MoveStates] /\ JoinedStack \in Seq(Types)
  <2>1. ArmMoves \in [Names -> MoveStates]
    BY <1>3, <1>5 DEF ArmMoves
  <2>2. Frame.joined \in [Names -> MoveStates] /\ Frame.base \in Seq(Types)
    BY <1>5, <1>6 DEF Frames
  <2>3. Join(Frame.joined, ArmMoves) \in [Names -> MoveStates]
    BY <2>1, <2>2 DEF Join, JoinState, MoveStates
  <2> QED BY <2>1, <2>2, <2>3 DEF JoinedMoves, JoinedStack, TypeOK
<1> QED BY <1>1, <1>2, <1>3, <1>4, <1>5, <1>6

-----------------------------------------------------------------------------
(* Every step preserves the invariant: the terms.                          *)

\* the verdict changes nothing else
LEMMA RejectSafe ==
  ASSUME SafetyInv, Reject
  PROVE  SafetyInv'
<1> USE DEF Reject, machine
<1>1. TypeOK'
  BY DEF SafetyInv, TypeOK
<1>2. FramesOK' /\ Scoped' /\ Domains' /\ Verdict'
  BY DEF SafetyInv, FramesOK, Scoped, Domains, Verdict
<1>3. RunsInSync' /\ SkipsInSync'
  BY DEF SafetyInv, RunsInSync, SkipsInSync
<1>4. Custody'
  BY CustodyKept DEF SafetyInv
<1> QED BY <1>1, <1>2, <1>3, <1>4 DEF SafetyInv

\* a term leaves the blocks alone, and an execution that skips it too
LEMMA TermSafe ==
  ASSUME SafetyInv, Walking,
         TypeOK', Custody', Scoped', Domains',
         UNCHANGED <<status, frames, mode, skipped>>,
         mode = "run" => Sync(vals', env', stack', moves'),
         mode # "run" => UNCHANGED <<vals, env>>
  PROVE  SafetyInv'
<1>1. FramesOK' /\ Verdict'
  BY DEF SafetyInv, FramesOK, Verdict, Walking
<1>2. RunsInSync'
  BY DEF SafetyInv, RunsInSync
<1>3. SkipsInSync'
  BY DEF SafetyInv, SkipsInSync
<1> QED BY <1>1, <1>2, <1>3 DEF SafetyInv

\* ... and most terms leave the locals alone
LEMMA StackTermSafe ==
  ASSUME SafetyInv, Walking, SameBlocks, SameRun, UNCHANGED <<moves, env>>,
         stack' \in Seq(Types), vals' \in Seq(Nat), alive' \in SUBSET Nat,
         made' \in Nat, fault' \in BOOLEAN,
         Custody',
         mode = "run" => Sync(vals', env, stack', moves),
         mode # "run" => UNCHANGED vals
  PROVE  SafetyInv'
<1> USE DEF SameBlocks, SameRun
<1>1. TypeOK'
  BY DEF SafetyInv, TypeOK
<1>2. Scoped' /\ Domains'
  BY DEF SafetyInv, Scoped, Domains
<1> QED BY <1>1, <1>2, TermSafe

\* the types of the state, in one place
LEMMA Typed ==
  ASSUME SafetyInv
  PROVE  /\ TypeOK /\ Custody
         /\ stack \in Seq(Types) /\ vals \in Seq(Nat) /\ env \in [Names -> Nat]
         /\ moves \in [Names -> MoveStates] /\ level \in [Names -> Nat]
         /\ alive \in SUBSET Nat /\ made \in Nat /\ fault \in BOOLEAN
         /\ (mode = "run" => Sync(vals, env, stack, moves))
         /\ "copy" \in Types /\ "linear" \in Types
BY DEF SafetyInv, TypeOK, RunsInSync, Types

LEMMA LiteralSafe ==
  ASSUME SafetyInv, Literal
  PROVE  SafetyInv'
<1>1. Append(stack, "copy") \in Seq(Types) /\ Append(vals, 0) \in Seq(Nat)
  BY Typed
<1>2. CASE mode = "run"
  <2>1. Custody'
    BY <1>2, Typed, CustodyPushCopy DEF Literal, Running
  <2>2. Sync(Append(vals, 0), env, Append(stack, "copy"), moves)
    BY <1>2, Typed, SyncPush
  <2> QED BY <1>1, <1>2, <2>1, <2>2, Typed, StackTermSafe DEF Literal, Open, Running
<1>3. CASE mode # "run"
  <2>1. Custody'
    BY <1>3, Typed, CustodyKept DEF Literal, Running
  <2> QED BY <1>1, <1>3, <2>1, Typed, StackTermSafe DEF Literal, Open, Running
<1> QED BY <1>2, <1>3

LEMMA ProduceSafe ==
  ASSUME SafetyInv, Produce
  PROVE  SafetyInv'
<1>1. /\ Append(stack, "linear") \in Seq(Types)
      /\ Append(vals, made + 1) \in Seq(Nat)
      /\ made + 1 \in Nat /\ made + 1 # 0
      /\ alive \cup {made + 1} \in SUBSET Nat
  BY Typed
<1>2. CASE mode = "run"
  <2>1. Custody'
    BY <1>2, Typed, CustodyProduce DEF Produce, Running
  <2>2. Sync(Append(vals, made + 1), env, Append(stack, "linear"), moves)
    BY <1>1, <1>2, Typed, SyncPush
  <2> QED BY <1>1, <1>2, <2>1, <2>2, Typed, StackTermSafe DEF Produce, Open, Running
<1>3. CASE mode # "run"
  <2>1. Custody'
    BY <1>3, Typed, CustodyKept DEF Produce, Running
  <2> QED BY <1>1, <1>3, <2>1, Typed, StackTermSafe DEF Produce, Open, Running
<1> QED BY <1>2, <1>3

\* a term that disposes of the top of the stack, whatever its type
LEMMA DisposeSafe ==
  ASSUME SafetyInv, Walking, Len(stack) # 0, stack' = Pop(stack),
         SameBlocks, SameRun, UNCHANGED <<moves, env, made>>,
         IF Running THEN vals' = Pop(vals) /\ Dispose(Top(stack), Top(vals))
         ELSE UNCHANGED <<vals, alive, fault>>
  PROVE  SafetyInv'
<1>1. Pop(stack) \in Seq(Types)
  BY Typed, PopProps
<1>2. CASE mode = "run"
  <2>1. /\ Sync(Pop(vals), env, Pop(stack), moves)
        /\ Pop(vals) \in Seq(Nat) /\ Len(vals) # 0 /\ Top(stack) \in Types
        /\ (Top(stack) = "linear") <=> (Top(vals) # 0)
    BY <1>2, Typed, SyncPop
  <2>2. vals' = Pop(vals) /\ Dispose(Top(stack), Top(vals))
    BY <1>2 DEF Running
  <2>3. Custody'
    BY <2>1, <2>2, Typed, CustodyDispose
  <2>4. alive' \in SUBSET Nat /\ fault' \in BOOLEAN
    BY <2>2, <2>3, Typed DEF Dispose, Custody
  <2> QED BY <1>1, <1>2, <2>1, <2>2, <2>3, <2>4, Typed, StackTermSafe
<1>3. CASE mode # "run"
  <2>1. Custody'
    BY <1>3, Typed, CustodyKept DEF Running
  <2> QED BY <1>1, <1>3, <2>1, Typed, StackTermSafe DEF Running
<1> QED BY <1>2, <1>3

LEMMA ConsumeSafe ==
  ASSUME SafetyInv, Consume
  PROVE  SafetyInv'
<1>1. CASE Len(stack) = 0 \/ Top(stack) # "linear"
  BY <1>1, RejectSafe DEF Consume
<1>2. CASE Len(stack) # 0 /\ Top(stack) = "linear"
  BY <1>2, DisposeSafe DEF Consume, Open
<1> QED BY <1>1, <1>2

LEMMA DropSafe ==
  ASSUME SafetyInv, Drop
  PROVE  SafetyInv'
<1>1. CASE Len(stack) = 0
  BY <1>1, RejectSafe DEF Drop
<1>2. CASE Len(stack) # 0
  BY <1>2, DisposeSafe DEF Drop, Open
<1> QED BY <1>1, <1>2

LEMMA CopySafe ==
  ASSUME SafetyInv, NEW k \in 1..2, Copy(k)
  PROVE  SafetyInv'
<1>1. CASE Len(stack) < k \/ stack[Len(stack) - k + 1] # "copy"
  BY <1>1, RejectSafe DEF Copy
<1>2. CASE ~(Len(stack) < k \/ stack[Len(stack) - k + 1] # "copy")
  <2> DEFINE j == Len(stack) - k + 1
  <2>1. j \in 1..Len(stack) /\ stack[j] = "copy" /\ Append(stack, stack[j]) \in Seq(Types)
    BY <1>2, Typed
  <2>2. CASE mode = "run"
    <3>1. Len(vals) = Len(stack) /\ vals[j] = 0
      BY <2>1, <2>2, Typed DEF Sync
    <3>2. vals' = Append(vals, 0)
      BY <1>2, <2>2, <3>1 DEF Copy, Running
    <3>3. Custody'
      BY <1>2, <3>2, Typed, CustodyPushCopy DEF Copy
    <3>4. Sync(Append(vals, 0), env, Append(stack, "copy"), moves)
      BY <2>2, Typed, SyncPush
    <3>5. Append(vals, 0) \in Seq(Nat)
      BY Typed
    <3> QED BY <1>2, <2>1, <2>2, <3>2, <3>3, <3>4, <3>5, Typed, StackTermSafe DEF Copy, Open
  <2>3. CASE mode # "run"
    <3>1. Custody'
      BY <1>2, <2>3, Typed, CustodyKept DEF Copy, Running
    <3> QED BY <1>2, <2>1, <2>3, <3>1, Typed, StackTermSafe DEF Copy, Open, Running
  <2> QED BY <2>2, <2>3
<1> QED BY <1>1, <1>2

LEMMA ReorderSafe ==
  ASSUME SafetyInv, NEW k \in 2..3, Reorder(k)
  PROVE  SafetyInv'
<1>1. CASE Len(stack) < k
  BY <1>1, RejectSafe DEF Reorder
<1>2. CASE ~(Len(stack) < k)
  <2>1. k <= Len(stack) /\ Rotate(stack, k) \in Seq(Types)
    <3>1. k <= Len(stack) /\ stack \in Seq(Types)
      BY <1>2, Typed
    <3> QED BY <3>1, RotateProps
  <2>2. CASE mode = "run"
    <3>1. /\ Sync(Rotate(vals, k), env, Rotate(stack, k), moves)
          /\ Rotate(vals, k) \in Seq(Nat) /\ k <= Len(vals)
      BY <2>1, <2>2, Typed, SyncRotate
    <3>2. vals' = Rotate(vals, k)
      BY <1>2, <2>2 DEF Reorder, Running
    <3>3. Custody'
      BY <1>2, <3>1, <3>2, Typed, CustodyReorder DEF Reorder
    <3> QED BY <1>2, <2>1, <2>2, <3>1, <3>2, <3>3, Typed, StackTermSafe DEF Reorder, Open
  <2>3. CASE mode # "run"
    <3>1. Custody'
      BY <1>2, <2>3, Typed, CustodyKept DEF Reorder, Running
    <3> QED BY <1>2, <2>1, <2>3, <3>1, Typed, StackTermSafe DEF Reorder, Open, Running
  <2> QED BY <2>2, <2>3
<1> QED BY <1>1, <1>2

LEMMA BindSafe ==
  ASSUME SafetyInv, NEW n \in Names, Bind(n)
  PROVE  SafetyInv'
<1>1. CASE level[n] # 0 \/ Len(stack) = 0
  BY <1>1, RejectSafe DEF Bind
<1>2. CASE ~(level[n] # 0 \/ Len(stack) = 0)
  <2> DEFINE m2 == IF Top(stack) = "linear" THEN "live" ELSE "absent"
  <2>1. /\ level[n] = 0 /\ Len(stack) # 0 /\ moves[n] = "absent"
        /\ stack' = Pop(stack)
        /\ level' = [level EXCEPT ![n] = Depth + 1]
        /\ moves' = [moves EXCEPT ![n] = m2]
        /\ UNCHANGED <<status, effect, frames, tailed, mode, skipped, alive, made, fault>>
    BY <1>2 DEF Bind, SafetyInv, Scoped, SameRun
  <2>2. Pop(stack) \in Seq(Types) /\ Depth \in Nat /\ Depth = Len(frames)
    BY <2>1, Typed, PopProps, MovesTyped DEF Depth
  <2>3. /\ \A n2 \in Names : level'[n2] = IF n2 = n THEN Depth + 1 ELSE level[n2]
        /\ \A n2 \in Names : moves'[n2] = IF n2 = n THEN m2 ELSE moves[n2]
        /\ level' \in [Names -> Nat] /\ moves' \in [Names -> MoveStates]
    BY <2>1, <2>2, Typed DEF MoveStates
  <2>4. Scoped'
    BY <2>2, <2>3 DEF SafetyInv, Scoped
  <2>5. Domains'
    <3>1. \A n2 \in Names : level'[n2] <= Len(frames') + 1
      BY <2>1, <2>2, <2>3 DEF SafetyInv, Domains
    <3>2. \A k \in 1..Len(frames), n2 \in Names :
            (moves'[n2] = "absent" \/ level'[n2] > k) <=> (moves[n2] = "absent" \/ level[n2] > k)
      BY <2>1, <2>2, <2>3
    <3>3. frames' = frames
      BY <2>1
    <3> QED BY <3>1, <3>2, <3>3 DEF SafetyInv, Domains
  <2>6. CASE mode = "run"
    <3>1. env' = [env EXCEPT ![n] = Top(vals)] /\ vals' = Pop(vals)
      BY <1>2, <2>6 DEF Bind, Running
    <3>2. /\ Sync(Pop(vals), env, Pop(stack), moves)
          /\ Pop(vals) \in Seq(Nat) /\ Len(vals) # 0 /\ Top(vals) \in Nat
          /\ (Top(stack) = "linear") <=> (Top(vals) # 0)
      BY <2>1, <2>6, Typed, SyncPop
    <3>3. \A n2 \in Names : env'[n2] = IF n2 = n THEN Top(vals) ELSE env[n2]
      BY <3>1, Typed
    <3>4. env[n] = 0
      BY <2>1, <2>6, Typed DEF Sync
    <3>5. Custody'
      BY <2>1, <3>1, <3>2, <3>4, Typed, CustodyBind
    <3>6. Sync(vals', env', stack', moves')
      BY <2>1, <2>3, <3>1, <3>2, <3>3 DEF Sync
    <3>7. env' \in [Names -> Nat]
      BY <3>1, <3>2, Typed
    <3>8. TypeOK'
      BY <2>1, <2>2, <2>3, <3>1, <3>2, <3>7, Typed DEF TypeOK
    <3> QED BY <1>2, <2>1, <2>4, <2>5, <2>6, <3>5, <3>6, <3>8, TermSafe DEF Bind, Open
  <2>7. CASE mode # "run"
    <3>1. UNCHANGED <<env, vals>>
      BY <1>2, <2>7 DEF Bind, Running
    <3>2. Custody'
      BY <2>1, <3>1, Typed, CustodyKept
    <3>3. TypeOK'
      BY <2>1, <2>2, <2>3, <3>1, Typed DEF TypeOK
    <3> QED BY <1>2, <2>1, <2>4, <2>5, <2>7, <3>1, <3>2, <3>3, TermSafe DEF Bind, Open
  <2> QED BY <2>6, <2>7
<1> QED BY <1>1, <1>2

LEMMA NameSafe ==
  ASSUME SafetyInv, NEW n \in Names, Name(n)
  PROVE  SafetyInv'
<1>1. CASE ~Takeable(moves, n)
  BY <1>1, RejectSafe DEF Name
<1>2. CASE Takeable(moves, n)
  <2> DEFINE t == IF moves[n] = "absent" THEN "copy" ELSE "linear"
  <2>1. /\ moves[n] \in {"absent", "live"}
        /\ moves' = Take(moves, n) /\ stack' = Append(stack, t)
        /\ UNCHANGED <<status, effect, level, frames, tailed, mode, skipped, alive, made>>
    BY <1>2 DEF Name, Takeable, SameBlocks, SameRun
  <2>2. /\ \A n2 \in Names : moves'[n2] = IF n2 = n /\ moves[n] = "live" THEN "moved" ELSE moves[n2]
        /\ moves' \in [Names -> MoveStates]
        /\ stack' \in Seq(Types)
        /\ t \in Types
    <3>1. t \in Types /\ stack' \in Seq(Types)
      BY <2>1, Typed
    <3>2. moves' \in [Names -> MoveStates]
      BY <2>1, Typed, MovesTyped
    <3>3. moves \in [Names -> MoveStates] /\ moves' = [moves EXCEPT ![n] = IF @ = "live" THEN "moved" ELSE @]
      BY <2>1, Typed DEF Take
    <3> QED BY <3>1, <3>2, <3>3
  <2>3. Scoped' /\ Domains'
    <3>1. \A n2 \in Names : moves'[n2] = "absent" <=> moves[n2] = "absent"
      BY <2>2
    <3> QED BY <2>1, <3>1 DEF SafetyInv, Scoped, Domains
  <2>4. CASE mode = "run"
    <3>1. /\ vals' = Append(vals, env[n])
          /\ env' = [env EXCEPT ![n] = 0]
          /\ fault' = (fault \/ (moves[n] # "absent" /\ env[n] \notin alive))
      BY <1>2, <2>4 DEF Name, Running
    <3>2. (t = "linear") <=> (env[n] # 0)
      BY <2>1, <2>4, Typed DEF Sync
    <3>3. env[n] \in Nat /\ Append(vals, env[n]) \in Seq(Nat)
      BY Typed
    <3>4. fault' = FALSE
      BY <3>1, <3>2, Typed DEF Custody
    <3>5. Custody'
      BY <2>1, <3>1, <3>4, Typed, CustodyName
    <3>6. Sync(vals', env, stack', moves)
      BY <2>1, <2>2, <2>4, <3>1, <3>2, <3>3, Typed, SyncPush
    <3>7. \A n2 \in Names : env'[n2] = IF n2 = n THEN 0 ELSE env[n2]
      BY <3>1, Typed
    <3>8. Sync(vals', env', stack', moves')
      BY <2>1, <2>2, <3>6, <3>7 DEF Sync
    <3>9. TypeOK'
      <4>1. env' \in [Names -> Nat]
        BY <3>1, Typed
      <4> QED BY <2>1, <2>2, <3>1, <3>3, <3>4, <4>1, Typed DEF TypeOK
    <3> QED BY <1>2, <2>1, <2>3, <2>4, <3>5, <3>8, <3>9, TermSafe DEF Name, Open
  <2>5. CASE mode # "run"
    <3>1. UNCHANGED <<env, vals, fault>>
      BY <1>2, <2>5 DEF Name, Running
    <3>2. Custody'
      BY <2>1, <3>1, Typed, CustodyKept
    <3>3. TypeOK'
      BY <2>1, <2>2, <3>1, Typed DEF TypeOK
    <3> QED BY <1>2, <2>1, <2>3, <2>5, <3>1, <3>2, <3>3, TermSafe DEF Name, Open
  <2> QED BY <2>4, <2>5
<1> QED BY <1>1, <1>2

-----------------------------------------------------------------------------
(* Every step preserves the invariant: blocks.                             *)

\* a block opens on the stack st
LEMMA OpenSafe ==
  ASSUME SafetyInv, Walking, NEW st \in Seq(Types), NEW arms \in Nat, NEW pick \in 1..arms,
         OpenArms(st, arms, pick), vals' \in Seq(Nat), Custody',
         mode = "run" => Sync(vals', env, st, moves),
         mode # "run" => UNCHANGED vals
  PROVE  SafetyInv'
<1> DEFINE f == [stack |-> st, moves |-> moves, arms |-> arms, arm |-> 1, pick |-> pick,
                 base |-> << >>, joined |-> NoMoves, sealed |-> FALSE]
<1>1. /\ frames' = Append(frames, f) /\ stack' = st
      /\ mode' = IF mode = "run" /\ pick # 1 THEN "skip" ELSE mode
      /\ skipped' = IF mode = "run" /\ pick # 1 THEN Depth + 1 ELSE skipped
      /\ UNCHANGED <<status, effect, level, moves, tailed, env, alive, made, fault>>
  BY DEF OpenArms, Running
<1>2. frames \in Seq(Frames) /\ Depth = Len(frames) /\ Depth \in Nat
  BY DEF SafetyInv, TypeOK, Depth
<1>3. f \in Frames
  BY Typed, MovesTyped DEF Frames
<1>4. /\ frames' \in Seq(Frames)
      /\ Len(frames') = Depth + 1
      /\ \A k \in 1..(Depth + 1) : frames'[k] = IF k = Depth + 1 THEN f ELSE frames[k]
  BY <1>1, <1>2, <1>3
<1>5. /\ f.stack = st /\ f.moves = moves /\ f.arms = arms /\ f.arm = 1 /\ f.pick = pick
      /\ frames'[Depth + 1] = f
      /\ \A k \in 1..Depth : k \in 1..Len(frames) /\ frames'[k] = frames[k]
  <2> HIDE DEF f
  <2>1. frames'[Depth + 1] = f
    <3>1. Depth + 1 \in 1..(Depth + 1)
      BY <1>2
    <3> QED BY <1>4, <3>1
  <2>2. ASSUME NEW k \in 1..Depth
        PROVE  k \in 1..Len(frames) /\ frames'[k] = frames[k]
    <3>1. k \in 1..(Depth + 1) /\ k # Depth + 1 /\ k \in 1..Len(frames)
      BY <1>2
    <3> QED BY <1>4, <3>1
  <2>3. f = [stack |-> st, moves |-> moves, arms |-> arms, arm |-> 1, pick |-> pick,
             base |-> << >>, joined |-> NoMoves, sealed |-> FALSE]
    BY DEF f
  <2> QED BY <2>1, <2>2, <2>3
<1>6. TypeOK'
  BY <1>1, <1>2, <1>4 DEF SafetyInv, TypeOK
<1>7. FramesOK'
  <2>1. ASSUME NEW k \in 1..Len(frames')
        PROVE  frames'[k].arm \in 1..frames'[k].arms /\ frames'[k].pick \in 1..frames'[k].arms
    <3>1. CASE k = Depth + 1
      BY <1>5, <3>1
    <3>2. CASE k # Depth + 1
      BY <1>2, <1>4, <1>5, <2>1, <3>2 DEF SafetyInv, FramesOK
    <3> QED BY <3>1, <3>2
  <2> QED BY <2>1 DEF FramesOK
<1>8. RunsInSync'
  <2> SUFFICES ASSUME mode' = "run"
               PROVE  /\ Sync(vals', env', stack', moves')
                      /\ \A k \in 1..Len(frames') : frames'[k].arm = frames'[k].pick
    BY DEF RunsInSync
  <2>1. mode = "run" /\ pick = 1
    BY <1>1
  <2>2. \A k \in 1..Len(frames') : frames'[k].arm = frames'[k].pick
    BY <1>2, <1>4, <1>5, <2>1 DEF SafetyInv, RunsInSync
  <2> QED BY <1>1, <2>1, <2>2
<1>9. SkipsInSync'
  <2> SUFFICES ASSUME mode' = "skip"
               PROVE  SkipsInSync'
    BY DEF SkipsInSync
  <2>1. CASE mode = "run"
    <3>1. pick # 1 /\ skipped' = Depth + 1
      BY <1>1, <2>1
    <3>2. /\ frames'[skipped'] = f /\ f.arm < f.pick
          /\ skipped' \in 1..Len(frames')
      BY <1>2, <1>4, <1>5, <3>1
    <3>3. \A k \in 1..(skipped' - 1) : frames'[k].arm = frames'[k].pick
      BY <1>2, <1>5, <2>1, <3>1 DEF SafetyInv, RunsInSync
    <3>4. Sync(vals', env', f.stack, f.moves)
      BY <1>1, <1>5, <2>1
    <3>5. f.arm # f.pick /\ ~(f.arm > f.pick)
      BY <1>5, <3>1
    <3> QED BY <3>2, <3>3, <3>4, <3>5 DEF SkipsInSync
  <2>2. CASE mode # "run"
    <3>1. mode = "skip" /\ UNCHANGED <<mode, skipped, vals, env>>
      BY <1>1, <2>2
    <3>2. skipped \in 1..Depth /\ skipped' \in 1..Len(frames')
      BY <1>2, <1>4, <3>1 DEF SafetyInv, SkipsInSync
    <3>3. \A k \in 1..skipped : frames'[k] = frames[k]
      BY <1>2, <1>5, <3>2
    <3>4. frames'[skipped] = frames[skipped]
      BY <1>5, <3>2
    <3>5. \A k \in 1..(skipped - 1) : frames'[k].arm = frames'[k].pick
      BY <1>2, <3>1, <3>2, <3>3 DEF SafetyInv, SkipsInSync
    <3> QED BY <3>1, <3>2, <3>4, <3>5 DEF SafetyInv, SkipsInSync
  <2> QED BY <2>1, <2>2
<1>10. Verdict' /\ Scoped'
  BY <1>1 DEF SafetyInv, Verdict, Scoped, Walking
<1>11. Domains'
  <2>1. \A n \in Names : level[n] \in Nat /\ level[n] <= Depth + 1
    BY <1>2, Typed DEF SafetyInv, Domains
  <2>2. ASSUME NEW k \in 1..Len(frames'), NEW n \in Names
        PROVE  /\ (frames'[k].moves[n] = "absent" <=> (moves[n] = "absent" \/ level[n] > k))
               /\ (frames'[k].arm > 1 =>
                     (frames'[k].joined[n] = "absent" <=> (moves[n] = "absent" \/ level[n] > k)))
    <3>1. CASE k = Depth + 1
      BY <1>2, <1>5, <2>1, <3>1
    <3>2. CASE k # Depth + 1
      <4>1. k \in 1..Len(frames) /\ frames'[k] = frames[k]
        BY <1>2, <1>4, <1>5, <3>2
      <4> QED BY <4>1 DEF SafetyInv, Domains
    <3> QED BY <3>1, <3>2
  <2> QED BY <1>1, <1>2, <1>4, <2>1, <2>2 DEF Domains
<1> QED BY <1>6, <1>7, <1>8, <1>9, <1>10, <1>11 DEF SafetyInv

LEMMA BranchSafe ==
  ASSUME SafetyInv, NEW pick \in 1..2, Branch(pick)
  PROVE  SafetyInv'
<1>1. CASE Len(stack) = 0 \/ Top(stack) # "copy"
  BY <1>1, RejectSafe DEF Branch
<1>2. CASE ~(Len(stack) = 0 \/ Top(stack) # "copy")
  <2>1. Pop(stack) \in Seq(Types) /\ OpenArms(Pop(stack), 2, pick) /\ Walking
    BY <1>2, Typed, PopProps DEF Branch, Open
  <2>2. CASE mode = "run"
    <3>1. vals' = Pop(vals)
      BY <1>2, <2>2 DEF Branch, Running
    <3>2. /\ Sync(Pop(vals), env, Pop(stack), moves)
          /\ Pop(vals) \in Seq(Nat) /\ Len(vals) # 0 /\ Top(vals) = 0
      BY <1>2, <2>2, Typed, SyncPop
    <3>3. Custody'
      BY <2>1, <3>1, <3>2, Typed, CustodyForget DEF OpenArms
    <3> QED BY <2>1, <2>2, <3>1, <3>2, <3>3, OpenSafe
  <2>3. CASE mode # "run"
    <3>1. UNCHANGED vals
      BY <1>2, <2>3 DEF Branch, Running
    <3>2. Custody'
      BY <2>1, <3>1, Typed, CustodyKept DEF OpenArms
    <3> QED BY <2>1, <2>3, <3>1, <3>2, Typed, OpenSafe
  <2> QED BY <2>2, <2>3
<1> QED BY <1>1, <1>2

LEMMA EliminateSafe ==
  ASSUME SafetyInv, NEW arms \in Nat, NEW pick \in 1..arms, Eliminate(arms, pick)
  PROVE  SafetyInv'
<1>1. OpenArms(stack, arms, pick) /\ Walking /\ UNCHANGED vals
  BY DEF Eliminate, Open
<1>2. Custody'
  BY <1>1, Typed, CustodyKept DEF OpenArms
<1> QED BY <1>1, <1>2, Typed, OpenSafe

\* what holds where an arm ends without a leak and agrees with the others
LEMMA ArmEnd ==
  ASSUME SafetyInv, Depth > 0, Leaks(Depth) = {}, ~ArmsDisagree
  PROVE  /\ (LeaveEnv => UNCHANGED env)
         /\ (mode = "run" => Sync(vals, env, JoinedStack, JoinedMoves))
         /\ (mode = "skip" /\ skipped = Depth /\ Frame.arm > Frame.pick =>
               Sync(vals, env, JoinedStack, JoinedMoves))
         /\ \A n \in Names : Frame.moves[n] = "absent" <=> (moves[n] = "absent" \/ level[n] > Depth)
         /\ \A n \in Names : JoinedMoves[n] = "absent" <=> (moves[n] = "absent" \/ level[n] > Depth)
         /\ \A n \in Names : LeaveLevel(Depth)[n] = IF level[n] > Depth THEN 0 ELSE level[n]
<1>1. /\ Depth \in Nat /\ Depth = Len(frames) /\ Depth \in 1..Len(frames)
      /\ Frame = frames[Depth] /\ Frame \in Frames
      /\ Frame.arm \in Nat /\ Frame.arm >= 1 /\ Frame.pick \in Nat /\ Frame.pick >= 1
  <2>1. /\ Depth \in Nat /\ Depth = Len(frames) /\ Depth \in 1..Len(frames)
        /\ Frame = frames[Depth] /\ Frame \in Frames
    BY Typed, MovesTyped DEF Depth, Frame
  <2> QED BY <2>1 DEF SafetyInv, FramesOK, Frames
<1>2. ASSUME LeaveEnv PROVE UNCHANGED env
  <2>1. CASE mode = "run"
    <3>1. \A n \in Names : level[n] > Depth => env[n] = 0
      BY <1>1, <2>1, Typed, LeaveSync
    <3>2. env' = [n \in Names |-> IF level[n] >= Depth + 1 THEN 0 ELSE env[n]]
      BY <1>2, <2>1 DEF LeaveEnv, Running
    <3>3. \A n \in Names : env'[n] = env[n]
      BY <1>1, <3>1, <3>2, Typed
    <3>4. env = [n \in Names |-> env[n]] /\ env' = [n \in Names |-> env'[n]]
      BY <3>2, Typed
    <3> QED BY <3>3, <3>4
  <2>2. CASE mode # "run"
    BY <1>2, <2>2 DEF LeaveEnv, Running
  <2> QED BY <2>1, <2>2
<1>3. ASSUME mode = "run" PROVE Sync(vals, env, JoinedStack, JoinedMoves)
  <2>1. Sync(vals, env, stack, ArmMoves)
    BY <1>1, <1>3, Typed, LeaveSync DEF ArmMoves
  <2>2. Sync(vals, env, stack, Join(Frame.joined, ArmMoves))
    BY <2>1, JoinSync
  <2>3. JoinedStack = stack
    BY <1>1 DEF JoinedStack, ArmsDisagree
  <2> QED BY <2>1, <2>2, <2>3 DEF JoinedMoves
<1>4. ASSUME mode = "skip", skipped = Depth, Frame.arm > Frame.pick
      PROVE  Sync(vals, env, JoinedStack, JoinedMoves)
  <2>1. Sync(vals, env, Frame.base, Frame.joined)
    BY <1>1, <1>4 DEF SafetyInv, SkipsInSync
  <2>2. Sync(vals, env, Frame.base, Join(Frame.joined, ArmMoves))
    BY <2>1, JoinSync
  <2>3. Frame.arm # 1
    BY <1>1, <1>4
  <2> QED BY <2>2, <2>3 DEF JoinedStack, JoinedMoves
<1>5. ASSUME NEW n \in Names
      PROVE  Frame.moves[n] = "absent" <=> (moves[n] = "absent" \/ level[n] > Depth)
  BY <1>1 DEF SafetyInv, Domains
<1>6. ASSUME NEW n \in Names
      PROVE  JoinedMoves[n] = "absent" <=> (moves[n] = "absent" \/ level[n] > Depth)
  <2>1. ArmMoves[n] = "absent" <=> (moves[n] = "absent" \/ level[n] > Depth)
    BY DEF ArmMoves, LeaveMoves
  <2>2. CASE Frame.arm = 1
    BY <2>1, <2>2 DEF JoinedMoves
  <2>3. CASE Frame.arm # 1
    <3>1. Frame.joined[n] = "absent" <=> (moves[n] = "absent" \/ level[n] > Depth)
      BY <1>1, <2>3 DEF SafetyInv, Domains
    <3>2. JoinedMoves[n] = IF Frame.joined[n] = ArmMoves[n] THEN Frame.joined[n] ELSE "maybe"
      BY <2>3 DEF JoinedMoves, Join, JoinState
    <3> QED BY <2>1, <3>1, <3>2
  <2> QED BY <2>2, <2>3
<1>7. \A n \in Names : LeaveLevel(Depth)[n] = IF level[n] > Depth THEN 0 ELSE level[n]
  BY DEF LeaveLevel
<1> QED BY <1>2, <1>3, <1>4, <1>5, <1>6, <1>7

LEMMA NextArmSafe ==
  ASSUME SafetyInv, NextArm
  PROVE  SafetyInv'
<1>1. CASE Leaks(Depth) # {} \/ ArmsDisagree
  BY <1>1, RejectSafe DEF NextArm
<1>2. CASE ~(Leaks(Depth) # {} \/ ArmsDisagree)
  <2> DEFINE g == [Frame EXCEPT !.arm = @ + 1, !.base = JoinedStack, !.joined = JoinedMoves,
                                !.sealed = @ \/ tailed]
  <2>1. /\ Walking /\ Depth > 0 /\ Frame.arm < Frame.arms
        /\ Leaks(Depth) = {} /\ ~ArmsDisagree
        /\ stack' = Frame.stack /\ moves' = Frame.moves /\ level' = LeaveLevel(Depth)
        /\ tailed' = FALSE
        /\ LeaveEnv
        /\ mode' = IF mode = "run" THEN "skip"
                   ELSE IF mode = "skip" /\ skipped = Depth /\ Frame.arm + 1 = Frame.pick
                        THEN "run" ELSE mode
        /\ skipped' = IF mode = "run" THEN Depth ELSE skipped
        /\ UNCHANGED <<status, effect, vals, alive, made, fault>>
    BY <1>2 DEF NextArm, Running
  <2>2. /\ Depth \in Nat /\ Depth = Len(frames) /\ Depth \in 1..Len(frames)
        /\ Frame = frames[Depth] /\ Frame \in Frames /\ frames \in Seq(Frames)
        /\ JoinedMoves \in [Names -> MoveStates] /\ JoinedStack \in Seq(Types)
        /\ LeaveLevel(Depth) \in [Names -> Nat]
    BY <2>1, Typed, MovesTyped DEF TypeOK, Depth, Frame
  <2>3. /\ Frame.stack \in Seq(Types) /\ Frame.moves \in [Names -> MoveStates]
        /\ Frame.arm \in 1..Frame.arms /\ Frame.pick \in 1..Frame.arms /\ Frame.arms \in Nat
        /\ Frame.sealed \in BOOLEAN /\ tailed \in BOOLEAN
    BY <2>2 DEF SafetyInv, FramesOK, Frames, TypeOK
  <2>4. /\ g \in Frames
        /\ g.stack = Frame.stack /\ g.moves = Frame.moves /\ g.arms = Frame.arms
        /\ g.arm = Frame.arm + 1 /\ g.pick = Frame.pick
        /\ g.base = JoinedStack /\ g.joined = JoinedMoves
    <3>1. Frame \in Frames /\ Frame.arm + 1 \in Nat /\ (Frame.sealed \/ tailed) \in BOOLEAN
      BY <2>2, <2>3
    <3>2. /\ g.stack = Frame.stack /\ g.moves = Frame.moves /\ g.arms = Frame.arms
          /\ g.arm = Frame.arm + 1 /\ g.pick = Frame.pick
          /\ g.base = JoinedStack /\ g.joined = JoinedMoves
      BY <3>1 DEF Frames
    <3>3. g \in Frames
      BY <2>2, <3>1 DEF Frames
    <3> QED BY <3>2, <3>3
  <2>5. frames' = [frames EXCEPT ![Depth] = g]
    <3>1. frames' = [frames EXCEPT ![Depth].arm = @ + 1,
                                   ![Depth].base = JoinedStack,
                                   ![Depth].joined = JoinedMoves,
                                   ![Depth].sealed = @ \/ tailed]
      BY <1>2 DEF NextArm
    <3> QED BY <2>2, <3>1
  <2> HIDE DEF g
  <2>6. /\ frames' \in Seq(Frames) /\ Len(frames') = Depth
        /\ frames'[Depth] = g
        /\ \A k \in 1..Depth : k # Depth => frames'[k] = frames[k]
    <3>1. frames' \in Seq(Frames) /\ Len(frames') = Depth
      BY <2>2, <2>4, <2>5
    <3>2. \A k \in 1..Depth : frames'[k] = IF k = Depth THEN g ELSE frames[k]
      BY <2>2, <2>5
    <3>3. frames'[Depth] = g
      BY <2>2, <3>2
    <3> QED BY <3>1, <3>2, <3>3
  <2>7. /\ UNCHANGED env
        /\ (mode = "run" => Sync(vals, env, JoinedStack, JoinedMoves))
        /\ (mode = "skip" /\ skipped = Depth /\ Frame.arm > Frame.pick =>
              Sync(vals, env, JoinedStack, JoinedMoves))
        /\ \A n \in Names : Frame.moves[n] = "absent" <=> (moves[n] = "absent" \/ level[n] > Depth)
        /\ \A n \in Names : JoinedMoves[n] = "absent" <=> (moves[n] = "absent" \/ level[n] > Depth)
        /\ \A n \in Names : LeaveLevel(Depth)[n] = IF level[n] > Depth THEN 0 ELSE level[n]
    BY <2>1, ArmEnd
  <2>8. TypeOK'
    BY <2>1, <2>2, <2>3, <2>6, <2>7 DEF SafetyInv, TypeOK
  <2>9. Custody'
    BY <2>1, <2>7, Typed, CustodyKept
  <2>10. FramesOK'
    <3>1. ASSUME NEW k \in 1..Len(frames')
          PROVE  frames'[k].arm \in 1..frames'[k].arms /\ frames'[k].pick \in 1..frames'[k].arms
      <4>1. CASE k = Depth
        BY <2>1, <2>3, <2>4, <2>6, <4>1
      <4>2. CASE k # Depth
        BY <2>2, <2>6, <3>1, <4>2 DEF SafetyInv, FramesOK
      <4> QED BY <4>1, <4>2
    <3> QED BY <3>1 DEF FramesOK
  <2>11. RunsInSync'
    <3> SUFFICES ASSUME mode' = "run"
                 PROVE  RunsInSync'
      BY DEF RunsInSync
    <3>1. mode = "skip" /\ skipped = Depth /\ Frame.arm + 1 = Frame.pick
      BY <2>1
    <3>2. Sync(vals, env, Frame.stack, Frame.moves)
      BY <2>2, <2>3, <3>1 DEF SafetyInv, SkipsInSync
    <3>3. \A k \in 1..(Depth - 1) : frames[k].arm = frames[k].pick
      BY <3>1 DEF SafetyInv, SkipsInSync
    <3>4. \A k \in 1..Len(frames') : frames'[k].arm = frames'[k].pick
      BY <2>2, <2>4, <2>6, <3>1, <3>3
    <3> QED BY <2>1, <2>7, <3>2, <3>4 DEF RunsInSync
  <2>12. SkipsInSync'
    <3> SUFFICES ASSUME mode' = "skip"
                 PROVE  SkipsInSync'
      BY DEF SkipsInSync
    <3>1. CASE mode = "run"
      <4>1. \A k \in 1..Len(frames) : frames[k].arm = frames[k].pick
        BY <3>1 DEF SafetyInv, RunsInSync
      <4>2. Frame.arm = Frame.pick /\ g.arm > g.pick /\ skipped' = Depth
        BY <2>1, <2>2, <2>3, <2>4, <3>1, <4>1
      <4>3. \A k \in 1..(Depth - 1) : frames'[k].arm = frames'[k].pick
        BY <2>2, <2>6, <4>1
      <4>4. Sync(vals', env', g.base, g.joined)
        BY <2>1, <2>4, <2>7, <3>1
      <4>5. g.arm # g.pick /\ ~(g.arm < g.pick) /\ skipped' \in 1..Len(frames')
        BY <2>2, <2>3, <2>4, <2>6, <4>2
      <4> QED BY <2>6, <4>2, <4>3, <4>4, <4>5 DEF SkipsInSync
    <3>2. CASE mode = "skip" /\ skipped # Depth
      <4>1. /\ skipped \in 1..Len(frames) /\ skipped' = skipped
            /\ frames'[skipped] = frames[skipped]
            /\ \A k \in 1..(skipped - 1) : frames'[k] = frames[k]
            /\ skipped \in 1..Len(frames')
        <5>1. skipped \in 1..Len(frames) /\ skipped' = skipped
          BY <2>1, <3>2 DEF SafetyInv, SkipsInSync
        <5> QED BY <2>2, <2>6, <3>2, <5>1
      <4> QED BY <2>1, <2>7, <3>2, <4>1 DEF SafetyInv, SkipsInSync
    <3>3. CASE mode = "skip" /\ skipped = Depth
      <4>1. /\ Frame.arm + 1 # Frame.pick /\ Frame.arm # Frame.pick
            /\ (Frame.arm < Frame.pick => Sync(vals, env, Frame.stack, Frame.moves))
            /\ skipped' = Depth /\ Depth \in 1..Len(frames')
            /\ \A k \in 1..(Depth - 1) : frames[k].arm = frames[k].pick
        BY <2>1, <2>2, <2>6, <3>3 DEF SafetyInv, SkipsInSync
      <4>2. \A k \in 1..(Depth - 1) : frames'[k].arm = frames'[k].pick
        BY <2>2, <2>6, <4>1
      <4>3. g.arm # g.pick
        BY <2>4, <4>1
      <4>4. ASSUME g.arm < g.pick PROVE Sync(vals', env', g.stack, g.moves)
        BY <2>1, <2>3, <2>4, <2>7, <4>1, <4>4
      <4>5. ASSUME g.arm > g.pick PROVE Sync(vals', env', g.base, g.joined)
        BY <2>1, <2>3, <2>4, <2>7, <3>3, <4>1, <4>5
      <4> QED BY <2>6, <4>1, <4>2, <4>3, <4>4, <4>5 DEF SkipsInSync
    <3>4. mode # "run" => mode = "skip"
      BY <2>1
    <3> QED BY <3>1, <3>2, <3>3, <3>4
  <2>13. Verdict' /\ Scoped'
    <3>1. Verdict'
      BY <2>1 DEF Verdict, Walking
    <3>2. ASSUME NEW n \in Names, level'[n] = 0 PROVE moves'[n] = "absent"
      <4>1. level[n] = 0 \/ level[n] > Depth
        BY <2>1, <2>7, <3>2
      <4> QED BY <2>1, <2>7, <4>1 DEF SafetyInv, Scoped
    <3> QED BY <3>1, <3>2 DEF Scoped
  <2>14. Domains'
    <3>1. \A n \in Names : level[n] \in Nat /\ level[n] <= Depth + 1
      BY <2>2, Typed DEF SafetyInv, Domains
    <3>2. \A n \in Names : level'[n] \in Nat /\ level'[n] <= Depth
      BY <2>1, <2>2, <2>7, <3>1
    <3>3. ASSUME NEW k \in 1..Depth, NEW n \in Names
          PROVE  (moves'[n] = "absent" \/ level'[n] > k) <=> (moves[n] = "absent" \/ level[n] > k)
      BY <2>1, <2>2, <2>7, <3>1
    <3>4. ASSUME NEW k \in 1..Len(frames'), NEW n \in Names
          PROVE  /\ (frames'[k].moves[n] = "absent" <=> (moves'[n] = "absent" \/ level'[n] > k))
                 /\ (frames'[k].arm > 1 =>
                       (frames'[k].joined[n] = "absent" <=> (moves'[n] = "absent" \/ level'[n] > k)))
      <4>1. CASE k = Depth
        BY <2>4, <2>6, <2>7, <3>3, <4>1
      <4>2. CASE k # Depth
        <5>1. k \in 1..Len(frames) /\ frames'[k] = frames[k] /\ k \in 1..Depth
          BY <2>2, <2>6, <3>4, <4>2
        <5> QED BY <3>3, <5>1 DEF SafetyInv, Domains
      <4> QED BY <4>1, <4>2
    <3>5. \A n \in Names : level'[n] <= Len(frames') + 1
      BY <2>2, <2>6, <3>2
    <3> QED BY <3>4, <3>5 DEF Domains
  <2> QED BY <2>8, <2>9, <2>10, <2>11, <2>12, <2>13, <2>14 DEF SafetyInv
<1> QED BY <1>1, <1>2

LEMMA CloseSafe ==
  ASSUME SafetyInv, Close
  PROVE  SafetyInv'
<1>1. CASE Leaks(Depth) # {} \/ ArmsDisagree
  BY <1>1, RejectSafe DEF Close
<1>2. CASE ~(Leaks(Depth) # {} \/ ArmsDisagree)
  <2>1. /\ Walking /\ Depth > 0 /\ Frame.arm = Frame.arms
        /\ Leaks(Depth) = {} /\ ~ArmsDisagree
        /\ frames' = SubSeq(frames, 1, Depth - 1)
        /\ stack' = JoinedStack /\ moves' = JoinedMoves /\ level' = LeaveLevel(Depth)
        /\ tailed' = (tailed \/ Frame.sealed)
        /\ LeaveEnv
        /\ mode' = IF mode = "skip" /\ skipped = Depth THEN "run" ELSE mode
        /\ UNCHANGED <<status, effect, skipped, vals, alive, made, fault>>
    BY <1>2 DEF Close
  <2>2. /\ Depth \in Nat /\ Depth = Len(frames) /\ Depth \in 1..Len(frames)
        /\ Frame = frames[Depth] /\ Frame \in Frames /\ frames \in Seq(Frames)
        /\ JoinedMoves \in [Names -> MoveStates] /\ JoinedStack \in Seq(Types)
        /\ LeaveLevel(Depth) \in [Names -> Nat]
    BY <2>1, Typed, MovesTyped DEF TypeOK, Depth, Frame
  <2>3. /\ Frame.arm \in 1..Frame.arms /\ Frame.pick \in 1..Frame.arms /\ Frame.arms \in Nat
        /\ Frame.sealed \in BOOLEAN /\ tailed \in BOOLEAN
    BY <2>2 DEF SafetyInv, FramesOK, Frames, TypeOK
  <2>4. /\ frames' \in Seq(Frames) /\ Len(frames') = Depth - 1
        /\ \A k \in 1..(Depth - 1) : frames'[k] = frames[k]
    <3>0. Len(frames) \in Nat /\ Len(frames) # 0 /\ frames \in Seq(Frames)
      BY <2>1, <2>2
    <3>1. PICK m \in Nat : Len(frames) = m + 1
      BY <3>0
    <3>2. /\ SubSeq(frames, 1, m) \in Seq(Frames)
          /\ Len(SubSeq(frames, 1, m)) = m
          /\ \A k \in 1..m : SubSeq(frames, 1, m)[k] = frames[k]
      BY <3>0, <3>1
    <3>3. Depth - 1 = m
      BY <2>2, <3>1
    <3> QED BY <2>1, <3>2, <3>3
  <2>5. /\ UNCHANGED env
        /\ (mode = "run" => Sync(vals, env, JoinedStack, JoinedMoves))
        /\ (mode = "skip" /\ skipped = Depth /\ Frame.arm > Frame.pick =>
              Sync(vals, env, JoinedStack, JoinedMoves))
        /\ \A n \in Names : JoinedMoves[n] = "absent" <=> (moves[n] = "absent" \/ level[n] > Depth)
        /\ \A n \in Names : LeaveLevel(Depth)[n] = IF level[n] > Depth THEN 0 ELSE level[n]
    BY <2>1, ArmEnd
  <2>6. TypeOK'
    BY <2>1, <2>2, <2>3, <2>4, <2>5 DEF SafetyInv, TypeOK
  <2>7. Custody'
    BY <2>1, <2>5, Typed, CustodyKept
  <2>8. \A k \in 1..Len(frames') : k \in 1..Len(frames) /\ frames'[k] = frames[k]
    BY <2>2, <2>4
  <2>9. FramesOK'
    BY <2>8 DEF SafetyInv, FramesOK
  <2>10. RunsInSync'
    <3> SUFFICES ASSUME mode' = "run"
                 PROVE  RunsInSync'
      BY DEF RunsInSync
    <3>1. CASE mode = "run"
      <4>1. \A k \in 1..Len(frames) : frames[k].arm = frames[k].pick
        BY <3>1 DEF SafetyInv, RunsInSync
      <4> QED BY <2>1, <2>5, <2>8, <3>1, <4>1 DEF RunsInSync
    <3>2. CASE mode = "skip" /\ skipped = Depth
      <4>1. /\ Frame.arm # Frame.pick
            /\ \A k \in 1..(Depth - 1) : frames[k].arm = frames[k].pick
        BY <2>2, <3>2 DEF SafetyInv, SkipsInSync
      <4>2. Frame.arm > Frame.pick
        BY <2>1, <2>3, <4>1
      <4>3. \A k \in 1..Len(frames') : frames'[k].arm = frames'[k].pick
        BY <2>4, <2>8, <4>1
      <4> QED BY <2>1, <2>5, <3>2, <4>2, <4>3 DEF RunsInSync
    <3> QED BY <2>1, <3>1, <3>2
  <2>11. SkipsInSync'
    <3> SUFFICES ASSUME mode' = "skip"
                 PROVE  SkipsInSync'
      BY DEF SkipsInSync
    <3>1. mode = "skip" /\ skipped # Depth /\ skipped' = skipped
      BY <2>1
    <3>2. skipped \in 1..Len(frames)
      BY <3>1 DEF SafetyInv, SkipsInSync
    <3>3. /\ skipped \in 1..Len(frames')
          /\ frames'[skipped] = frames[skipped]
          /\ \A k \in 1..(skipped - 1) : frames'[k] = frames[k]
      BY <2>2, <2>4, <3>1, <3>2
    <3> QED BY <2>1, <2>5, <3>1, <3>3 DEF SafetyInv, SkipsInSync
  <2>12. \A n \in Names : level[n] \in Nat /\ level[n] <= Depth + 1
    BY <2>2, Typed DEF SafetyInv, Domains
  <2>13. Verdict' /\ Scoped'
    <3>1. Verdict'
      BY <2>1 DEF Verdict, Walking
    <3>2. ASSUME NEW n \in Names, level'[n] = 0 PROVE moves'[n] = "absent"
      <4>1. level[n] = 0 \/ level[n] > Depth
        BY <2>1, <2>5, <3>2
      <4> QED BY <2>1, <2>5, <4>1 DEF SafetyInv, Scoped
    <3> QED BY <3>1, <3>2 DEF Scoped
  <2>14. Domains'
    <3>1. ASSUME NEW k \in 1..(Depth - 1), NEW n \in Names
          PROVE  (moves'[n] = "absent" \/ level'[n] > k) <=> (moves[n] = "absent" \/ level[n] > k)
      BY <2>1, <2>2, <2>5, <2>12
    <3>2. ASSUME NEW k \in 1..Len(frames'), NEW n \in Names
          PROVE  /\ (frames'[k].moves[n] = "absent" <=> (moves'[n] = "absent" \/ level'[n] > k))
                 /\ (frames'[k].arm > 1 =>
                       (frames'[k].joined[n] = "absent" <=> (moves'[n] = "absent" \/ level'[n] > k)))
      <4>1. k \in 1..(Depth - 1) /\ k \in 1..Len(frames) /\ frames'[k] = frames[k]
        BY <2>4, <2>8
      <4> QED BY <3>1, <4>1 DEF SafetyInv, Domains
    <3>3. \A n \in Names : level'[n] <= Len(frames') + 1
      BY <2>1, <2>2, <2>4, <2>5, <2>12
    <3> QED BY <3>2, <3>3 DEF Domains
  <2> QED BY <2>6, <2>7, <2>9, <2>10, <2>11, <2>13, <2>14 DEF SafetyInv
<1> QED BY <1>1, <1>2

-----------------------------------------------------------------------------
(* Every step preserves the invariant: the ends of a body.                 *)

LEMMA BackEdgeSafe ==
  ASSUME SafetyInv, BackEdge
  PROVE  SafetyInv'
<1> DEFINE n == Len(effect.ins)
<1> DEFINE refused == Len(stack) < n \/ TopN(stack, n) # effect.ins \/ LinearAcrossEdge(n)
<1>1. CASE refused
  BY <1>1, RejectSafe DEF BackEdge
<1>2. CASE ~refused
  <2>1. /\ Walking
        /\ stack' = Below(stack, n) \o effect.outs
        /\ tailed' = TRUE
        /\ IF mode = "run"
           THEN mode' = "looped" /\ vals' = TopN(vals, n) /\ env' = [m \in Names |-> 0]
           ELSE UNCHANGED <<mode, vals, env>>
        /\ UNCHANGED <<status, effect, level, moves, frames, skipped, alive, made, fault>>
    BY <1>2 DEF BackEdge, Open, Running
  <2>2. n \in Nat /\ effect \in Effects /\ effect.outs \in Seq(Types) /\ n <= Len(stack)
    BY <1>2, EffectsAssumption, Typed DEF TypeOK
  <2>3. stack' \in Seq(Types)
    <3>1. Below(stack, n) \in Seq(Types)
      BY <2>2, Typed, CutProps
    <3> QED BY <2>1, <2>2, <3>1
  <2>4. Verdict' /\ Scoped' /\ Domains' /\ FramesOK'
    BY <2>1 DEF SafetyInv, Verdict, Walking, Scoped, Domains, FramesOK
  <2>5. RunsInSync'
    BY <2>1 DEF RunsInSync
  <2>6. SkipsInSync'
    BY <2>1 DEF SafetyInv, SkipsInSync
  <2>7. CASE mode = "run"
    <3>1. Len(vals) = Len(stack) /\ n <= Len(vals)
      BY <2>2, <2>7, Typed DEF Sync
    <3>2. TopN(vals, n) \in Seq(Nat)
      BY <2>2, <3>1, Typed, CutProps
    <3>3. \A i \in 1..(Len(vals) - n) : vals[i] = 0
      <4>1. ASSUME NEW i \in 1..(Len(vals) - n) PROVE vals[i] = 0
        <5>1. i \in 1..(Len(stack) - n) /\ i \in 1..Len(stack)
          BY <2>2, <3>1, Typed
        <5>2. stack[i] # "linear"
          BY <1>2, <5>1 DEF LinearAcrossEdge
        <5> QED BY <2>7, <5>1, <5>2, Typed DEF Sync
      <4> QED BY <4>1
    <3>4. \A m \in Names : env[m] = 0
      <4>1. Unconsumed(moves) = {}
        BY <1>2 DEF LinearAcrossEdge
      <4>2. \A m \in Names : moves[m] \notin {"live", "maybe"}
        BY <4>1 DEF Unconsumed
      <4> QED BY <2>7, <4>2, Typed DEF Sync
    <3>5. Custody'
      BY <2>1, <2>2, <2>7, <3>1, <3>3, <3>4, Typed, CustodyLoop
    <3>6. TypeOK'
      <4>1. env' \in [Names -> Nat]
        BY <2>1, <2>7
      <4> QED BY <2>1, <2>3, <2>7, <3>2, <4>1 DEF SafetyInv, TypeOK
    <3> QED BY <2>4, <2>5, <2>6, <3>5, <3>6 DEF SafetyInv
  <2>8. CASE mode # "run"
    <3>1. Custody'
      BY <2>1, <2>8, Typed, CustodyKept
    <3>2. TypeOK'
      BY <2>1, <2>3, <2>8 DEF SafetyInv, TypeOK
    <3> QED BY <2>4, <2>5, <2>6, <3>1, <3>2 DEF SafetyInv
  <2> QED BY <2>7, <2>8
<1> QED BY <1>1, <1>2

LEMMA FinishSafe ==
  ASSUME SafetyInv, Finish
  PROVE  SafetyInv'
<1>1. CASE stack # effect.outs \/ Leaks(0) # {}
  BY <1>1, RejectSafe DEF Finish, OutputsAgree
<1>2. CASE ~(stack # effect.outs \/ Leaks(0) # {})
  <2>1. /\ Depth = 0 /\ stack = effect.outs /\ Leaks(0) = {} /\ Len(frames) = 0
        /\ status' = "accepted" /\ level' = LeaveLevel(0) /\ moves' = LeaveMoves(0)
        /\ env' = IF mode = "run" THEN [m \in Names |-> 0] ELSE env
        /\ UNCHANGED <<effect, stack, frames, tailed, mode, skipped, vals, alive, made, fault>>
    BY <1>2 DEF Finish, OutputsAgree, Running, Depth
  <2>2. \A m \in Names : level'[m] = 0 /\ moves'[m] = "absent"
    <3>1. \A m \in Names : level[m] \in Nat
      BY Typed
    <3> QED BY <2>1, <3>1 DEF LeaveLevel, LeaveMoves, SafetyInv, Scoped
  <2>3. UNCHANGED env
    <3>1. CASE mode = "run"
      <4>1. \A m \in Names : level[m] > 0 => env[m] = 0
        <5>1. TypeOK /\ Sync(vals, env, stack, moves) /\ Leaks(0) = {} /\ 0 \in Nat
          BY <2>1, <3>1, Typed
        <5> QED BY <5>1, LeaveSync
      <4>2. \A m \in Names : level[m] = 0 => env[m] = 0
        BY <3>1, Typed DEF SafetyInv, Scoped, Sync
      <4>3. ASSUME NEW m \in Names PROVE env[m] = 0
        <5>1. level[m] = 0 \/ level[m] > 0
          BY Typed
        <5> QED BY <4>1, <4>2, <5>1
      <4> QED BY <2>1, <3>1, <4>3, Typed
    <3>2. CASE mode # "run"
      BY <2>1, <3>2
    <3> QED BY <3>1, <3>2
  <2>4. TypeOK'
    <3>1. level' \in [Names -> Nat] /\ moves' \in [Names -> MoveStates]
      BY <2>1, Typed, MovesTyped
    <3> QED BY <2>1, <2>3, <3>1 DEF SafetyInv, TypeOK
  <2>5. Custody'
    BY <2>1, <2>3, Typed, CustodyKept
  <2>6. FramesOK' /\ Verdict' /\ Scoped' /\ Domains'
    BY <2>1, <2>2 DEF FramesOK, Verdict, Scoped, Domains
  <2>7. RunsInSync'
    <3> SUFFICES ASSUME mode = "run"
                 PROVE  RunsInSync'
      BY <2>1 DEF RunsInSync
    <3>1. Sync(vals, env, stack, LeaveMoves(0))
      BY <2>1, Typed, LeaveSync
    <3> QED BY <2>1, <2>3, <3>1 DEF RunsInSync
  <2>8. SkipsInSync'
    BY <2>1 DEF SafetyInv, SkipsInSync
  <2> QED BY <2>4, <2>5, <2>6, <2>7, <2>8 DEF SafetyInv
<1> QED BY <1>1, <1>2

LEMMA StutterSafe ==
  ASSUME SafetyInv, UNCHANGED vars
  PROVE  SafetyInv'
<1> USE DEF vars, checker, machine
<1>1. TypeOK'
  BY DEF SafetyInv, TypeOK
<1>2. FramesOK' /\ Scoped' /\ Domains' /\ Verdict'
  BY DEF SafetyInv, FramesOK, Scoped, Domains, Verdict
<1>3. RunsInSync' /\ SkipsInSync'
  BY DEF SafetyInv, RunsInSync, SkipsInSync
<1>4. Custody'
  BY CustodyKept DEF SafetyInv
<1> QED BY <1>1, <1>2, <1>3, <1>4 DEF SafetyInv

LEMMA NextSafety == SafetyInv /\ [Next]_vars => SafetyInv'
<1> SUFFICES ASSUME SafetyInv, [Next]_vars
             PROVE  SafetyInv'
  OBVIOUS
<1>1. CASE Literal
  BY <1>1, LiteralSafe
<1>2. CASE Produce
  BY <1>2, ProduceSafe
<1>3. CASE Consume
  BY <1>3, ConsumeSafe
<1>4. CASE Drop
  BY <1>4, DropSafe
<1>5. ASSUME NEW k \in 1..2, Copy(k) PROVE SafetyInv'
  BY <1>5, CopySafe
<1>6. ASSUME NEW k \in 2..3, Reorder(k) PROVE SafetyInv'
  BY <1>6, ReorderSafe
<1>7. ASSUME NEW n \in Names, Bind(n) PROVE SafetyInv'
  BY <1>7, BindSafe
<1>8. ASSUME NEW n \in Names, Name(n) PROVE SafetyInv'
  BY <1>8, NameSafe
<1>9. ASSUME NEW pick \in 1..2, Branch(pick) PROVE SafetyInv'
  BY <1>9, BranchSafe
<1>10. ASSUME NEW arms \in 1..MaxArms, NEW pick \in 1..arms, Eliminate(arms, pick)
       PROVE  SafetyInv'
  BY <1>10, BoundsAssumption, EliminateSafe
<1>11. CASE NextArm
  BY <1>11, NextArmSafe
<1>12. CASE Close
  BY <1>12, CloseSafe
<1>13. CASE BackEdge
  BY <1>13, BackEdgeSafe
<1>14. CASE Finish
  BY <1>14, FinishSafe
<1>15. CASE UNCHANGED vars
  BY <1>15, StutterSafe
<1> QED
  BY <1>1, <1>2, <1>3, <1>4, <1>5, <1>6, <1>7, <1>8, <1>9, <1>10, <1>11, <1>12,
     <1>13, <1>14, <1>15 DEF Next

-----------------------------------------------------------------------------
(* What holds of every walk and every execution.                           *)

\* The inductive invariant holds: an execution that runs is, value for
\* value, what the checker's stack and move-state say it is.
THEOREM Safety == Spec => []SafetyInv
BY InitSafety, NextSafety, PTL DEF Spec

\* Every variable keeps its type.
THEOREM TypeCorrectness == Spec => []TypeOK
<1>1. SafetyInv => TypeOK
  BY DEF SafetyInv
<1> QED BY <1>1, Safety, PTL

\* A body the checker has walked so far has no execution that uses a value
\* it gave away (Moves::take and Moves::join of check/engine.rs).
THEOREM UseAfterMoveRefused == Spec => []NoUseAfterMove
<1>1. SafetyInv => NoUseAfterMove
  BY DEF SafetyInv, Custody, NoUseAfterMove
<1> QED BY <1>1, Safety, PTL

\* What is alive is held: the block ends, the back-edge check and the end of
\* the body refuse every way of losing a linear value.
THEOREM NothingLeaks == Spec => []NoLeak
<1>1. SafetyInv => NoLeak
  <2> SUFFICES ASSUME SafetyInv PROVE alive = Held
    BY DEF NoLeak
  <2>1. ASSUME NEW r \in alive PROVE r \in Held
    <3>1. r # 0
      BY DEF SafetyInv, Custody, TypeOK
    <3>2. \/ \E i \in 1..Len(vals) : vals[i] = r
          \/ \E n \in Names : env[n] = r
      BY DEF SafetyInv, Custody
    <3> QED BY <3>1, <3>2 DEF Held
  <2>2. ASSUME NEW r \in Held PROVE r \in alive
    BY DEF SafetyInv, Custody, Held
  <2> QED BY <2>1, <2>2
<1> QED BY <1>1, Safety, PTL

\* No two places hold one linear value.
THEOREM HoldersAreUnique == Spec => []UniqueHolder
<1>1. SafetyInv => UniqueHolder
  BY DEF SafetyInv, Custody
<1> QED BY <1>1, Safety, PTL

\* An accepted body returns what it declares and nothing else stays alive.
THEOREM AcceptanceIsSound == Spec => []AcceptedReturnsAll
<1>1. SafetyInv => AcceptedReturnsAll
  <2> SUFFICES ASSUME SafetyInv, status = "accepted", mode = "run"
               PROVE  /\ Len(vals) = Len(effect.outs)
                      /\ \A i \in 1..Len(vals) : vals[i] # 0 <=> effect.outs[i] = "linear"
                      /\ alive = {vals[i] : i \in 1..Len(vals)} \ {0}
    BY DEF AcceptedReturnsAll
  <2>1. Sync(vals, env, stack, moves) /\ stack = effect.outs /\ \A n \in Names : moves[n] = "absent"
    BY DEF SafetyInv, RunsInSync, Verdict
  <2>2. Len(vals) = Len(effect.outs)
    BY <2>1 DEF Sync
  <2>3. \A i \in 1..Len(vals) : vals[i] # 0 <=> effect.outs[i] = "linear"
    BY <2>1, <2>2 DEF Sync
  <2>4. \A n \in Names : env[n] = 0
    BY <2>1 DEF Sync
  <2>5. ASSUME NEW r \in alive PROVE r # 0 /\ \E i \in 1..Len(vals) : vals[i] = r
    <3>1. r # 0
      BY DEF SafetyInv, Custody, TypeOK
    <3> QED BY <2>4, <3>1 DEF SafetyInv, Custody
  <2>6. \A i \in 1..Len(vals) : vals[i] # 0 => vals[i] \in alive
    BY DEF SafetyInv, Custody
  <2>7. alive = {vals[i] : i \in 1..Len(vals)} \ {0}
    BY <2>5, <2>6
  <2> QED BY <2>2, <2>3, <2>7
<1> QED BY <1>1, Safety, PTL

\* Where two arms are joined, their move-states speak of the same names.
THEOREM JoinIsTotal == Spec => []JoinTotal
<1>1. SafetyInv => JoinTotal
  <2> SUFFICES ASSUME SafetyInv, Depth > 0, Frame.arm > 1, NEW n \in Names
               PROVE  Frame.joined[n] = "absent" <=> ArmMoves[n] = "absent"
    BY DEF JoinTotal
  <2>1. Depth \in 1..Len(frames) /\ Frame = frames[Depth]
    BY Typed, MovesTyped DEF Depth, Frame
  <2>2. Frame.joined[n] = "absent" <=> (moves[n] = "absent" \/ level[n] > Depth)
    BY <2>1 DEF SafetyInv, Domains
  <2>3. ArmMoves[n] = "absent" <=> (moves[n] = "absent" \/ level[n] > Depth)
    BY DEF ArmMoves, LeaveMoves
  <2> QED BY <2>2, <2>3
<1> QED BY <1>1, Safety, PTL

-----------------------------------------------------------------------------
(* The executions of a walked body implement Ownership.                    *)

\* What a step does to the resources: nothing, or it makes the next one, or
\* it disposes of a value.
Effectless == alive' = alive /\ made' = made
Makes == made' = made + 1 /\ alive' = alive \cup {made + 1}
DisposesOne == made' = made /\ \E v : alive' = alive \ {v}

\* only the end of the body lets an execution return, and it is the last step
LEMMA Classified ==
  ASSUME Next
  PROVE  /\ ~Returned
         /\ \/ ~Returned' /\ (Effectless \/ Makes \/ DisposesOne)
            \/ Returned' /\ Effectless
<1> USE DEF Effectless, Makes, DisposesOne, Returned
<1>1. CASE Reject /\ Walking
  BY <1>1 DEF Reject, machine, Walking
<1>2. CASE Literal
  BY <1>2 DEF Literal, Open, Walking, SameBlocks
<1>3. CASE Produce
  BY <1>3 DEF Produce, Open, Walking, SameBlocks
<1>4. CASE Consume
  BY <1>1, <1>4 DEF Consume, Open, Walking, SameBlocks, Dispose
<1>5. CASE Drop
  BY <1>1, <1>5 DEF Drop, Open, Walking, SameBlocks, Dispose
<1>6. ASSUME NEW k \in 1..2, Copy(k) PROVE ~Returned /\ ~Returned' /\ Effectless
  BY <1>1, <1>6 DEF Copy, Open, Walking, SameBlocks, Reject, machine
<1>7. ASSUME NEW k \in 2..3, Reorder(k) PROVE ~Returned /\ ~Returned' /\ Effectless
  BY <1>1, <1>7 DEF Reorder, Open, Walking, SameBlocks, Reject, machine
<1>8. ASSUME NEW n \in Names, Bind(n) PROVE ~Returned /\ ~Returned' /\ Effectless
  BY <1>8 DEF Bind, Open, Walking, SameRun, Reject, machine
<1>9. ASSUME NEW n \in Names, Name(n) PROVE ~Returned /\ ~Returned' /\ Effectless
  BY <1>9 DEF Name, Open, Walking, SameBlocks, Reject, machine
<1>10. ASSUME NEW pick \in 1..2, Branch(pick) PROVE ~Returned /\ ~Returned' /\ Effectless
  BY <1>10 DEF Branch, OpenArms, Open, Walking, Reject, machine
<1>11. ASSUME NEW arms \in 1..MaxArms, NEW pick \in 1..arms, Eliminate(arms, pick)
       PROVE  ~Returned /\ ~Returned' /\ Effectless
  BY <1>11 DEF Eliminate, OpenArms, Open, Walking
<1>12. CASE NextArm
  BY <1>12 DEF NextArm, Walking, Reject, machine
<1>13. CASE Close
  BY <1>13 DEF Close, Walking, Reject, machine
<1>14. CASE BackEdge
  BY <1>14 DEF BackEdge, Open, Walking, Reject, machine
<1>15. CASE Finish
  BY <1>15 DEF Finish, Walking, Reject, machine
<1> QED
  BY <1>2, <1>3, <1>4, <1>5, <1>6, <1>7, <1>8, <1>9, <1>10, <1>11, <1>12, <1>13,
     <1>14, <1>15 DEF Next

\* The walk keeps the contract: an execution of a body the checker lets
\* through creates, reaches, disposes of and delivers its resources as
\* Ownership says, for every body, effect and path.
THEOREM ContractIsKept == Spec => KeepsContract
<1> DEFINE Kept == SafetyInv /\ NoLeak /\ AcceptedReturnsAll
<1>1. ASSUME Init, NoLeak PROVE Contract!Init
  <2>1. Returned = FALSE /\ Delivered = {}
    BY <1>1 DEF Init, Returned, Delivered
  <2> QED BY <1>1, <2>1 DEF NoLeak, Spent, Contract!Init
<1>2. ASSUME Kept, Kept', [Next]_vars PROVE [Contract!Next]_(Contract!vars)
  <2>1. /\ Held = alive /\ Held' = alive'
        /\ \A r \in alive : r \in 1..made
        /\ made \in Nat
    BY <1>2 DEF NoLeak, SafetyInv, Custody, TypeOK
  <2>2. CASE UNCHANGED vars
    <3>1. UNCHANGED <<alive, Held, Spent, Delivered, Returned>>
      BY <2>2 DEF vars, checker, machine, Returned, Held, Spent, Delivered
    <3> QED BY <3>1 DEF Contract!vars
  <2>3. CASE Next /\ Returned'
    <3>1. ~Returned /\ Returned' = TRUE /\ alive' = alive /\ made' = made
      BY <2>3, Classified DEF Effectless, Returned
    <3>2. Delivered' = Held
      BY <1>2, <2>1, <3>1 DEF AcceptedReturnsAll, Returned, Delivered
    <3>3. Spent' = Spent /\ Held' = Held
      BY <2>1, <3>1 DEF Spent
    <3> QED BY <3>1, <3>2, <3>3 DEF Contract!Next, Contract!Return
  <2>4. CASE Next /\ ~Returned'
    <3>1. ~Returned /\ Returned' = Returned /\ Delivered' = Delivered
      BY <2>4, Classified DEF Returned, Delivered
    <3>2. CASE Effectless
      <4>1. Spent' = Spent /\ Held' = Held /\ alive' = alive
        BY <2>1, <3>2 DEF Effectless, Spent
      <4> QED BY <3>1, <4>1 DEF Contract!vars
    <3>3. CASE Makes
      <4> DEFINE r == made + 1
      <4>1. r \in alive' /\ r \notin alive /\ r \notin Spent
        BY <2>1, <3>3 DEF Makes, Spent
      <4>2. alive' = alive \cup {r} /\ Held' = Held \cup {r} /\ Spent' = Spent
        BY <2>1, <3>3 DEF Makes, Spent
      <4>3. Contract!Acquire
        BY <3>1, <4>1, <4>2 DEF Contract!Acquire
      <4> QED BY <3>1, <4>3 DEF Contract!Next
    <3>4. CASE DisposesOne
      <4>1. PICK v : made' = made /\ alive' = alive \ {v}
        BY <3>4 DEF DisposesOne
      <4>2. CASE v \notin alive
        <5>1. Spent' = Spent /\ Held' = Held /\ alive' = alive
          BY <2>1, <4>1, <4>2 DEF Spent
        <5> QED BY <3>1, <5>1 DEF Contract!vars
      <4>3. CASE v \in alive
        <5>1. Held' = Held \ {v} /\ Spent' = Spent \cup {v}
          BY <2>1, <4>1, <4>3 DEF Spent
        <5>2. Contract!Dispose
          BY <3>1, <4>1, <4>3, <5>1 DEF Contract!Dispose
        <5> QED BY <3>1, <5>2 DEF Contract!Next
      <4> QED BY <4>2, <4>3
    <3> QED BY <2>4, <3>2, <3>3, <3>4, Classified
  <2> QED BY <1>2, <2>2, <2>3, <2>4
<1> QED
  BY <1>1, <1>2, Safety, NothingLeaks, AcceptanceIsSound, PTL DEF Spec, KeepsContract, Contract!Spec

=============================================================================
