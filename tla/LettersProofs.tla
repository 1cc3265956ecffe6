---------------------------- MODULE LettersProofs ----------------------------
(***************************************************************************)
(* Proofs about Letters: for any number of consumers, facts, faults and    *)
(* redeliveries no matter is written about twice, no invoice more than     *)
(* twice, and no claim is left without its letter.                         *)
(***************************************************************************)
EXTENDS Letters, FiniteSetTheorems, SequenceTheorems, TLAPS

Working == [step : {"claim", "publish", "release", "ack"}, event : Events]

\* What a consumer may be doing, a letter and a claim may be about.
Shape ==
  /\ at \in [Consumers -> {Idle} \cup Working]
  /\ letters \in Seq(Events)

Holds(c) == at[c].step \in {"publish", "release"}
KeyAt(c) == ClaimKey(at[c].event)

\* A letter has its claim, a consumer that is about to publish or to give the
\* claim back holds it alone, and no letter has gone out under it.
ClaimsAreExclusive ==
  /\ \A i \in DOMAIN letters : ClaimKey(letters[i]) \in claims
  /\ \A c \in Consumers : Holds(c) =>
       /\ KeyAt(c) \in claims
       /\ \A i \in DOMAIN letters : ClaimKey(letters[i]) # KeyAt(c)
  /\ \A c, d \in Consumers : Holds(c) /\ Holds(d) /\ KeyAt(c) = KeyAt(d) => c = d
  /\ \A i, j \in DOMAIN letters : ClaimKey(letters[i]) = ClaimKey(letters[j]) => i = j

Inv == Shape /\ ClaimsAreExclusive

-------------------------------------------------------------------------------
\* What one letter is owed about is claimed under one key, whichever facts report
\* it (ClaimKey, of the three handlers of actions.py).
LEMMA OneKeyAMatter ==
  ASSUME NEW d \in Events, NEW e \in Events, SameMatter(d, e)
  PROVE  ClaimKey(d) = ClaimKey(e)
<1>1. d.kind \in Kinds /\ e.kind \in Kinds
  BY EventsAssumption
<1>2. CASE d.kind = "subscription" \/ e.kind = "subscription"
  BY <1>2 DEF SameMatter, ClaimKey, Final
<1>3. CASE ~(d.kind = "subscription" \/ e.kind = "subscription")
  <2>1. d.about = e.about /\ (d.kind = "paid") = (e.kind = "paid") /\ Final(d) = Final(e)
    BY <1>3 DEF SameMatter
  <2>2. CASE d.kind = "paid"
    BY <1>3, <2>1, <2>2 DEF ClaimKey
  <2>3. CASE d.kind # "paid"
    BY <1>1, <1>3, <2>1, <2>3 DEF ClaimKey, Kinds
  <2> QED
    BY <2>2, <2>3
<1> QED
  BY <1>2, <1>3

LEMMA InitInv == Init => Inv
<1> SUFFICES ASSUME Init PROVE Inv
  OBVIOUS
<1>1. \A c \in Consumers : at[c] = Idle /\ ~Holds(c)
  BY DEF Init, Idle, Holds
<1> QED
  BY <1>1 DEF Init, Inv, Shape, ClaimsAreExclusive

-------------------------------------------------------------------------------
\* A step that sends nothing, claims nothing and lets a consumer hold a claim
\* only if it held that claim before.
LEMMA NothingTaken ==
  ASSUME Inv, claims' = claims, letters' = letters, Shape',
         \A c \in Consumers : Holds(c)' => Holds(c) /\ at'[c].event = at[c].event
  PROVE  Inv'
<1>1. \A c \in Consumers : Holds(c)' => Holds(c) /\ KeyAt(c)' = KeyAt(c)
  BY DEF KeyAt, ClaimKey, Final, Date
<1>2. \A i \in DOMAIN letters' : ClaimKey(letters'[i]) \in claims'
  BY DEF Inv, ClaimsAreExclusive
<1>3. \A c \in Consumers : Holds(c)' =>
        KeyAt(c)' \in claims' /\ \A i \in DOMAIN letters' : ClaimKey(letters'[i]) # KeyAt(c)'
  BY <1>1 DEF Inv, ClaimsAreExclusive
<1>4. \A c, d \in Consumers : Holds(c)' /\ Holds(d)' /\ KeyAt(c)' = KeyAt(d)' => c = d
  BY <1>1 DEF Inv, ClaimsAreExclusive
<1>5. \A i, j \in DOMAIN letters' :
        ClaimKey(letters'[i]) = ClaimKey(letters'[j]) => i = j
  BY DEF Inv, ClaimsAreExclusive
<1> QED
  BY <1>2, <1>3, <1>4, <1>5 DEF Inv, ClaimsAreExclusive

LEMMA TakeKeepsInv ==
  ASSUME Inv, NEW c \in Consumers, NEW e \in Events, Take(c, e) PROVE Inv'
<1> DEFINE x == Busy(IF Concerns(e) /\ ~Stale(e) THEN "claim" ELSE "ack", e)
<1>1. at' = [at EXCEPT ![c] = x] /\ x \in Working /\ claims' = claims /\ letters' = letters
  BY DEF Take, Busy, Working
<1>2. x.step \notin {"publish", "release"}
  BY DEF Busy
<1>3. Shape'
  BY <1>1 DEF Inv, Shape
<1>4. \A d \in Consumers : Holds(d)' => Holds(d) /\ at'[d].event = at[d].event
  BY <1>1, <1>2 DEF Inv, Shape, Holds
<1> HIDE DEF x
<1> QED
  BY <1>1, <1>3, <1>4, NothingTaken

LEMMA ClaimKeepsInv ==
  ASSUME Inv, NEW c \in Consumers, Claim(c) PROVE Inv'
<1> DEFINE e == at[c].event
           k == ClaimKey(e)
<1>1. at[c] \in Working /\ e \in Events /\ ~Holds(c)
  BY DEF Inv, Shape, Claim, Is, Idle, Working, Holds
<1>2. letters' = letters /\ claims' = claims \cup {k}
  BY DEF Claim, Claimed
<1>3. CASE k \in claims
  <2>1. at' = [at EXCEPT ![c] = Busy("ack", e)] /\ claims' = claims
    BY <1>2, <1>3 DEF Claim
  <2>2. Shape'
    BY <1>1, <1>2, <2>1 DEF Inv, Shape, Busy, Working
  <2>3. \A d \in Consumers : Holds(d)' => Holds(d) /\ at'[d].event = at[d].event
    BY <2>1 DEF Inv, Shape, Holds, Busy
  <2> QED
    BY <1>2, <2>1, <2>2, <2>3, NothingTaken
<1>4. CASE k \notin claims
  <2>1. at' = [at EXCEPT ![c] = Busy("publish", e)]
    BY <1>4 DEF Claim
  <2>2. Shape'
    BY <1>1, <1>2, <2>1 DEF Inv, Shape, Busy, Working
  <2>3. /\ KeyAt(c)' = k
        /\ \A d \in Consumers \ {c} : Holds(d)' = Holds(d) /\ KeyAt(d)' = KeyAt(d)
    BY <2>1 DEF Inv, Shape, Holds, KeyAt, Busy, ClaimKey, Final, Date
  <2>4. \A i \in DOMAIN letters' : ClaimKey(letters'[i]) \in claims' \ {k}
    BY <1>2, <1>4 DEF Inv, ClaimsAreExclusive
  <2>5. \A d \in Consumers : Holds(d)' => KeyAt(d)' \in claims' /\ (d # c => KeyAt(d)' # k)
    BY <1>2, <1>4, <2>3 DEF Inv, ClaimsAreExclusive
  <2>6. \A d \in Consumers : Holds(d)' =>
          \A i \in DOMAIN letters' : ClaimKey(letters'[i]) # KeyAt(d)'
    BY <1>2, <2>3, <2>4 DEF Inv, ClaimsAreExclusive
  <2>7. \A d, f \in Consumers : Holds(d)' /\ Holds(f)' /\ KeyAt(d)' = KeyAt(f)' => d = f
    BY <2>3, <2>5 DEF Inv, ClaimsAreExclusive
  <2>8. \A i, j \in DOMAIN letters' :
          ClaimKey(letters'[i]) = ClaimKey(letters'[j]) => i = j
    BY <1>2 DEF Inv, ClaimsAreExclusive
  <2> QED
    BY <2>2, <2>4, <2>5, <2>6, <2>7, <2>8 DEF Inv, ClaimsAreExclusive
<1> QED
  BY <1>3, <1>4

LEMMA PublishKeepsInv ==
  ASSUME Inv, NEW c \in Consumers, Publish(c) PROVE Inv'
<1> DEFINE e == at[c].event
           n == Len(letters)
<1>1. at[c] \in Working /\ e \in Events /\ Holds(c) /\ KeyAt(c) = ClaimKey(e)
  BY DEF Inv, Shape, Publish, Is, Idle, Working, Holds, KeyAt
<1>2. letters' = Append(letters, e) /\ claims' = claims
  BY DEF Publish
<1>3. /\ at' = [at EXCEPT ![c] = [at[c] EXCEPT !.step = "ack"]]
      /\ [at[c] EXCEPT !.step = "ack"] \in Working
  BY <1>1 DEF Publish, Working
<1>4. Shape'
  BY <1>1, <1>2, <1>3 DEF Inv, Shape
<1>5. \A d \in Consumers : Holds(d)' => d # c /\ Holds(d) /\ KeyAt(d)' = KeyAt(d)
  BY <1>1, <1>3 DEF Inv, Shape, Holds, KeyAt, Working, ClaimKey, Final, Date
<1>6. /\ n \in Nat /\ DOMAIN letters = 1..n /\ DOMAIN letters' = 1..(n + 1)
      /\ \A i \in 1..n : letters'[i] = letters[i]
      /\ letters'[n + 1] = e
  BY <1>1, <1>2 DEF Inv, Shape
<1>7. \A i \in DOMAIN letters' : i \in DOMAIN letters \/ i = n + 1
  BY <1>6
<1>8. \A i \in DOMAIN letters' : ClaimKey(letters'[i]) \in claims'
  BY <1>1, <1>2, <1>6, <1>7 DEF Inv, ClaimsAreExclusive
<1>9. \A i, j \in DOMAIN letters' :
        ClaimKey(letters'[i]) = ClaimKey(letters'[j]) => i = j
  BY <1>1, <1>6, <1>7 DEF Inv, ClaimsAreExclusive
<1>10. \A d \in Consumers : Holds(d)' =>
         /\ KeyAt(d)' \in claims'
         /\ \A i \in DOMAIN letters' : ClaimKey(letters'[i]) # KeyAt(d)'
  BY <1>1, <1>2, <1>5, <1>6, <1>7 DEF Inv, ClaimsAreExclusive
<1>11. \A d, f \in Consumers : Holds(d)' /\ Holds(f)' /\ KeyAt(d)' = KeyAt(f)' => d = f
  BY <1>5 DEF Inv, ClaimsAreExclusive
<1> QED
  BY <1>4, <1>8, <1>9, <1>10, <1>11 DEF Inv, ClaimsAreExclusive, ClaimKey, Final, Date

LEMMA PublishRefusedKeepsInv ==
  ASSUME Inv, NEW c \in Consumers, PublishRefused(c) PROVE Inv'
<1>1. at[c] \in Working /\ Holds(c)
  BY DEF Inv, Shape, PublishRefused, Is, Idle, Working, Holds
<1>2. /\ at' = [at EXCEPT ![c] = [at[c] EXCEPT !.step = "release"]]
      /\ [at[c] EXCEPT !.step = "release"] \in Working
      /\ claims' = claims /\ letters' = letters
  BY <1>1 DEF PublishRefused, Working, desk
<1>3. Shape'
  BY <1>2 DEF Inv, Shape
<1>4. \A d \in Consumers : Holds(d)' => Holds(d) /\ at'[d].event = at[d].event
  BY <1>1, <1>2 DEF Inv, Shape, Holds, Working
<1> QED
  BY <1>2, <1>3, <1>4, NothingTaken

LEMMA ReleaseKeepsInv ==
  ASSUME Inv, NEW c \in Consumers, Release(c) PROVE Inv'
<1> DEFINE e == at[c].event
<1>1. at[c] \in Working /\ Holds(c) /\ KeyAt(c) = ClaimKey(e)
  BY DEF Inv, Shape, Release, Is, Idle, Working, Holds, KeyAt
<1>2. /\ at' = [at EXCEPT ![c] = Idle]
      /\ letters' = letters /\ claims' = claims \ {ClaimKey(e)}
  BY DEF Release, Released
<1>3. Shape'
  BY <1>2 DEF Inv, Shape
<1>4. \A d \in Consumers : Holds(d)' => d # c /\ Holds(d) /\ KeyAt(d)' = KeyAt(d)
  BY <1>2 DEF Inv, Shape, Holds, KeyAt, Idle, ClaimKey, Final, Date
<1>5. \A i \in DOMAIN letters' : ClaimKey(letters'[i]) \in claims'
  BY <1>1, <1>2 DEF Inv, ClaimsAreExclusive
<1>6. \A d \in Consumers : Holds(d)' =>
        KeyAt(d)' \in claims' /\ \A i \in DOMAIN letters' : ClaimKey(letters'[i]) # KeyAt(d)'
  BY <1>1, <1>2, <1>4 DEF Inv, ClaimsAreExclusive
<1>7. \A d, f \in Consumers : Holds(d)' /\ Holds(f)' /\ KeyAt(d)' = KeyAt(f)' => d = f
  BY <1>4 DEF Inv, ClaimsAreExclusive
<1>8. \A i, j \in DOMAIN letters' :
        ClaimKey(letters'[i]) = ClaimKey(letters'[j]) => i = j
  BY <1>2 DEF Inv, ClaimsAreExclusive
<1> QED
  BY <1>3, <1>5, <1>6, <1>7, <1>8 DEF Inv, ClaimsAreExclusive

\* A consumer that stops keeps nothing but the claim, which nobody holds any more.
LEMMA StopKeepsInv ==
  ASSUME Inv, NEW c \in Consumers, at' = [at EXCEPT ![c] = Idle],
         claims' = claims, letters' = letters
  PROVE  Inv'
<1>1. Shape'
  BY DEF Inv, Shape
<1>2. \A d \in Consumers : Holds(d)' => Holds(d) /\ at'[d].event = at[d].event
  BY DEF Inv, Shape, Holds, Idle
<1> QED
  BY <1>1, <1>2, NothingTaken

\* Every step of every handler keeps the claims exclusive (_claim_and_send).
THEOREM NextKeepsInv == Inv /\ [Next]_vars => Inv'
<1> SUFFICES ASSUME Inv, [Next]_vars PROVE Inv'
  OBVIOUS
<1>1. ASSUME at' = at, claims' = claims, letters' = letters PROVE Inv'
  <2>1. Shape' /\ \A c \in Consumers : Holds(c)' => Holds(c) /\ at'[c].event = at[c].event
    BY <1>1 DEF Inv, Shape, Holds
  <2> QED
    BY <1>1, <2>1, NothingTaken
<1>2. CASE UNCHANGED vars \/ Tick
  BY <1>1, <1>2 DEF vars, desk, Tick
<1>3. CASE \E e \in Events : Happen(e) \/ Redeliver(e)
  BY <1>1, <1>3 DEF Happen, Redeliver, desk
<1>4. CASE \E c \in Consumers, e \in Events : Take(c, e)
  BY <1>4, TakeKeepsInv
<1>5. CASE \E c \in Consumers : Ack(c) \/ Die(c)
  BY <1>5, StopKeepsInv DEF Ack, Die, desk
<1>6. CASE \E c \in Consumers : Claim(c) \/ Publish(c) \/ Release(c) \/ PublishRefused(c)
  BY <1>6, ClaimKeepsInv, PublishKeepsInv, ReleaseKeepsInv, PublishRefusedKeepsInv
<1> QED
  BY <1>2, <1>3, <1>4, <1>5, <1>6 DEF Next, Handle

\* However many consumers there are and however often facts are delivered, no
\* matter is written about twice (_claim_and_send).
THEOREM OneLetterForEachMatter == Spec => []OneLetterEach
<1>1. Inv => OneLetterEach
  <2> SUFFICES ASSUME Inv,
                      NEW i \in DOMAIN letters, NEW j \in DOMAIN letters,
                      SameMatter(letters[i], letters[j])
               PROVE  i = j
    BY DEF OneLetterEach
  <2>1. letters[i] \in Events /\ letters[j] \in Events
    BY DEF Inv, Shape
  <2> QED
    BY <2>1, OneKeyAMatter DEF Inv, ClaimsAreExclusive
<1> QED
  BY <1>1, InitInv, NextKeepsInv, PTL DEF Spec

-------------------------------------------------------------------------------
\* A step that sends nothing and claims nothing, after which a consumer still
\* holds its claim, or the claim is gone, or was lost with the consumer.
LEMMA ClaimsAccountedFor ==
  ASSUME Inv, ClaimMeansSent, letters' = letters,
         claims' \subseteq claims, lost \subseteq lost',
         \A c \in Consumers : Holds(c) =>
           \/ at'[c].step \in {"publish", "release"} /\ at'[c].event = at[c].event
           \/ KeyAt(c) \notin claims'
           \/ KeyAt(c) \in lost'
  PROVE  ClaimMeansSent'
<1> SUFFICES ASSUME NEW k \in claims'
             PROVE  \/ \E i \in DOMAIN letters : ClaimKey(letters[i]) = k
                    \/ \E c \in Consumers : /\ at'[c].step \in {"publish", "release"}
                                            /\ ClaimKey(at'[c].event) = k
                    \/ k \in lost'
  BY DEF ClaimMeansSent
<1>1. CASE \E c \in Consumers : Holds(c) /\ KeyAt(c) = k
  <2>1. PICK c \in Consumers : Holds(c) /\ KeyAt(c) = k
    BY <1>1
  <2>2. ClaimKey(at[c].event) = k
    BY <2>1 DEF KeyAt
  <2> QED
    BY <2>1, <2>2
<1>2. CASE ~(\E c \in Consumers : Holds(c) /\ KeyAt(c) = k)
  BY <1>2 DEF ClaimMeansSent, Holds, KeyAt
<1> QED
  BY <1>1, <1>2

LEMMA ClaimIsHeld ==
  ASSUME Inv, ClaimMeansSent, NEW c \in Consumers, Claim(c) PROVE ClaimMeansSent'
<1> DEFINE e == at[c].event
<1>1. /\ letters' = letters /\ claims' = claims \cup {ClaimKey(e)} /\ lost' = lost
      /\ ~Holds(c) /\ at[c] \in Working
  BY DEF Claim, Claimed, Inv, Shape, Is, Idle, Working, Holds
<1>2. \A d \in Consumers : Holds(d) =>
        at'[d].step \in {"publish", "release"} /\ at'[d].event = at[d].event
  BY <1>1 DEF Claim, Inv, Shape, Holds
<1>3. CASE ClaimKey(e) \in claims
  <2>1. claims' \subseteq claims /\ lost \subseteq lost'
    BY <1>1, <1>3
  <2> QED
    BY <1>1, <1>2, <2>1, ClaimsAccountedFor
<1>4. CASE ClaimKey(e) \notin claims
  <2>1. at'[c].step = "publish" /\ at'[c].event = e
    BY <1>4 DEF Claim, Busy, Inv, Shape
  <2>2. \A k \in claims :
          \/ \E i \in DOMAIN letters : ClaimKey(letters[i]) = k
          \/ \E d \in Consumers : Holds(d) /\ ClaimKey(at[d].event) = k
          \/ k \in lost
    BY DEF ClaimMeansSent, Holds
  <2>3. ASSUME NEW k \in claims'
        PROVE  \/ \E i \in DOMAIN letters' : ClaimKey(letters'[i]) = k
               \/ \E d \in Consumers : /\ at'[d].step \in {"publish", "release"}
                                       /\ ClaimKey(at'[d].event) = k
               \/ k \in lost'
    <3>1. CASE k = ClaimKey(e)
      BY <2>1, <3>1
    <3>2. CASE k \in claims
      BY <1>1, <1>2, <2>2, <3>2
    <3> QED
      BY <1>1, <3>1, <3>2
  <2> QED
    BY <2>3 DEF ClaimMeansSent
<1> QED
  BY <1>3, <1>4

LEMMA PublishedIsSent ==
  ASSUME Inv, ClaimMeansSent, NEW c \in Consumers, Publish(c) PROVE ClaimMeansSent'
<1> DEFINE e == at[c].event
           n == Len(letters)
<1>1. at[c] \in Working /\ e \in Events
  BY DEF Publish, Inv, Shape, Is, Idle, Working
<1>2. /\ letters' = Append(letters, e) /\ claims' = claims /\ lost' = lost
      /\ \A d \in Consumers : d # c => at'[d] = at[d]
  BY DEF Publish, Inv, Shape
<1>3. /\ n \in Nat /\ DOMAIN letters = 1..n /\ DOMAIN letters' = 1..(n + 1)
      /\ \A i \in DOMAIN letters : i \in DOMAIN letters' /\ letters'[i] = letters[i]
      /\ n + 1 \in DOMAIN letters' /\ letters'[n + 1] = e
  BY <1>1, <1>2 DEF Inv, Shape
<1>4. ASSUME NEW k \in claims
      PROVE  \/ \E i \in DOMAIN letters' : ClaimKey(letters'[i]) = k
             \/ \E d \in Consumers : /\ at'[d].step \in {"publish", "release"}
                                     /\ ClaimKey(at'[d].event) = k
             \/ k \in lost
  <2>1. CASE \E i \in DOMAIN letters : ClaimKey(letters[i]) = k
    <3>1. PICK i \in DOMAIN letters : ClaimKey(letters[i]) = k
      BY <2>1
    <3>2. i \in DOMAIN letters' /\ letters'[i] = letters[i]
      BY <1>3
    <3> QED
      BY <3>1, <3>2
  <2>2. CASE ClaimKey(e) = k
    BY <1>3, <2>2
  <2>3. CASE \E d \in Consumers : /\ at[d].step \in {"publish", "release"}
                                  /\ ClaimKey(at[d].event) = k /\ d # c
    BY <1>2, <2>3
  <2>4. CASE k \in lost
    BY <2>4
  <2> QED
    BY <2>1, <2>2, <2>3, <2>4 DEF ClaimMeansSent
<1> QED
  BY <1>2, <1>4 DEF ClaimMeansSent

LEMMA StopIsAccountedFor ==
  ASSUME Inv, ClaimMeansSent, NEW c \in Consumers, Release(c) \/ Ack(c) \/ Die(c)
  PROVE  ClaimMeansSent'
<1>1. at' = [at EXCEPT ![c] = Idle] /\ letters' = letters
  BY DEF Release, Ack, Die, desk
<1>2. \A d \in Consumers : d # c => at'[d] = at[d]
  BY <1>1 DEF Inv, Shape
<1>3. CASE Release(c)
  <2>1. claims' = claims \ {KeyAt(c)} /\ lost' = lost
    BY <1>3 DEF Release, Released, KeyAt
  <2>2. \A d \in Consumers : Holds(d) =>
          \/ at'[d].step \in {"publish", "release"} /\ at'[d].event = at[d].event
          \/ KeyAt(d) \notin claims'
    BY <1>2, <2>1 DEF Holds
  <2> QED
    BY <1>1, <2>1, <2>2, ClaimsAccountedFor
<1>4. CASE Ack(c)
  <2>1. claims' = claims /\ lost' = lost /\ ~Holds(c)
    BY <1>4 DEF Ack, desk, Is, Holds
  <2>2. \A d \in Consumers : Holds(d) =>
          at'[d].step \in {"publish", "release"} /\ at'[d].event = at[d].event
    BY <1>2, <2>1 DEF Holds
  <2> QED
    BY <1>1, <2>1, <2>2, ClaimsAccountedFor
<1>5. CASE Die(c)
  <2>1. claims' = claims /\ lost \subseteq lost' /\ (Holds(c) => KeyAt(c) \in lost')
    BY <1>5 DEF Die, Is, Holds, KeyAt
  <2>2. \A d \in Consumers : Holds(d) =>
          \/ at'[d].step \in {"publish", "release"} /\ at'[d].event = at[d].event
          \/ KeyAt(d) \in lost'
    BY <1>2, <2>1 DEF Holds
  <2> QED
    BY <1>1, <2>1, <2>2, ClaimsAccountedFor
<1> QED
  BY <1>3, <1>4, <1>5

LEMMA NextKeepsClaims == Inv /\ ClaimMeansSent /\ [Next]_vars => ClaimMeansSent'
<1> SUFFICES ASSUME Inv, ClaimMeansSent, [Next]_vars PROVE ClaimMeansSent'
  OBVIOUS
<1>1. ASSUME letters' = letters, claims' = claims, lost' = lost,
             \A c \in Consumers : Holds(c) =>
               at'[c].step \in {"publish", "release"} /\ at'[c].event = at[c].event
      PROVE  ClaimMeansSent'
  BY <1>1, ClaimsAccountedFor
<1>2. ASSUME at' = at, letters' = letters, claims' = claims, lost' = lost
      PROVE  ClaimMeansSent'
  BY <1>1, <1>2 DEF Holds
<1>3. CASE UNCHANGED vars \/ Tick
  BY <1>2, <1>3 DEF vars, desk, Tick
<1>4. CASE \E e \in Events : Happen(e) \/ Redeliver(e)
  BY <1>2, <1>4 DEF Happen, Redeliver, desk
<1>5. CASE \E c \in Consumers, e \in Events : Take(c, e)
  <2>1. PICK c \in Consumers, e \in Events : Take(c, e)
    BY <1>5
  <2>2. /\ letters' = letters /\ claims' = claims /\ lost' = lost /\ ~Holds(c)
        /\ \A d \in Consumers : d # c => at'[d] = at[d]
    BY <2>1 DEF Take, Is, Holds, Inv, Shape
  <2> QED
    BY <1>1, <2>2 DEF Holds
<1>6. CASE \E c \in Consumers : PublishRefused(c)
  <2>1. PICK c \in Consumers : PublishRefused(c)
    BY <1>6
  <2>2. /\ letters' = letters /\ claims' = claims /\ lost' = lost
        /\ at[c] \in Working
        /\ at' = [at EXCEPT ![c] = [at[c] EXCEPT !.step = "release"]]
    BY <2>1 DEF PublishRefused, Is, Inv, Shape, Idle, Working, desk
  <2>3. \A d \in Consumers : Holds(d) =>
          at'[d].step \in {"publish", "release"} /\ at'[d].event = at[d].event
    BY <2>2 DEF Holds, Inv, Shape, Working
  <2> QED
    BY <1>1, <2>2, <2>3
<1>7. CASE \E c \in Consumers : Claim(c) \/ Publish(c) \/ Release(c) \/ Ack(c) \/ Die(c)
  BY <1>7, ClaimIsHeld, PublishedIsSent, StopIsAccountedFor
<1> QED
  BY <1>3, <1>4, <1>5, <1>6, <1>7 DEF Next, Handle

\* A claim is never left without its letter, a consumer that is about to send it
\* or to give it back, or a consumer that died over it (_claim_and_send).
THEOREM NoClaimForgotten == Spec => []ClaimMeansSent
<1>1. Init => ClaimMeansSent
  BY DEF Init, ClaimMeansSent
<1> QED
  BY <1>1, InitInv, NextKeepsInv, NextKeepsClaims, PTL DEF Spec

-------------------------------------------------------------------------------
\* What the handlers announce: of a declined charge, only one no invoice reports.
Announced == {e \in Events : Announces(e)}

\* Only what was announced is in the outbox, on its way, in a consumer's hands or
\* in a letter.
OnlyAnnounced ==
  /\ due \in [Events -> Nat]
  /\ \A e \in Events : due[e] > 0 => e \in Announced
  /\ \A f \in outbox : f.event \in Announced
  /\ \A c \in Consumers : at[c] # Idle => at[c].event \in Announced
  /\ letters \in Seq(Announced)

LEMMA InitOnlyAnnounced == Init => OnlyAnnounced
BY DEF Init, OnlyAnnounced

\* A step of a consumer that goes on with the fact it has, or stops and hands it
\* back, or takes one that is due.
LEMMA HandlingAnnounced ==
  ASSUME Inv, OnlyAnnounced, NEW c \in Consumers, NEW e \in Announced, NEW x,
         x = Idle \/ x.event = e, at' = [at EXCEPT ![c] = x], outbox' = outbox,
         due' \in [Events -> Nat],
         \A d \in Events \ {e} : due'[d] = due[d],
         letters' = letters \/ letters' = Append(letters, e)
  PROVE  OnlyAnnounced'
<1>1. \A d \in Events : due'[d] > 0 => d \in Announced
  BY DEF OnlyAnnounced
<1>2. \A d \in Consumers : at'[d] # Idle => at'[d].event \in Announced
  BY DEF OnlyAnnounced, Inv, Shape
<1>3. letters' \in Seq(Announced)
  <2>1. letters \in Seq(Announced)
    BY DEF OnlyAnnounced
  <2> QED
    BY <2>1, AppendProperties
<1>4. \A f \in outbox' : f.event \in Announced
  BY DEF OnlyAnnounced
<1> QED
  BY <1>1, <1>2, <1>3, <1>4 DEF OnlyAnnounced, Announced, Announces, Idle

LEMMA NextKeepsOnlyAnnounced ==
  Inv /\ OnlyAnnounced /\ [Next]_vars => OnlyAnnounced'
<1> SUFFICES ASSUME Inv, OnlyAnnounced, [Next]_vars PROVE OnlyAnnounced'
  OBVIOUS
<1>1. CASE UNCHANGED vars \/ Tick
  <2>1. UNCHANGED <<due, outbox, at, letters>>
    BY <1>1 DEF Tick, vars, facts, desk
  <2> QED
    BY <2>1 DEF OnlyAnnounced, Announced, Announces, Idle
<1>2. ASSUME NEW e \in Events, Happen(e) PROVE OnlyAnnounced'
  <2>1. at' = at /\ letters' = letters
    BY <1>2 DEF Happen, desk
  <2>2. CASE Announces(e)
    <3>1. /\ due' = [due EXCEPT ![e] = 1] /\ e \in Announced
          /\ outbox' = outbox \cup {[event |-> e, stamp |-> clock]}
      BY <1>2, <2>2 DEF Happen, Announced
    <3>2. /\ due' \in [Events -> Nat]
          /\ \A d \in Events : due'[d] > 0 => d \in Announced
          /\ \A f \in outbox' : f.event \in Announced
      BY <3>1 DEF OnlyAnnounced
    <3> QED
      BY <2>1, <3>2 DEF OnlyAnnounced, Announced, Announces, Idle
  <2>3. CASE ~Announces(e)
    <3>1. due' = due /\ outbox' = outbox
      BY <1>2, <2>3 DEF Happen
    <3> QED
      BY <2>1, <3>1 DEF OnlyAnnounced, Announced, Announces, Idle
  <2> QED
    BY <2>2, <2>3
<1>3. ASSUME NEW e \in Events, Redeliver(e) PROVE OnlyAnnounced'
  <2>1. /\ at' = at /\ letters' = letters /\ outbox' = outbox /\ e \in Announced
        /\ due' = [due EXCEPT ![e] = @ + 1]
    BY <1>3 DEF Redeliver, desk, facts, Facts, OnlyAnnounced
  <2>2. due' \in [Events -> Nat] /\ \A d \in Events : due'[d] > 0 => d \in Announced
    BY <2>1 DEF OnlyAnnounced
  <2> QED
    BY <2>1, <2>2 DEF OnlyAnnounced, Announced, Announces, Idle
<1>4. ASSUME NEW c \in Consumers, NEW e \in Events, Take(c, e) PROVE OnlyAnnounced'
  <2> DEFINE x == Busy(IF Concerns(e) /\ ~Stale(e) THEN "claim" ELSE "ack", e)
  <2>1. /\ at' = [at EXCEPT ![c] = x] /\ letters' = letters /\ outbox' = outbox
        /\ due' = [due EXCEPT ![e] = @ - 1] /\ due[e] > 0
    BY <1>4 DEF Take, facts
  <2>2. x.event = e /\ e \in Announced
    BY <2>1 DEF Busy, OnlyAnnounced
  <2>3. due' \in [Events -> Nat] /\ \A d \in Events \ {e} : due'[d] = due[d]
    BY <2>1 DEF OnlyAnnounced
  <2> HIDE DEF x
  <2> QED
    BY <2>1, <2>2, <2>3, HandlingAnnounced
<1>5. ASSUME NEW c \in Consumers, ~Is(c, "idle")
      PROVE  at[c] \in Working /\ at[c].event \in Announced
  BY <1>5 DEF Inv, Shape, OnlyAnnounced, Is, Idle
<1>6. ASSUME NEW c \in Consumers, Claim(c) PROVE OnlyAnnounced'
  <2> DEFINE e == at[c].event
             x == Busy(IF ClaimKey(e) \in claims THEN "ack" ELSE "publish", e)
  <2>1. e \in Announced
    BY <1>5, <1>6 DEF Claim, Is
  <2>2. at' = [at EXCEPT ![c] = x] /\ letters' = letters /\ outbox' = outbox /\ due' = due
    BY <1>6 DEF Claim, facts
  <2>3. x.event = e /\ due' \in [Events -> Nat]
    BY <2>2 DEF Busy, OnlyAnnounced
  <2> HIDE DEF x
  <2> QED
    BY <2>1, <2>2, <2>3, HandlingAnnounced
<1>7. ASSUME NEW c \in Consumers, Publish(c) \/ PublishRefused(c) PROVE OnlyAnnounced'
  <2>1. at[c] \in Working /\ at[c].event \in Announced
    BY <1>5, <1>7 DEF Publish, PublishRefused, Is
  <2>2. PICK x : /\ at' = [at EXCEPT ![c] = x] /\ x.event = at[c].event
    BY <1>7, <2>1 DEF Publish, PublishRefused, Working
  <2>3. /\ outbox' = outbox /\ due' = due
        /\ letters' = letters \/ letters' = Append(letters, at[c].event)
    BY <1>7 DEF Publish, PublishRefused, facts, desk
  <2>4. due' \in [Events -> Nat]
    BY <2>3 DEF OnlyAnnounced
  <2> QED
    BY <2>1, <2>2, <2>3, <2>4, HandlingAnnounced
<1>8. ASSUME NEW c \in Consumers, Release(c) \/ Ack(c) \/ Die(c) PROVE OnlyAnnounced'
  <2>1. at[c].event \in Announced
    BY <1>5, <1>8 DEF Release, Ack, Die, Is
  <2>2. /\ at' = [at EXCEPT ![c] = Idle] /\ letters' = letters /\ outbox' = outbox
        /\ due' = due \/ due' = [due EXCEPT ![at[c].event] = @ + 1]
    BY <1>8 DEF Release, Ack, Die, facts, desk
  <2>3. /\ due' \in [Events -> Nat]
        /\ \A d \in Events \ {at[c].event} : due'[d] = due[d]
    BY <2>1, <2>2 DEF OnlyAnnounced, Announced
  <2> QED
    BY <2>1, <2>2, <2>3, HandlingAnnounced
<1> QED
  BY <1>1, <1>2, <1>3, <1>4, <1>6, <1>7, <1>8 DEF Next, Handle

\* A set that is told apart by something that is either so or not has at most two.
LEMMA TwoAtMost ==
  ASSUME NEW S, NEW P, P \in [S -> BOOLEAN],
         \A i, j \in S : P[i] = P[j] => i = j
  PROVE  IsFiniteSet(S) /\ Cardinality(S) <= 2
<1>1. IsFiniteSet(BOOLEAN) /\ Cardinality(BOOLEAN) = 2
  <2>1. ASSUME NEW a, NEW b, a # b
        PROVE  IsFiniteSet({a} \cup {b}) /\ Cardinality({a} \cup {b}) = 2
    <3>1. IsFiniteSet({a}) /\ Cardinality({a}) = 1 /\ b \notin {a}
      BY <2>1, FS_Singleton
    <3> QED
      BY <3>1, FS_AddElement
  <2>2. TRUE # FALSE
    OBVIOUS
  <2>3. BOOLEAN = {TRUE} \cup {FALSE}
    OBVIOUS
  <2>4. /\ IsFiniteSet({TRUE} \cup {FALSE})
        /\ Cardinality({TRUE} \cup {FALSE}) = 2
    BY <2>1, <2>2, Zenon
  <2> QED
    BY <2>3, <2>4
<1>2. P \in Injection(S, BOOLEAN)
  BY DEF Injection, IsInjective
<1> QED
  BY <1>1, <1>2, FS_Injection, FS_CardinalityType

\* However attempts, the charges they came with and deliveries are mixed, at most
\* two letters are about one invoice: the charges are not announced, and a first
\* failure and the last attempt are one claim each (handle_charge_failed,
\* _is_final_attempt, _claim_and_send).
THEOREM TwoLettersHold == Spec => []TwoLettersAnInvoice
<1>1. Inv /\ OnlyAnnounced => TwoLettersAnInvoice
  <2> SUFFICES ASSUME Inv, OnlyAnnounced, NEW i \in Declines,
                      InvoiceOf(letters[i]) # NoInvoice
               PROVE  Cardinality({j \in Declines :
                                     InvoiceOf(letters[j]) = InvoiceOf(letters[i])}) <= 2
    BY DEF TwoLettersAnInvoice
  <2> DEFINE S == {j \in Declines : InvoiceOf(letters[j]) = InvoiceOf(letters[i])}
             P == [j \in S |-> Final(letters[j])]
  <2>1. ASSUME NEW j \in S
        PROVE  /\ j \in DOMAIN letters
               /\ ClaimKey(letters[j])
                    = <<"invoice failed", InvoiceOf(letters[i]), Final(letters[j])>>
               /\ Final(letters[j]) \in BOOLEAN
    <3>1. /\ j \in DOMAIN letters /\ letters[j] \in Announced
          /\ letters[j].kind \in {"invoice failed", "charge failed"}
      <4>1. letters \in Seq(Announced)
        BY DEF OnlyAnnounced
      <4> QED
        BY <4>1, ElementOfSeq, LenProperties DEF Declines
    <3>2. letters[j].kind = "invoice failed"
      BY <3>1 DEF InvoiceOf, Announced, Announces
    <3>3. /\ letters[j].about = InvoiceOf(letters[i])
          /\ ClaimKey(letters[j])
               = <<"invoice failed", letters[j].about, Final(letters[j])>>
      BY <3>2 DEF InvoiceOf, ClaimKey
    <3>4. Final(letters[j]) \in BOOLEAN
      BY <3>1, EventsAssumption DEF Final, Announced
    <3> QED
      BY <3>1, <3>3, <3>4
  <2>2. P \in [S -> BOOLEAN]
    BY <2>1
  <2>3. ASSUME NEW j \in S, NEW k \in S, P[j] = P[k] PROVE j = k
    <3>1. Final(letters[j]) = Final(letters[k])
      BY <2>3
    <3>2. ClaimKey(letters[j]) = ClaimKey(letters[k])
      BY <2>1, <3>1
    <3> QED
      BY <2>1, <3>2 DEF Inv, ClaimsAreExclusive
  <2> HIDE DEF P, S
  <2>4. Cardinality(S) <= 2
    BY <2>2, <2>3, TwoAtMost
  <2> QED
    BY <2>4 DEF S
<1> QED
  BY <1>1, InitInv, NextKeepsInv, InitOnlyAnnounced, NextKeepsOnlyAnnounced, PTL DEF Spec
===============================================================================
