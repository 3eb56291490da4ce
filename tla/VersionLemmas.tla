--------------------------- MODULE VersionLemmas ---------------------------
(***************************************************************************)
(* The sequence of versions by which the database is modelled: a commit    *)
(* adds the new version at the writer's end, replication removes the       *)
(* oldest at the replica's end.                                            *)
(***************************************************************************)
EXTENDS Naturals, Sequences, SequenceTheorems, TLAPS

\* A commit: the writer has the new row, the replica what it had.
LEMMA CommitVersion ==
    ASSUME NEW S, NEW vs \in Seq(S), vs # <<>>, NEW row \in S
    PROVE  /\ Append(vs, row) \in Seq(S)
           /\ Append(vs, row) # <<>>
           /\ Append(vs, row)[Len(Append(vs, row))] = row
           /\ Append(vs, row)[1] = vs[1]
<1>1. Len(vs) \in Nat /\ Len(vs) # 0
  BY EmptySeq
<1>2. QED
  BY <1>1, AppendProperties

\* Replication never takes the last version: the writer's row stays.
LEMMA ReplicateVersion ==
    ASSUME NEW S, NEW vs \in Seq(S), Len(vs) > 1
    PROVE  /\ Tail(vs) \in Seq(S)
           /\ Tail(vs) # <<>>
           /\ Tail(vs)[Len(Tail(vs))] = vs[Len(vs)]
<1>1. Len(vs) \in Nat /\ vs # <<>>
  BY EmptySeq, LenProperties
<1>2. /\ Tail(vs) \in Seq(S)
      /\ Len(Tail(vs)) = Len(vs) - 1
      /\ \A i \in 1 .. Len(Tail(vs)) : Tail(vs)[i] = vs[i + 1]
  BY <1>1, HeadTailProperties
<1>3. Tail(vs) # <<>>
  <2>1. Len(Tail(vs)) # Len(<<>>)
    BY <1>1, <1>2, EmptySeq
  <2>2. QED
    BY <2>1
<1>4. Len(vs) - 1 \in 1 .. Len(Tail(vs)) /\ (Len(vs) - 1) + 1 = Len(vs)
  BY <1>1, <1>2
<1>5. QED
  BY <1>2, <1>3, <1>4

LEMMA ShortSeqs ==
    ASSUME NEW S, NEW a \in S, NEW b \in S
    PROVE  <<a>> \in Seq(S) /\ <<b, a>> \in Seq(S)
OBVIOUS

\* Both ends of a sequence of versions are versions.
LEMMA EndsAreVersions ==
    ASSUME NEW S, NEW vs \in Seq(S), vs # <<>>
    PROVE  /\ 1 \in DOMAIN vs /\ vs[1] \in S
           /\ Len(vs) \in DOMAIN vs /\ vs[Len(vs)] \in S
<1>1. Len(vs) \in Nat /\ Len(vs) # 0
  BY EmptySeq
<1>2. Len(vs) \in 1 .. Len(vs) /\ 1 \in 1 .. Len(vs)
  BY <1>1
<1>3. QED
  BY <1>2, ElementOfSeq, LenProperties

\* Every version after a commit is the new one or was there before.
LEMMA VersionsAfterCommit ==
    ASSUME NEW S, NEW vs \in Seq(S), NEW row \in S, NEW i \in DOMAIN Append(vs, row)
    PROVE  Append(vs, row)[i] = row \/ (i \in DOMAIN vs /\ Append(vs, row)[i] = vs[i])
BY AppendProperties, LenProperties

\* Every version after replication was there before.
LEMMA VersionsAfterReplication ==
    ASSUME NEW S, NEW vs \in Seq(S), Len(vs) > 1, NEW i \in DOMAIN Tail(vs)
    PROVE  \E j \in DOMAIN vs : Tail(vs)[i] = vs[j]
<1>1. Len(vs) \in Nat /\ vs # <<>>
  BY EmptySeq, LenProperties
<1>2. /\ Tail(vs) \in Seq(S)
      /\ Len(Tail(vs)) = Len(vs) - 1
      /\ \A k \in 1 .. Len(Tail(vs)) : Tail(vs)[k] = vs[k + 1]
  BY <1>1, HeadTailProperties
<1>3. i \in 1 .. (Len(vs) - 1)
  BY <1>2, LenProperties
<1>4. i + 1 \in DOMAIN vs
  BY <1>1, <1>3, LenProperties
<1>5. QED
  BY <1>2, <1>3, <1>4
=============================================================================
