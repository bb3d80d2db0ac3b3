------------------------- MODULE WagerRefinementProofs -------------------------
(***************************************************************************)
(* WagerProcessing implements WagerLedger, for any number of sessions: a   *)
(* commit settles the commands whose rows the session has processed, and   *)
(* moves each wallet by the sum of their effects.                          *)
(*                                                                         *)
(* The sum is over a set, so most of the argument is about sums: that      *)
(* MapThenSumSet exists for every finite set, and that one more command    *)
(* adds its own effect whichever the order of the addition.                *)
(***************************************************************************)
EXTENDS WagerEntriesProofs, WagerRefinement, FiniteSetTheorems, WellFoundedInduction

-----------------------------------------------------------------------------
(* Induction *)

(* A set of naturals that is not empty has a least one. *)
LEMMA LeastNatural ==
  ASSUME NEW T, T \subseteq Nat, T # {}
  PROVE  \E n \in T : \A m \in T : n <= m
<1> DEFINE Before == OpToRel(<, Nat)
<1>1. IsWellFoundedOn(Before, Nat)
  BY NatLessThanWellFounded
<1>2. \A m, n \in Nat : <<m, n>> \in Before <=> m < n
  BY DEF OpToRel
<1> HIDE DEF Before
<1>3. PICK n \in T : \A m \in T : ~ (<<m, n>> \in Before)
  BY <1>1, WFMin
<1>4. ASSUME NEW m \in T PROVE n <= m
  <2>1. n \in Nat /\ m \in Nat /\ ~(<<m, n>> \in Before)
    BY <1>3
  <2>2. ~(m < n)
    BY <1>2, <2>1
  <2> QED
    BY <2>1, <2>2
<1> QED
  BY <1>4

(* Induction, with the property given as the set of what has it. *)
LEMMA Induction ==
  ASSUME NEW T, T \subseteq Nat, 0 \in T, \A n \in T : n + 1 \in T
  PROVE  T = Nat
<1> SUFFICES ASSUME Nat \ T # {} PROVE FALSE
  OBVIOUS
<1>1. PICK n \in Nat \ T : \A m \in Nat \ T : n <= m
  BY LeastNatural
<1>2. n # 0 /\ n - 1 \in Nat /\ n - 1 \in T
  BY <1>1
<1> QED
  BY <1>1, <1>2

-----------------------------------------------------------------------------
(* Sums *)

First(S) == CHOOSE p \in S : TRUE

(* g gives each subset of U the sum of its effects. *)
SumsOver(g, U) ==
  g = [S \in SUBSET U |-> IF S = {} THEN 0 ELSE First(S).effect + g[S \ {First(S)}]]

Total(S) == MapThenSumSet(LAMBDA p : p.effect, S)

(* The function that MapThenSumSet chooses. *)
LEMMA TotalIsASum == \A S : \E g : Total(S) = g[S] /\ g = CHOOSE i : SumsOver(i, S)
BY DEF Total, MapThenSumSet, MapThenFoldSet, SumsOver, First

(* Two sums agree where both are defined. *)
LEMMA SumsAgree ==
  ASSUME NEW U, NEW V, NEW g, NEW h, SumsOver(g, U), SumsOver(h, V)
  PROVE  \A S : IsFiniteSet(S) /\ S \subseteq U /\ S \subseteq V => g[S] = h[S]
<1> DEFINE T == {n \in Nat : \A S : IsFiniteSet(S) /\ Cardinality(S) = n
                                /\ S \subseteq U /\ S \subseteq V => g[S] = h[S]}
<1>1. ASSUME NEW S, S \subseteq U, S \subseteq V
      PROVE  /\ g[S] = IF S = {} THEN 0 ELSE First(S).effect + g[S \ {First(S)}]
             /\ h[S] = IF S = {} THEN 0 ELSE First(S).effect + h[S \ {First(S)}]
  BY <1>1 DEF SumsOver
<1>2. 0 \in T
  BY <1>1, FS_EmptySet
<1>3. ASSUME NEW n \in T PROVE n + 1 \in T
  <2>1. ASSUME NEW S, IsFiniteSet(S), Cardinality(S) = n + 1, S \subseteq U, S \subseteq V
        PROVE  g[S] = h[S]
    <3>1. S # {} /\ First(S) \in S
      BY <1>3, <2>1, FS_EmptySet DEF First
    <3>2. /\ IsFiniteSet(S \ {First(S)}) /\ Cardinality(S \ {First(S)}) = n
      BY <1>3, <2>1, <3>1, FS_RemoveElement
    <3>3. g[S \ {First(S)}] = h[S \ {First(S)}]
      BY <1>3, <2>1, <3>2
    <3> QED
      BY <1>1, <2>1, <3>1, <3>3
  <2> QED
    BY <1>3, <2>1
<1> HIDE DEF T
<1>4. T = Nat
  BY <1>2, <1>3, Induction DEF T
<1> QED
  BY <1>4, FS_CardinalityType DEF T

(* What Total makes of a finite set, and of its subsets. *)
Unfolds(S) ==
  Total(S) = IF S = {} THEN 0 ELSE First(S).effect + Total(S \ {First(S)})

(* A total that some function gives unfolds. *)
LEMMA SumUnfolds ==
  ASSUME NEW S, IsFiniteSet(S), \A U \in SUBSET S : \E g : SumsOver(g, U)
  PROVE  Unfolds(S)
<1>1. ASSUME NEW U \in SUBSET S
      PROVE  \E g : SumsOver(g, U) /\ Total(U) = g[U]
  <2>1. PICK g : Total(U) = g[U] /\ g = CHOOSE i : SumsOver(i, U)
    BY TotalIsASum
  <2>2. SumsOver(g, U)
    BY <2>1
  <2> QED
    BY <2>1, <2>2
<1>2. PICK g : SumsOver(g, S) /\ Total(S) = g[S]
  BY <1>1
<1>3. Total(S) = IF S = {} THEN 0 ELSE First(S).effect + g[S \ {First(S)}]
  BY <1>2 DEF SumsOver
<1>4. PICK U \in SUBSET S : U = S \ {First(S)}
  OBVIOUS
<1>5. PICK h : SumsOver(h, U) /\ Total(U) = h[U]
  BY <1>1
<1>6. IsFiniteSet(U)
  BY FS_Subset
<1>7. g[U] = h[U]
  BY <1>2, <1>5, <1>6, SumsAgree
<1> QED
  BY <1>3, <1>4, <1>5, <1>7 DEF Unfolds

(* There is a sum over every finite set. *)
LEMMA SumsExist == \A U : IsFiniteSet(U) => \E g : SumsOver(g, U)
<1> DEFINE T == {n \in Nat : \A U : IsFiniteSet(U) /\ Cardinality(U) <= n
                                => \E g : SumsOver(g, U)}
           SumOf(U) == [S \in SUBSET U |-> IF S = {} THEN 0
                                          ELSE First(S).effect + Total(S \ {First(S)})]
<1>1. 0 \in T
  <2>1. ASSUME NEW U, IsFiniteSet(U), Cardinality(U) <= 0
        PROVE  \E g : SumsOver(g, U)
    <3>1. U = {}
      BY <2>1, FS_CardinalityType, FS_EmptySet
    <3>2. \A S \in SUBSET U : S = {}
      BY <3>1
    <3>3. SumsOver([S \in SUBSET U |-> 0], U)
      BY <3>2 DEF SumsOver
    <3> QED
      BY <3>3
  <2> QED
    BY <2>1
<1>2. ASSUME NEW n \in T PROVE n + 1 \in T
  <2>1. ASSUME NEW U, IsFiniteSet(U), Cardinality(U) <= n + 1
        PROVE  \E g : SumsOver(g, U)
    <3>1. ASSUME NEW S \in SUBSET U, S # {}
          PROVE  /\ S \ {First(S)} \in SUBSET U
                 /\ Unfolds(S \ {First(S)})
      <4>1. First(S) \in S /\ IsFiniteSet(S)
        BY <2>1, <3>1, FS_Subset DEF First
      <4>2. /\ IsFiniteSet(S \ {First(S)})
            /\ Cardinality(S \ {First(S)}) = Cardinality(S) - 1
            /\ Cardinality(S) <= Cardinality(U)
            /\ Cardinality(S) \in Nat /\ Cardinality(U) \in Nat
        BY <2>1, <4>1, FS_RemoveElement, FS_Subset, FS_CardinalityType
      <4>3. ASSUME NEW V \in SUBSET (S \ {First(S)}) PROVE \E g : SumsOver(g, V)
        <5>1. IsFiniteSet(V) /\ Cardinality(V) <= Cardinality(S \ {First(S)})
          BY <4>2, FS_Subset
        <5>2. Cardinality(V) \in Nat
          BY <5>1, FS_CardinalityType
        <5> QED
          BY <1>2, <2>1, <4>2, <5>1, <5>2
      <4> QED
        BY <3>1, <4>2, <4>3, SumUnfolds
    <3>2. SumsOver(SumOf(U), U)
      <4>1. ASSUME NEW S \in SUBSET U, S # {}
            PROVE  SumOf(U)[S \ {First(S)}] = Total(S \ {First(S)})
        BY <3>1, <4>1 DEF Unfolds
      <4> QED
        BY <4>1 DEF SumsOver
    <3> QED
      BY <3>2
  <2> QED
    BY <1>2, <2>1
<1> HIDE DEF T
<1>3. T = Nat
  BY <1>1, <1>2, Induction DEF T
<1> QED
  BY <1>3, FS_CardinalityType DEF T

(* Every finite total unfolds. *)
LEMMA TotalUnfolds == ASSUME NEW S, IsFiniteSet(S) PROVE Unfolds(S)
BY SumUnfolds, SumsExist, FS_Subset

(* A set of n + 1 elements has n when one is taken out. *)
LEMMA OneLess ==
  ASSUME NEW S, IsFiniteSet(S), NEW n \in Nat, Cardinality(S) = n + 1, NEW p \in S
  PROVE  IsFiniteSet(S \ {p}) /\ Cardinality(S \ {p}) = n
<1>1. IsFiniteSet(S \ {p}) /\ Cardinality(S \ {p}) = Cardinality(S) - 1
  BY FS_RemoveElement
<1> QED
  BY <1>1

(* Nothing sums to zero. *)
LEMMA TotalOfNothing == Total({}) = 0
BY TotalUnfolds, FS_EmptySet DEF Unfolds

(* A sum of integers is an integer. *)
LEMMA TotalIsInt ==
  \A S : IsFiniteSet(S) /\ (\A p \in S : p.effect \in Int) => Total(S) \in Int
<1> DEFINE T == {n \in Nat : \A S : /\ IsFiniteSet(S) /\ Cardinality(S) = n
                                    /\ \A p \in S : p.effect \in Int
                                   => Total(S) \in Int}
<1>1. 0 \in T
  BY TotalOfNothing, FS_EmptySet
<1>2. ASSUME NEW n \in T PROVE n + 1 \in T
  <2>1. n \in Nat
    OBVIOUS
  <2>2. ASSUME NEW S, IsFiniteSet(S), Cardinality(S) = n + 1, \A p \in S : p.effect \in Int
        PROVE  Total(S) \in Int
    <3>1. S # {} /\ First(S) \in S
      BY <2>1, <2>2, FS_EmptySet DEF First
    <3>2. IsFiniteSet(S \ {First(S)}) /\ Cardinality(S \ {First(S)}) = n
      BY <2>1, <2>2, <3>1, OneLess
    <3>3. Total(S \ {First(S)}) \in Int
      BY <2>2, <3>2
    <3> QED
      BY <2>2, <3>1, <3>3, TotalUnfolds DEF Unfolds
  <2> QED
    BY <2>1, <2>2
<1> HIDE DEF T
<1>3. T = Nat
  BY <1>1, <1>2, Induction DEF T
<1> QED
  BY <1>3, FS_CardinalityType DEF T

(* Any of the elements may be added last. *)
LEMMA TotalOfRest ==
  \A S : IsFiniteSet(S) /\ (\A p \in S : p.effect \in Int) =>
    \A p \in S : Total(S) = p.effect + Total(S \ {p})
<1> DEFINE T == {n \in Nat : \A S : /\ IsFiniteSet(S) /\ Cardinality(S) = n
                                    /\ \A p \in S : p.effect \in Int
                                   => \A p \in S : Total(S) = p.effect + Total(S \ {p})}
<1>1. 0 \in T
  BY FS_EmptySet
<1>2. ASSUME NEW n \in T PROVE n + 1 \in T
  <2>1. n \in Nat
    OBVIOUS
  <2>2. ASSUME NEW S, IsFiniteSet(S), Cardinality(S) = n + 1, \A p \in S : p.effect \in Int,
               NEW p \in S
        PROVE  Total(S) = p.effect + Total(S \ {p})
    <3>1. \A o \in S : IsFiniteSet(S \ {o}) /\ Cardinality(S \ {o}) = n
      BY <2>1, <2>2, OneLess
    <3>2. PICK q \in S : q = First(S)
      BY DEF First
    <3>3. Total(S) = q.effect + Total(S \ {q})
      BY <2>2, <3>2, TotalUnfolds DEF Unfolds
    <3>4. CASE p # q
      <4>1. PICK R : R = (S \ {q}) \ {p} /\ R = (S \ {p}) \ {q}
        OBVIOUS
      <4>2. Total(S \ {q}) = p.effect + Total(R)
        BY <2>2, <3>1, <3>4, <4>1
      <4>3. Total(S \ {p}) = q.effect + Total(R)
        BY <2>2, <3>1, <3>4, <4>1
      <4>4. Total(R) \in Int /\ p.effect \in Int /\ q.effect \in Int
        <5>1. IsFiniteSet(R) /\ \A o \in R : o.effect \in Int
          BY <2>2, <4>1, FS_Subset
        <5> QED
          BY <2>2, <5>1, TotalIsInt
      <4>5. Total(S) = q.effect + (p.effect + Total(R))
        BY <3>3, <4>2
      <4> QED
        BY <4>3, <4>4, <4>5
    <3> QED
      BY <3>3, <3>4
  <2> QED
    BY <2>1, <2>2
<1> HIDE DEF T
<1>3. T = Nat
  BY <1>1, <1>2, Induction DEF T
<1> QED
  BY <1>3, FS_CardinalityType DEF T

(* One more element adds its effect. *)
LEMMA TotalOfOneMore ==
  ASSUME NEW S, IsFiniteSet(S), \A p \in S : p.effect \in Int,
         NEW p, p \notin S, p.effect \in Int
  PROVE  IsFiniteSet(S \cup {p}) /\ Total(S \cup {p}) = Total(S) + p.effect
<1>1. PICK R : R = S \cup {p}
  OBVIOUS
<1>2. IsFiniteSet(R) /\ \A o \in R : o.effect \in Int
  BY <1>1, FS_AddElement
<1>3. p \in R /\ R \ {p} = S
  BY <1>1
<1>4. Total(R) = p.effect + Total(S)
  BY <1>2, <1>3, TotalOfRest
<1> QED
  BY <1>1, <1>2, <1>4, TotalIsInt

-----------------------------------------------------------------------------
(* What a session is about to settle *)

ProcessedBy(s, w) ==
  {k \in Keys : /\ rowDraft[s][k] # None /\ rowDraft[s][k].status = "PROCESSED"
                /\ rowDraft[s][k].cmd.wallet = w}

ToSettle(s, w) ==
  {[key |-> k, wallet |-> w, effect |-> Effect(rowDraft[s][k])] : k \in ProcessedBy(s, w)}

(* The wallet s sees is the committed one after what s is about to settle. *)
Moved(s) ==
  \A w \in Wallets :
    /\ IsFiniteSet(ToSettle(s, w)) /\ \A p \in ToSettle(s, w) : p.effect \in Int
    /\ WalletSeen(s, w).balance = wallets[w].balance + Total(ToSettle(s, w))

SumInv == \A s \in Sessions : Moved(s)

(* The effect of a command is the amount of its entry, in its direction. *)
LEMMA EffectOfEntry ==
  ASSUME NEW r, r.cmd.amount \in Nat, r.cmd.kind \in {"BET", "WIN", "REFUND", "ROLLBACK"},
         r.cmd.kind = "ROLLBACK" =>
           wagers[r.reference].cmd.kind \in {"BET", "WIN", "REFUND"}
  PROVE  Effect(r) = IF Direction(r.cmd, r.reference) = "DEBIT" THEN -r.cmd.amount
                                                                ELSE r.cmd.amount
<1>1. CASE r.cmd.kind # "ROLLBACK"
  BY <1>1 DEF Effect, Sign, Direction, LedgerDirectionFor, ResolveLedgerDirection
<1>2. CASE r.cmd.kind = "ROLLBACK"
  <2>1. PICK kind \in {"BET", "WIN", "REFUND"} : kind = wagers[r.reference].cmd.kind
    BY <1>2
  <2>2. Effect(r) = r.cmd.amount * (-Sign[kind])
    BY <1>2, <2>1 DEF Effect
  <2>3. Direction(r.cmd, r.reference)
          = IF ResolveLedgerDirection[kind] = "DEBIT" THEN "CREDIT" ELSE "DEBIT"
    BY <1>2, <2>1 DEF Direction, LedgerDirectionFor
  <2>4. CASE kind = "BET"
    BY <2>2, <2>3, <2>4 DEF Sign, ResolveLedgerDirection
  <2>5. CASE kind # "BET"
    BY <2>2, <2>3, <2>5 DEF Sign, ResolveLedgerDirection
  <2> QED
    BY <2>4, <2>5
<1> QED
  BY <1>1, <1>2

(* A command that is settled without an entry has no effect. *)
LEMMA QuietEffect ==
  ASSUME NEW r, r.cmd.amount \in Nat, r.status = "PROCESSED", Quiet(r)
  PROVE  Effect(r) = 0
BY DEF Quiet, Effect, Sign

(* A commit changes no effect: the commands of committed rows stay. *)
LEMMA EffectStays ==
  ASSUME TypeInv, OwnInv, NEW s \in Sessions, StepOf(s), NEW r,
         r.cmd.kind = "ROLLBACK" => r.reference \in Keys /\ wagers[r.reference] # None
  PROVE  Effect(r)' = Effect(r)
<1>1. CASE r.cmd.kind = "ROLLBACK"
  BY <1>1, StepKeepsSettled DEF Effect
<1>2. CASE r.cmd.kind # "ROLLBACK"
  BY <1>2 DEF Effect
<1> QED
  BY <1>1, <1>2

(* One more command of w is to be settled, with the effect of r. *)
OneMore(s, w, r) ==
  \E p : /\ p.effect = Effect(r) /\ p \notin ToSettle(s, w)
         /\ ToSettle(s, w)' = ToSettle(s, w) \cup {p}
         /\ \A v : v # w => ToSettle(s, v)' = ToSettle(s, v)

(* The row of the job is processed, and no other row of the session is     *)
(* touched.                                                                *)
LEMMA OneMoreToSettle ==
  ASSUME NEW s \in Sessions, NEW k \in Keys, NEW w, NEW r, r # None, r.status = "PROCESSED",
         r.cmd.wallet = w, wagers' = wagers, rowDraft'[s][k] = r,
         \A j \in Keys \ {k} : rowDraft'[s][j] = rowDraft[s][j],
         rowDraft[s][k] = None \/ rowDraft[s][k].status # "PROCESSED"
  PROVE  OneMore(s, w, r)
<1> DEFINE p == [key |-> k, wallet |-> w, effect |-> Effect(r)]
<1>1. \A q : Effect(q)' = Effect(q)
  BY DEF Effect
<1>2. /\ ProcessedBy(s, w)' = ProcessedBy(s, w) \cup {k} /\ k \notin ProcessedBy(s, w)
      /\ \A v : v # w => ProcessedBy(s, v)' = ProcessedBy(s, v) /\ k \notin ProcessedBy(s, v)
  BY DEF ProcessedBy
<1>3. \A v : ToSettle(s, v)' =
               {[key |-> j, wallet |-> v, effect |-> Effect(rowDraft'[s][j])] :
                  j \in ProcessedBy(s, v)'}
  BY <1>1 DEF ToSettle
<1>4. \A v : \A j \in ProcessedBy(s, v) : j # k /\ rowDraft'[s][j] = rowDraft[s][j]
  BY DEF ProcessedBy
<1>5. \A v : v # w => ToSettle(s, v)' = ToSettle(s, v)
  BY <1>2, <1>3, <1>4 DEF ToSettle
<1>6. ToSettle(s, w)' = ToSettle(s, w) \cup {p}
  BY <1>2, <1>3, <1>4 DEF ToSettle
<1>7. p \notin ToSettle(s, w)
  BY <1>4 DEF ToSettle
<1> QED
  BY <1>5, <1>6, <1>7 DEF OneMore

(* What keeps the sum of what s is about to settle. *)
LEMMA SameToSettle ==
  ASSUME NEW s \in Sessions, SumInv,
         \A w \in Wallets : ToSettle(s, w)' = ToSettle(s, w),
         \A w \in Wallets :
           \/ WalletSeen(s, w)' = WalletSeen(s, w) /\ wallets'[w] = wallets[w]
           \/ /\ WalletSeen(s, w) = wallets[w] /\ WalletSeen(s, w)' = wallets'[w]
              /\ wallets[w].balance \in Int /\ wallets'[w].balance \in Int
  PROVE  Moved(s)'
<1> SUFFICES ASSUME NEW w \in Wallets
             PROVE  /\ IsFiniteSet(ToSettle(s, w)') /\ \A p \in ToSettle(s, w)' : p.effect \in Int
                    /\ WalletSeen(s, w)'.balance = wallets'[w].balance + Total(ToSettle(s, w)')
  BY DEF Moved
<1>1. PICK S : S = ToSettle(s, w) /\ S = ToSettle(s, w)'
  OBVIOUS
<1>2. /\ IsFiniteSet(S) /\ \A p \in S : p.effect \in Int
      /\ WalletSeen(s, w).balance = wallets[w].balance + Total(S)
  BY <1>1 DEF SumInv, Moved
<1>3. Total(S) \in Int
  BY <1>2, TotalIsInt
<1>4. WalletSeen(s, w)'.balance = wallets'[w].balance + Total(S)
  <2>1. CASE WalletSeen(s, w)' = WalletSeen(s, w) /\ wallets'[w] = wallets[w]
    BY <1>2, <2>1
  <2>2. CASE /\ WalletSeen(s, w) = wallets[w] /\ WalletSeen(s, w)' = wallets'[w]
             /\ wallets[w].balance \in Int /\ wallets'[w].balance \in Int
    <3>1. Total(S) = 0
      BY <1>2, <1>3, <2>2
    <3> QED
      BY <2>2, <3>1
  <2> QED
    BY <2>1, <2>2
<1> QED
  BY <1>1, <1>2, <1>4

(* The end of a transaction leaves nothing to settle. *)
LEMMA EndKeepsSums ==
  ASSUME TypeInv, TypeInv', NEW s \in Sessions, EndTransaction(s)
  PROVE  Moved(s)'
<1>1. /\ \A k \in Keys : rowDraft'[s][k] = None
      /\ \A w \in Wallets : walletDraft'[s][w] = None
  BY DEF EndTransaction, NoRows, NoWallets, TypeInv, TypeOK
<1>2. \A w \in Wallets : ProcessedBy(s, w)' = {}
  BY <1>1 DEF ProcessedBy
<1>3. \A w \in Wallets : ToSettle(s, w)' = {}
  BY <1>2 DEF ToSettle
<1>4. \A w \in Wallets : WalletSeen(s, w)' = wallets'[w] /\ wallets'[w].balance \in Int
  BY <1>1 DEF WalletSeen, TypeInv, TypeOK, WalletRow
<1> SUFFICES ASSUME NEW w \in Wallets
             PROVE  /\ IsFiniteSet(ToSettle(s, w)') /\ \A p \in ToSettle(s, w)' : p.effect \in Int
                    /\ WalletSeen(s, w)'.balance = wallets'[w].balance + Total(ToSettle(s, w)')
  BY DEF Moved
<1>5. PICK S : S = ToSettle(s, w)' /\ S = {}
  BY <1>3
<1>6. IsFiniteSet(S) /\ Total(S) = 0
  BY <1>5, TotalOfNothing, FS_EmptySet
<1> QED
  BY <1>4, <1>5, <1>6

(* A row that is only inserted is not settled. *)
LEMMA InsertKeepsSums ==
  ASSUME TypeInv, OwnInv, SumInv, NEW s \in Sessions, InsertRow(s)
  PROVE  Moved(s)'
<1>1. /\ pc[s] = "insert" /\ rowDraft' = [rowDraft EXCEPT ![s][job[s].key] = NewRow(job[s])]
      /\ walletDraft' = walletDraft /\ wagers' = wagers /\ wallets' = wallets
  BY DEF InsertRow, UpdateRow, committed
<1>2. \A k \in Keys : ~Drafted(s, k)
  BY <1>1 DEF OwnInv, ClientOwns, WorkerOwns, Sessions, Unwritten
<1>3. /\ NewRow(job[s]).status = "PENDING"
      /\ \A k \in Keys : rowDraft'[s][k] = None \/ rowDraft'[s][k] = NewRow(job[s])
  BY <1>1, <1>2 DEF NewRow, Drafted, TypeInv, TypeOK
<1>4. \A w : ProcessedBy(s, w) = {} /\ ProcessedBy(s, w)' = {}
  BY <1>2, <1>3 DEF ProcessedBy, Drafted
<1>5. \A w \in Wallets : ToSettle(s, w)' = ToSettle(s, w)
  BY <1>4 DEF ToSettle
<1>6. \A w \in Wallets : WalletSeen(s, w)' = WalletSeen(s, w)
  BY <1>1 DEF WalletSeen
<1> QED
  BY <1>1, <1>5, <1>6, SameToSettle

(* A statement that writes nothing. *)
LEMMA MoveKeepsSums ==
  ASSUME SumInv, NEW s \in Sessions,
         \/ CheckWalletKey(s) \/ LockWallet(s)
         \/ ClaimDue(s) \/ \E c \in Commands : Submit(s, c)
         \/ InsertConflicts(s) \/ LoadWallet(s)
         \/ AcceptReference(s) \/ Reverse(s) \/ DebitRefused(s)
  PROVE  Moved(s)'
<1>1. UNCHANGED <<committed, drafts>>
  BY DEF CheckWalletKey, LockWallet, ClaimDue, Submit, InsertConflicts, LoadWallet,
         AcceptReference, Reverse, DebitRefused
<1>2. \A w : ToSettle(s, w)' = ToSettle(s, w) /\ WalletSeen(s, w)' = WalletSeen(s, w)
  BY <1>1 DEF ToSettle, ProcessedBy, Effect, WalletSeen, committed, drafts
<1> QED
  BY <1>1, <1>2, SameToSettle DEF committed

(* A row that is processed adds its effect, and its wallet has moved by    *)
(* as much.                                                                *)
LEMMA ProcessedKeepsSums ==
  ASSUME TypeInv, OwnInv, SumInv, NEW s \in Sessions, NEW r, SettlesWith(s, r),
         r.status = "PROCESSED", Effect(r) \in Int, wallets' = wallets,
         \A w \in Wallets :
           WalletSeen(s, w)'.balance =
             IF w = job[s].wallet THEN WalletSeen(s, w).balance + Effect(r)
                                  ELSE WalletSeen(s, w).balance
  PROVE  Moved(s)'
<1>1. PICK k \in Keys, v \in Wallets : k = job[s].key /\ v = job[s].wallet
  BY JobRowOwned DEF SettlesWith
<1>2. /\ r # None /\ r.cmd = job[s] /\ wagers' = wagers /\ rowDraft'[s][k] = r
      /\ \A j \in Keys \ {k} : rowDraft'[s][j] = rowDraft[s][j]
      /\ JobRow(s).status # "PROCESSED"
  BY <1>1, QueueMoves, JobRowOwned DEF SettlesWith
<1>3. rowDraft[s][k] = None \/ rowDraft[s][k].status # "PROCESSED"
  BY <1>1, <1>2 DEF JobRow, RowSeen
<1>4. PICK p : /\ p.effect = Effect(r) /\ p \notin ToSettle(s, v)
               /\ ToSettle(s, v)' = ToSettle(s, v) \cup {p}
               /\ \A w : w # v => ToSettle(s, w)' = ToSettle(s, w)
  <2>1. r.cmd.wallet = v
    BY <1>1, <1>2
  <2>2. OneMore(s, v, r)
    BY <1>2, <1>3, <2>1, OneMoreToSettle
  <2> QED
    BY <2>2 DEF OneMore
<1> SUFFICES ASSUME NEW w \in Wallets
             PROVE  /\ IsFiniteSet(ToSettle(s, w)') /\ \A o \in ToSettle(s, w)' : o.effect \in Int
                    /\ WalletSeen(s, w)'.balance = wallets'[w].balance + Total(ToSettle(s, w)')
  BY DEF Moved
<1>5. PICK S, T : S = ToSettle(s, w) /\ T = ToSettle(s, w)'
  OBVIOUS
<1>6. /\ IsFiniteSet(S) /\ \A o \in S : o.effect \in Int
      /\ WalletSeen(s, w).balance = wallets[w].balance + Total(S)
  BY <1>5 DEF SumInv, Moved
<1>7. CASE w # v
  BY <1>1, <1>4, <1>5, <1>6, <1>7
<1>8. CASE w = v
  <2>1. T = S \cup {p} /\ p \notin S /\ p.effect \in Int
    BY <1>4, <1>5, <1>8
  <2>2. IsFiniteSet(T) /\ Total(T) = Total(S) + p.effect
    BY <1>6, <2>1, TotalOfOneMore
  <2>3. Total(S) \in Int /\ wallets[w].balance \in Int
    BY <1>6, TotalIsInt DEF TypeInv, TypeOK, WalletRow
  <2>4. WalletSeen(s, w)'.balance = (wallets[w].balance + Total(S)) + p.effect
    BY <1>1, <1>4, <1>6, <1>8
  <2>5. wallets'[w].balance + Total(T) = wallets[w].balance + (Total(S) + p.effect)
    BY <2>2
  <2>6. WalletSeen(s, w)'.balance = wallets'[w].balance + Total(T)
    BY <2>1, <2>3, <2>4, <2>5
  <2>7. \A o \in T : o.effect \in Int
    BY <1>6, <2>1
  <2> QED
    BY <1>5, <2>2, <2>6, <2>7
<1> QED
  BY <1>7, <1>8

(* An outcome that moves no wallet: nothing is settled, or a command whose *)
(* effect is nothing.                                                      *)
LEMMA QuietKeepsSums ==
  ASSUME TypeInv, OwnInv, SumInv, NEW s \in Sessions, Outcome(s), ~(Debit(s) \/ Credit(s))
  PROVE  Moved(s)'
<1>1. walletDraft' = walletDraft /\ wallets' = wallets
  BY DEF Outcome, LoadForeignWallet, SettleWithoutEntry, AwaitReference, RetryLater,
         GiveUp, RefuseReference, RefuseSecondReversal, Observe, Reject, NoBalanceChange, committed
<1>2. PICK r \in Row : SettlesWith(s, r) /\ Quiet(r)
  BY QuietOutcome
<1>3. \A w : WalletSeen(s, w)' = WalletSeen(s, w)
  BY <1>1 DEF WalletSeen
<1>4. CASE r.status = "PROCESSED"
  <2>1. r.cmd.amount \in Nat
    BY <1>2, JobRowOwned DEF SettlesWith
  <2>2. Effect(r) = 0
    BY <1>2, <1>4, <2>1, QuietEffect
  <2>3. \A w \in Wallets : WalletSeen(s, w).balance \in Int
    BY WalletSeenType DEF TypeInv, WalletRow
  <2> QED
    BY <1>1, <1>2, <1>3, <1>4, <2>2, <2>3, ProcessedKeepsSums
<1>5. CASE r.status # "PROCESSED"
  <2>1. PICK k \in Keys : k = job[s].key
    BY <1>2, QueueMoves
  <2>2. /\ wagers' = wagers /\ rowDraft'[s][k] = r /\ JobRow(s).status # "PROCESSED"
        /\ \A j \in Keys \ {k} : rowDraft'[s][j] = rowDraft[s][j]
    BY <1>2, <2>1, QueueMoves, JobRowOwned DEF SettlesWith
  <2>3. rowDraft[s][k] = None \/ rowDraft[s][k].status # "PROCESSED"
    BY <2>1, <2>2 DEF JobRow, RowSeen
  <2>4. \A w : /\ ProcessedBy(s, w)' = ProcessedBy(s, w)
               /\ \A j \in ProcessedBy(s, w) : rowDraft'[s][j] = rowDraft[s][j]
    BY <1>5, <2>2, <2>3 DEF ProcessedBy
  <2>5. \A q : Effect(q)' = Effect(q)
    BY <2>2 DEF Effect
  <2>6. \A w : ToSettle(s, w)' =
                 {[key |-> j, wallet |-> w, effect |-> Effect(rowDraft'[s][j])] :
                    j \in ProcessedBy(s, w)'}
    BY <2>5 DEF ToSettle
  <2>7. \A w : ToSettle(s, w)' = ToSettle(s, w)
    BY <2>4, <2>6 DEF ToSettle
  <2> QED
    BY <1>1, <1>3, <2>7, SameToSettle
<1> QED
  BY <1>4, <1>5

(* atomicDebit and atomicCredit move the wallet by the effect of the       *)
(* command they settle.                                                    *)
LEMMA PostKeepsSums ==
  ASSUME TypeInv, OwnInv, ReversalInv, EntryInv, SumInv, NEW s \in Sessions,
         Debit(s) \/ Credit(s)
  PROVE  Moved(s)'
<1>1. PICK r \in Row :
        /\ SettlesWith(s, r) /\ r.cmd = job[s] /\ r.reference = found[s]
        /\ r.status = "PROCESSED" /\ r.cmd.kind # "LOSS"
  BY PostWrites
<1>2. PICK direction \in {"DEBIT", "CREDIT"} :
        /\ Post(s, direction) /\ pc[s] \in {"debit", "credit"}
        /\ direction = Direction(job[s], found[s])
  BY DEF Debit, Credit, EntryInv, DraftEntries, Heading
<1>3. /\ job[s] \in Commands /\ job[s].amount \in Nat /\ job[s].wallet \in Wallets
      /\ BalanceAfter(s, direction) \in Int
  BY <1>1, <1>2, JobRowOwned, Processings DEF SettlesWith
<1>4. r.cmd.kind \in {"BET", "WIN", "REFUND", "ROLLBACK"}
  BY <1>1, <1>3, CommandsAssumption DEF Kinds
<1>5. ASSUME r.cmd.kind = "ROLLBACK"
      PROVE  wagers[r.reference].cmd.kind \in {"BET", "WIN", "REFUND"}
  <2>1. /\ Reversing(s) /\ found[s] \in Keys /\ wagers[found[s]] # None
        /\ Reversible(job[s], RowSeen(s, found[s]))
    BY <1>1, <1>2, <1>5 DEF ReversalInv, SessionSound, FoundSound, Reversing, Reversals
  <2>2. RowSeen(s, found[s]).cmd = wagers[found[s]].cmd
    BY <2>1 DEF RowSeen, Drafted, OwnInv, ClientOwns, WorkerOwns, Sessions
  <2> QED
    BY <1>1, <1>5, <2>1, <2>2 DEF Reversible, ReversibleBy
<1>6. Effect(r) = IF direction = "DEBIT" THEN -job[s].amount ELSE job[s].amount
  BY <1>1, <1>2, <1>3, <1>4, <1>5, EffectOfEntry
<1>7. PICK v, b, n : /\ v = job[s].wallet /\ v \in Wallets /\ b = BalanceAfter(s, direction)
                      /\ n = WalletSeen(s, job[s].wallet).version + 1
  BY <1>3
<1>8. /\ walletDraft' = [walletDraft EXCEPT ![s][v] = [balance |-> b, version |-> n]]
      /\ wallets' = wallets
  BY <1>2, <1>7 DEF Post, BalanceAfter, committed
<1>9. [balance |-> b, version |-> n] # None
  <2>1. n \in Nat /\ b \in Int
    BY <1>3, <1>7, WalletSeenType DEF TypeInv, WalletRow
  <2> QED
    BY <2>1, NoneAssumption DEF WalletRow
<1>10. \A w \in Wallets :
         walletDraft'[s][w] = IF w = v THEN [balance |-> b, version |-> n] ELSE walletDraft[s][w]
  BY <1>8 DEF TypeInv, TypeOK
<1>11. \A w \in Wallets :
         WalletSeen(s, w)' = IF w = v THEN [balance |-> b, version |-> n] ELSE WalletSeen(s, w)
  BY <1>8, <1>9, <1>10 DEF WalletSeen
<1>12. b = WalletSeen(s, v).balance + Effect(r) /\ Effect(r) \in Int
  <2>1. WalletSeen(s, v).balance \in Int
    BY <1>7, WalletSeenType DEF TypeInv, WalletRow
  <2> QED
    BY <1>3, <1>6, <1>7, <2>1 DEF BalanceAfter
<1> QED
  BY <1>1, <1>7, <1>8, <1>11, <1>12, ProcessedKeepsSums

(* What a session is about to settle stays while others step: nobody else  *)
(* moves a wallet it has written, and no command changes.                  *)
LEMMA OthersKeepSums ==
  ASSUME TypeInv, TypeInv', OwnInv, LedgerInv, ReversalInv, SumInv, NEW s \in Sessions, StepOf(s),
         NEW t \in Sessions, t # s
  PROVE  Moved(t)'
<1>1. rowDraft'[t] = rowDraft[t] /\ walletDraft'[t] = walletDraft[t]
  BY OthersUntouched DEF Untouched, Bystander
<1>2. ASSUME NEW w, NEW k \in ProcessedBy(t, w), NEW r, r = rowDraft[t][k]
      PROVE  Effect(r)' = Effect(r)
  <2>1. k \in Keys /\ r # None /\ r.status = "PROCESSED"
    BY <1>2 DEF ProcessedBy
  <2>2. r.cmd.kind = "ROLLBACK" => r.reference \in Keys /\ wagers[r.reference] # None
    BY <1>2, <2>1, ReferenceThere DEF Reversals
  <2> QED
    BY <2>2, EffectStays
<1>3. ASSUME NEW w PROVE ToSettle(t, w)' = ToSettle(t, w)
  <2>1. ProcessedBy(t, w)' = ProcessedBy(t, w)
    BY <1>1 DEF ProcessedBy
  <2>2. ASSUME NEW k \in ProcessedBy(t, w)
        PROVE  Effect(rowDraft[t][k])' = Effect(rowDraft[t][k])
    <3>1. PICK r : r = rowDraft[t][k] /\ r = rowDraft'[t][k]
      BY <1>1
    <3>2. Effect(r)' = Effect(r)
      BY <1>2, <3>1
    <3> QED
      BY <3>1, <3>2 DEF Effect
  <2> QED
    BY <2>1, <2>2 DEF ToSettle
<1>4. ASSUME NEW w \in Wallets
      PROVE  \/ WalletSeen(t, w)' = WalletSeen(t, w) /\ wallets'[w] = wallets[w]
             \/ /\ WalletSeen(t, w) = wallets[w] /\ WalletSeen(t, w)' = wallets'[w]
                /\ wallets[w].balance \in Int /\ wallets'[w].balance \in Int
  <2>1. CASE walletDraft[t][w] = None
    <3>1. wallets[w].balance \in Int /\ wallets'[w].balance \in Int
      BY DEF TypeInv, TypeOK, WalletRow
    <3> QED
      BY <1>1, <2>1, <3>1 DEF WalletSeen
  <2>2. CASE walletDraft[t][w] # None
    <3>1. locks[t][w] \in Exclusive
      BY <2>2 DEF LedgerInv, WritesAreLocked
    <3>2. CASE ~Commit(s)
      BY <1>1, <2>2, <3>2, OnlyCommitPublishes DEF WalletSeen, committed
    <3>3. CASE Commit(s)
      <4>1. wallets'[w] = WalletSeen(s, w)
        BY <3>3 DEF Commit
      <4>2. WalletSeen(s, w) = wallets[w]
        BY <3>1, DraftOfNobodyElse DEF TypeInv
      <4> QED
        BY <1>1, <2>2, <4>1, <4>2 DEF WalletSeen
    <3> QED
      BY <3>2, <3>3
  <2> QED
    BY <2>1, <2>2
<1> QED
  BY <1>3, <1>4, SameToSettle

(* Nobody has anything to settle. *)
LEMMA InitSumInv == Init => SumInv
<1> SUFFICES ASSUME Init, NEW s \in Sessions, NEW w \in Wallets
             PROVE  /\ IsFiniteSet(ToSettle(s, w)) /\ \A p \in ToSettle(s, w) : p.effect \in Int
                    /\ WalletSeen(s, w).balance = wallets[w].balance + Total(ToSettle(s, w))
  BY DEF SumInv, Moved
<1>1. /\ \A k \in Keys : rowDraft[s][k] = None
      /\ WalletSeen(s, w) = wallets[w] /\ wallets[w].balance \in Int
  BY InitTypeInv DEF Init, NoRows, NoWallets, WalletSeen, TypeInv, TypeOK, WalletRow
<1>2. ToSettle(s, w) = {}
  BY <1>1 DEF ToSettle, ProcessedBy
<1>3. PICK S : S = ToSettle(s, w) /\ S = {}
  BY <1>2
<1>4. IsFiniteSet(S) /\ Total(S) = 0
  BY <1>3, TotalOfNothing, FS_EmptySet
<1> QED
  BY <1>1, <1>3, <1>4

(* No step moves a wallet by anything else than what it settles. *)
LEMMA NextKeepsSums ==
  /\ TypeInv /\ OwnInv /\ LedgerInv /\ ReversalInv /\ EntryInv /\ SumInv
  /\ TypeInv' /\ [Next]_vars
  => SumInv'
<1> SUFFICES ASSUME TypeInv, OwnInv, LedgerInv, ReversalInv, EntryInv, SumInv, TypeInv',
                    [Next]_vars
             PROVE  SumInv'
  OBVIOUS
<1>1. CASE UNCHANGED vars
  <2>1. wagers' = wagers /\ wallets' = wallets /\ rowDraft' = rowDraft /\ walletDraft' = walletDraft
    BY <1>1 DEF vars, committed, drafts
  <2>2. \A s, w : ToSettle(s, w)' = ToSettle(s, w) /\ WalletSeen(s, w)' = WalletSeen(s, w)
    BY <2>1 DEF ToSettle, ProcessedBy, Effect, WalletSeen
  <2> QED
    BY <2>1, <2>2, SameToSettle DEF SumInv
<1>2. ASSUME NEW s \in Sessions, StepOf(s) PROVE SumInv'
  <2>1. ASSUME NEW t \in Sessions PROVE Moved(t)'
    <3>1. CASE StepOf(t)
      BY <3>1, StepKinds, EndKeepsSums, QuietKeepsSums, PostKeepsSums,
         InsertKeepsSums, MoveKeepsSums
    <3>2. CASE t # s
      BY <1>2, <3>2, OthersKeepSums
    <3> QED
      BY <1>2, <3>1, <3>2
  <2> QED
    BY <2>1 DEF SumInv
<1> QED
  BY <1>1, <1>2 DEF Next, StepOf

(* The whole inductive invariant, in every reachable state. *)
LEMMA SumsAlways ==
  Spec => [](TypeInv /\ OwnInv /\ LedgerInv /\ ReversalInv /\ EntryInv /\ SumInv)
<1>1. Init => SumInv
  BY InitSumInv
<1>2. /\ TypeInv /\ OwnInv /\ LedgerInv /\ ReversalInv /\ EntryInv /\ SumInv
      /\ TypeInv' /\ [Next]_vars
      => SumInv'
  BY NextKeepsSums
<1> QED
  BY <1>1, <1>2, EntriesAlways, PTL DEF Spec

-----------------------------------------------------------------------------
(* The refinement *)

(* What WagerLedger sums is the total over the commands of a wallet. *)
LEMMA NetIsTotal == \A S, w : Ledger!Net(S, w) = Total({p \in S : p.wallet = w})
BY DEF Ledger!Net, Ledger!MapThenSumSet, Ledger!MapThenFoldSet,
       Total, MapThenSumSet, MapThenFoldSet

(* What a commit does to each row, and to the effect it stands for.        *)
LEMMA CommitOfRow ==
  ASSUME TypeInv, OwnInv, ReversalInv, NEW s \in Sessions, Commit(s), NEW k \in Keys,
         NEW q, q = wagers'[k], q # None, q.status = "PROCESSED"
  PROVE  \/ /\ q = wagers[k] /\ Effect(q)' = Effect(q)
         \/ /\ rowDraft[s][k] = q /\ Effect(q)' = Effect(q)
            /\ wagers[k] = None \/ wagers[k].status # "PROCESSED"
<1>1. q = RowSeen(s, k) /\ StepOf(s)
  BY DEF Commit, StepOf, Statement
<1>2. q.cmd.kind = "ROLLBACK" => q.reference \in Keys /\ wagers[q.reference] # None
  BY <1>1, ReferenceThere DEF RowSeen, Reversals
<1>3. Effect(q)' = Effect(q)
  BY <1>1, <1>2, EffectStays
<1>4. CASE Drafted(s, k)
  BY <1>1, <1>3, <1>4, DraftedIsOpen DEF RowSeen, Drafted
<1>5. CASE ~Drafted(s, k)
  BY <1>1, <1>3, <1>5 DEF RowSeen, Drafted
<1> QED
  BY <1>4, <1>5

(* A commit settles what the session was about to, and nothing else.       *)
LEMMA CommitSettles ==
  ASSUME TypeInv, OwnInv, ReversalInv, NEW s \in Sessions, Commit(s)
  PROVE  /\ Settled \subseteq Settled'
         /\ \A p, q \in Settled' : p.key = q.key => p = q
         /\ \A w \in Wallets : {p \in Settled' \ Settled : p.wallet = w} = ToSettle(s, w)
<1> DEFINE Of(k, r) == [key |-> k, wallet |-> r.cmd.wallet, effect |-> Effect(r)]
<1>1. StepOf(s)
  BY DEF StepOf, Statement
<1>2. \A p : p \in Settled <=>
        \E k \in Keys : \E r : r = wagers[k] /\ r # None /\ r.status = "PROCESSED" /\ p = Of(k, r)
  BY DEF Settled
<1>3. \A p : p \in Settled' <=>
        \E k \in Keys : \E r : r = wagers'[k] /\ r # None /\ r.status = "PROCESSED" /\ p = Of(k, r)
  <2>1. \A k : [key |-> k, wallet |-> wagers[k].cmd.wallet, effect |-> Effect(wagers[k])]'
                 = [key |-> k, wallet |-> wagers'[k].cmd.wallet, effect |-> Effect(wagers[k])']
    OBVIOUS
  <2>2. ASSUME NEW k \in Keys, NEW r, r = wagers'[k], r # None, r.status = "PROCESSED"
        PROVE  Effect(wagers[k])' = Effect(r)
    <3>1. Effect(wagers[k])' = Effect(r)'
      BY <2>2 DEF Effect
    <3>2. Effect(r)' = Effect(r)
      BY <2>2, CommitOfRow
    <3> QED
      BY <3>1, <3>2
  <2>3. \A p : p \in Settled' <=>
          \E k \in Keys : /\ wagers'[k] # None /\ wagers'[k].status = "PROCESSED"
                          /\ p = [key |-> k, wallet |-> wagers'[k].cmd.wallet,
                                  effect |-> Effect(wagers[k])']
    BY DEF Settled
  <2> QED
    BY <2>2, <2>3
<1>4. \A p, w : p \in ToSettle(s, w) <=>
        \E k \in Keys : \E r : /\ r = rowDraft[s][k] /\ r # None /\ r.status = "PROCESSED"
                              /\ r.cmd.wallet = w /\ p = Of(k, r)
  BY DEF ToSettle, ProcessedBy
<1>5. \A k, r : Of(k, r).key = k /\ Of(k, r).wallet = r.cmd.wallet
  OBVIOUS
<1> HIDE DEF Of
<1>6. Settled \subseteq Settled'
  <2>1. ASSUME NEW k \in Keys, wagers[k] # None, wagers[k].status = "PROCESSED"
        PROVE  wagers'[k] = wagers[k]
    BY <1>1, <2>1, StepKeepsSettled DEF Terminal
  <2> QED
    BY <1>2, <1>3, <2>1
<1>7. \A p, q \in Settled' : p.key = q.key => p = q
  BY <1>3, <1>5
<1>8. ASSUME NEW w \in Wallets, NEW p, p \in Settled', p \notin Settled, p.wallet = w
      PROVE  p \in ToSettle(s, w)
  <2>1. PICK k \in Keys : \E r : r = wagers'[k] /\ r # None /\ r.status = "PROCESSED" /\ p = Of(k, r)
    BY <1>3, <1>8
  <2>2. PICK r : r = wagers'[k] /\ r # None /\ r.status = "PROCESSED" /\ p = Of(k, r)
    BY <2>1
  <2>3. r # wagers[k]
    BY <1>2, <1>8, <2>2
  <2>4. rowDraft[s][k] = r
    BY <2>2, <2>3, CommitOfRow
  <2> QED
    BY <1>4, <1>5, <1>8, <2>2, <2>4
<1>9. ASSUME NEW w \in Wallets, NEW p \in ToSettle(s, w)
      PROVE  p \in Settled' /\ p \notin Settled /\ p.wallet = w
  <2>1. PICK k \in Keys : \E r : /\ r = rowDraft[s][k] /\ r # None /\ r.status = "PROCESSED"
                                /\ r.cmd.wallet = w /\ p = Of(k, r)
    BY <1>4, <1>9
  <2>2. PICK r : /\ r = rowDraft[s][k] /\ r # None /\ r.status = "PROCESSED"
                 /\ r.cmd.wallet = w /\ p = Of(k, r)
    BY <2>1
  <2>3. wagers'[k] = r
    BY <2>2 DEF Commit, RowSeen
  <2>4. wagers[k] = None \/ wagers[k].status # "PROCESSED"
    BY <2>2, DraftedIsOpen DEF Drafted
  <2> QED
    BY <1>2, <1>3, <1>5, <2>2, <2>3, <2>4
<1>10. \A w \in Wallets : {p \in Settled' \ Settled : p.wallet = w} = ToSettle(s, w)
  BY <1>8, <1>9
<1> QED
  BY <1>6, <1>7, <1>10

(* Retries, replays, deadlocks and crashes included, the statements of all *)
(* sessions amount to settling commands one commit at a time: each once,   *)
(* moving its wallet by its own effect and leaving none below zero.        *)
THEOREM ImplementsTheLedger == Spec => ImplementsLedger
<1> DEFINE Inv == TypeInv /\ OwnInv /\ LedgerInv /\ ReversalInv /\ EntryInv /\ SumInv
           balances == [w \in Wallets |-> wallets[w].balance]
<1>1. Init => Ledger!Init
  <2> SUFFICES ASSUME Init PROVE Ledger!Init
    OBVIOUS
  <2>1. balances = Opening
    BY WalletsAssumption DEF Init
  <2>2. Settled = {}
    BY DEF Init, Settled, NoRows
  <2> QED
    BY <2>1, <2>2 DEF Ledger!Init
<1>2. Inv /\ Inv' /\ [Next]_vars => [Ledger!Settle]_<<balances, Settled>>
  <2> SUFFICES ASSUME Inv, Inv', [Next]_vars
               PROVE  Ledger!Settle \/ UNCHANGED <<balances, Settled>>
    OBVIOUS
  <2>1. ASSUME wagers' = wagers, wallets' = wallets
        PROVE  UNCHANGED <<balances, Settled>>
    BY <2>1 DEF Settled, Effect
  <2>2. ASSUME NEW s \in Sessions, StepOf(s), ~Commit(s)
        PROVE  UNCHANGED <<balances, Settled>>
    BY <2>1, <2>2, OnlyCommitPublishes DEF committed
  <2>3. ASSUME NEW s \in Sessions, Commit(s)
        PROVE  Ledger!Settle
    <3>1. /\ Settled \subseteq Settled'
          /\ \A p, q \in Settled' : p.key = q.key => p = q
          /\ \A w \in Wallets : {p \in Settled' \ Settled : p.wallet = w} = ToSettle(s, w)
      BY <2>3, CommitSettles
    <3>2. ASSUME NEW w \in Wallets
          PROVE  wallets'[w].balance = wallets[w].balance + Ledger!Net(Settled' \ Settled, w)
      <4>1. PICK S : S = Settled' \ Settled
        OBVIOUS
      <4>2. Ledger!Net(S, w) = Total(ToSettle(s, w))
        BY <3>1, <4>1, NetIsTotal
      <4>3. wallets'[w] = WalletSeen(s, w)
        BY <2>3 DEF Commit
      <4>4. WalletSeen(s, w).balance = wallets[w].balance + Total(ToSettle(s, w))
        BY DEF SumInv, Moved
      <4> QED
        BY <4>1, <4>2, <4>3, <4>4
    <3>3. \A w \in Wallets : wallets'[w].balance >= 0
      BY DEF LedgerInv, CommittedSound, Sound
    <3> QED
      BY <3>1, <3>2, <3>3 DEF Ledger!Settle
  <2>4. CASE UNCHANGED vars
    BY <2>1, <2>4 DEF vars, committed
  <2> QED
    BY <2>2, <2>3, <2>4 DEF Next, StepOf
<1> QED
  BY <1>1, <1>2, SumsAlways, PTL DEF Spec, ImplementsLedger, Ledger!Spec
=============================================================================
