----------------------------- MODULE PartsProofs -----------------------------
(* Proofs about the state file, the decision function and the liquidation    *)
(* watch, for any keys, savers and crashes, any configurations and spreads,  *)
(* and any readings of the accounts.                                         *)
EXTENDS Strategy, StateFile, Margin, SumTheorems

-----------------------------------------------------------------------------
(* The state file. *)

LEMMA StoreInitInv == StoreInit => StoreInv
<1> SUFFICES ASSUME StoreInit PROVE StoreInv
  OBVIOUS
<1> USE DEF StoreInit
<1>1. ASSUME NEW s \in Savers PROVE SaveSound(s)
  BY <1>1 DEF SaveSound, Calls
<1>2. OneSavePerKey
  BY DEF OneSavePerKey
<1>3. SaveSurvives
  BY DEF SaveSurvives, Empty
<1> QED BY <1>1, <1>2, <1>3 DEF StoreInv

\* A saver whose own state, and whose key, a step leaves alone.
LEMMA OtherSave ==
  ASSUME NEW s, SaveSound(s), doing'[s] = doing[s], saving'[s] = saving[s], temp'[s] = temp[s],
         doing[s] # "idle" => kept[saving[s].key] \subseteq kept'[saving[s].key]
                              /\ file'[saving[s].key] = file[saving[s].key]
  PROVE  SaveSound(s)'
BY DEF SaveSound

LEMMA BeginSaveInv ==
  ASSUME StoreInv, NEW s \in Savers, NEW k \in Keys, BeginSave(s, k) PROVE StoreInv'
<1> USE DEF StoreInv, BeginSave
<1>1. \A j \in Keys : kept[j] \subseteq kept'[j]
  OBVIOUS
<1>2. saving'[s] = [key |-> k, save |-> saves + 1] /\ doing'[s] = "create" /\ saves + 1 \in kept'[k]
  OBVIOUS
<1>3. SaveSound(s)'
  BY <1>2 DEF SaveSound, Calls
<1>4. ASSUME NEW o \in Savers, o # s PROVE SaveSound(o)' /\ doing'[o] = doing[o] /\ saving'[o] = saving[o]
  <2>1. doing'[o] = doing[o] /\ saving'[o] = saving[o] /\ temp'[o] = temp[o]
    BY <1>4
  <2>2. doing[o] # "idle" => saving[o].key \in Keys
    BY <1>4 DEF SaveSound
  <2> QED BY <1>1, <1>4, <2>1, <2>2, OtherSave
<1>5. OneSavePerKey'
  BY <1>2, <1>4 DEF OneSavePerKey
<1>6. SaveSurvives'
  BY <1>1 DEF SaveSurvives
<1> QED BY <1>3, <1>4, <1>5, <1>6

LEMMA PrepareInv == ASSUME StoreInv, NEW s \in Savers, Prepare(s) PROVE StoreInv'
<1> USE DEF StoreInv, Prepare
<1>1. UNCHANGED <<saving, file, behind, kept>>
  OBVIOUS
<1>2. ASSUME NEW o \in Savers, o # s PROVE doing'[o] = doing[o] /\ temp'[o] = temp[o]
  BY <1>2
<1>3. doing'[s] \in {"write", "sync", "rename"} /\ (doing'[s] = "rename" => temp'[s] = "synced")
  BY DEF NextCall, Made
<1>4. SaveSound(s)'
  BY <1>1, <1>3 DEF SaveSound, Calls
<1>5. ASSUME NEW o \in Savers, o # s PROVE SaveSound(o)'
  BY <1>1, <1>2, <1>5, OtherSave
<1>6. OneSavePerKey'
  <2>1. \A o \in Savers : doing'[o] # "idle" => doing[o] # "idle"
    BY <1>2, <1>3
  <2> QED BY <1>1, <2>1 DEF OneSavePerKey
<1>7. SaveSurvives'
  BY <1>1 DEF SaveSurvives
<1> QED BY <1>1, <1>4, <1>5, <1>6, <1>7

\* Steps at the end of a save leave the others their keys.
LEMMA OthersKeys ==
  ASSUME StoreInv, NEW s \in Savers, doing[s] # "idle", NEW o \in Savers, o # s, doing[o] # "idle"
  PROVE  saving[o].key \in Keys /\ saving[o].key # saving[s].key
BY DEF StoreInv, SaveSound, OneSavePerKey

LEMMA RenameInv == ASSUME StoreInv, NEW s \in Savers, Rename(s) PROVE StoreInv'
<1> USE DEF StoreInv, Rename
<1> DEFINE k == saving[s].key
           new == [save |-> saving[s].save, onDisk |-> TRUE]
<1>1. k \in Keys /\ saving[s].save \in kept[k] /\ temp[s] = "synced"
  BY DEF SaveSound
<1>2. UNCHANGED <<saving, kept>> /\ doing'[s] = "syncDir" /\ temp'[s] = "none" /\ file'[k] = new
  BY <1>1
<1>3. \A j \in Keys \ {k} : file'[j] = file[j] /\ behind'[j] = behind[j]
  BY <1>1
<1>4. behind'[k] = behind[k] \cup {file[k]}
  BY <1>1
<1>5. ASSUME NEW o \in Savers, o # s PROVE doing'[o] = doing[o] /\ temp'[o] = temp[o]
  BY <1>5
<1>6. SaveSound(s)'
  BY <1>1, <1>2 DEF SaveSound, Calls
<1>7. ASSUME NEW o \in Savers, o # s PROVE SaveSound(o)'
  BY <1>2, <1>3, <1>5, <1>7, OthersKeys, OtherSave
<1>8. OneSavePerKey'
  BY <1>2, <1>5 DEF OneSavePerKey
<1>9. SaveSurvives'
  <2>1. ASSUME NEW j \in Keys, NEW f \in {file'[j]} \cup behind'[j] PROVE f.save \in kept'[j] /\ f.onDisk
    <3>1. CASE j = k /\ f = new
      BY <1>1, <1>2, <3>1
    <3>2. CASE f \in {file[j]} \cup behind[j]
      BY <1>2, <3>2 DEF SaveSurvives
    <3> QED BY <1>2, <1>3, <1>4, <2>1, <3>1, <3>2
  <2> QED BY <2>1 DEF SaveSurvives
<1> QED BY <1>6, <1>7, <1>8, <1>9

LEMMA SyncDirInv == ASSUME StoreInv, NEW s \in Savers, SyncDir(s) PROVE StoreInv'
<1> USE DEF StoreInv, SyncDir, Settled
<1> DEFINE k == saving[s].key
<1>1. k \in Keys /\ file[k] = [save |-> saving[s].save, onDisk |-> TRUE]
  BY DEF SaveSound
<1>2. UNCHANGED <<saving, temp, file>> /\ doing'[s] = "idle" /\ kept'[k] = {saving[s].save}
  BY <1>1
<1>3. \A j \in Keys \ {k} : kept'[j] = kept[j]
  BY <1>1
<1>4. ASSUME NEW o \in Savers, o # s PROVE doing'[o] = doing[o]
  BY <1>4
<1>5. SaveSound(s)'
  BY <1>2 DEF SaveSound, Calls
<1>6. ASSUME NEW o \in Savers, o # s PROVE SaveSound(o)'
  <2>1. doing[o] # "idle" => saving[o].key \in Keys \ {k}
    BY <1>6, OthersKeys
  <2>2. doing[o] # "idle" => kept'[saving[o].key] = kept[saving[o].key]
    BY <1>3, <2>1
  <2>3. SaveSound(o)
    OBVIOUS
  <2> HIDE DEF StoreInv, SyncDir
  <2> QED BY <1>2, <1>4, <1>6, <2>2, <2>3, OtherSave
<1>7. OneSavePerKey'
  BY <1>2, <1>4 DEF OneSavePerKey
<1>8. SaveSurvives'
  <2>1. \A j \in Keys : behind'[j] = {}
    OBVIOUS
  <2> QED BY <1>1, <1>2, <1>3, <2>1 DEF SaveSurvives
<1> QED BY <1>2, <1>5, <1>6, <1>7, <1>8

LEMMA SaveFailsInv == ASSUME StoreInv, NEW s \in Savers, SaveFails(s) PROVE StoreInv'
<1> USE DEF StoreInv, SaveFails
<1>1. UNCHANGED <<saving, file, behind, kept>> /\ doing'[s] = "idle"
  OBVIOUS
<1>2. ASSUME NEW o \in Savers, o # s PROVE doing'[o] = doing[o] /\ temp'[o] = temp[o]
  BY <1>2
<1>3. SaveSound(s)'
  BY <1>1 DEF SaveSound, Calls
<1>4. ASSUME NEW o \in Savers, o # s PROVE SaveSound(o)'
  BY <1>1, <1>2, <1>4, OtherSave
<1>5. OneSavePerKey'
  BY <1>1, <1>2 DEF OneSavePerKey
<1>6. SaveSurvives'
  BY <1>1 DEF SaveSurvives
<1> QED BY <1>1, <1>3, <1>4, <1>5, <1>6

\* Whatever is left of a file that was on the disk is that file.
LEMMA DownInv == ASSUME StoreInv, Kill \/ PowerLoss PROVE StoreInv'
<1> USE DEF StoreInv
<1>1. \A s \in Savers : doing'[s] = "idle"
  BY DEF Kill, PowerLoss, Down
<1>2. OneSavePerKey' /\ \A s \in Savers : SaveSound(s)'
  BY <1>1 DEF OneSavePerKey, SaveSound, Calls
<1>3. kept' = kept /\ saving' = saving
  BY DEF Kill, PowerLoss, Down
<1>4. ASSUME NEW k \in Keys, NEW f \in {file'[k]} \cup behind'[k] PROVE f.save \in kept[k] /\ f.onDisk
  <2>1. CASE Kill
    BY <1>4, <2>1 DEF Kill, SaveSurvives
  <2>2. CASE PowerLoss
    <3>1. behind'[k] = {}
      BY <2>2 DEF PowerLoss, Settled
    <3>2. PICK g \in {file[k]} \cup behind[k] : file'[k] = Left(g)
      BY <2>2 DEF PowerLoss
    <3>3. g.onDisk /\ g.save \in kept[k]
      BY DEF SaveSurvives
    <3> QED BY <1>4, <3>1, <3>2, <3>3 DEF Left
  <2> QED BY <2>1, <2>2
<1>5. file' = [k \in Keys |-> file'[k]] /\ behind' = [k \in Keys |-> behind'[k]]
  BY DEF Kill, PowerLoss, Settled
<1>6. doing' = [s \in Savers |-> doing'[s]] /\ temp' = [s \in Savers |-> temp'[s]]
  BY DEF Kill, PowerLoss, Down
<1> QED BY <1>2, <1>3, <1>4, <1>5, <1>6 DEF SaveSurvives

LEMMA StoreStutter ==
  ASSUME StoreInv, UNCHANGED <<doing, saving, temp, file, behind, kept>> PROVE StoreInv'
<1>1. \A s \in Savers : SaveSound(s)'
  BY DEF StoreInv, SaveSound
<1> QED BY <1>1 DEF StoreInv, OneSavePerKey, SaveSurvives

LEMMA StoreStep == ASSUME StoreInv, [StoreNext]_storeVars PROVE StoreInv'
<1>1. ASSUME NEW s \in Savers, \/ \E k \in Keys : BeginSave(s, k)
                               \/ Prepare(s) \/ Rename(s) \/ SyncDir(s) \/ SaveFails(s)
      PROVE  StoreInv'
  BY <1>1, BeginSaveInv, PrepareInv, RenameInv, SyncDirInv, SaveFailsInv
<1>2. CASE Kill \/ PowerLoss
  BY <1>2, DownInv
<1>3. ASSUME Close \/ Start \/ UNCHANGED storeVars PROVE StoreInv'
  BY <1>3, StoreStutter DEF Close, Start, storeVars
<1> QED BY <1>1, <1>2, <1>3 DEF StoreNext

\* A save that returned nil is what a key loads, whole, however often calls fail, the process is
\* killed or the power is lost, until a later save is begun ("durable, atomic", store.go:1).
THEOREM StoreSafe == StoreSpec => []SaveSurvives
<1>1. StoreInv => SaveSurvives
  BY DEF StoreInv
<1> QED BY <1>1, StoreInitInv, StoreStep, PTL DEF StoreSpec

-----------------------------------------------------------------------------
(* The decision function. *)

Steps == [dir : Dirs, qty : 1..StepQty, entry : Edges]

\* The band is between nothing and the whole capacity.
LEMMA BandRange ==
  ASSUME params \in Configs
  PROVE  Band \in Nat /\ Band <= params.maxSteps /\ params.maxSteps \in Nat \ {0}
BY StrategyAssumption DEF Band, Least

\* The counter of a ledger is the number of its steps, in one direction or the other.
LEMMA CounterIsLength ==
  ASSUME NEW s \in Seq(Steps)
  PROVE  Counter(s) \in Int /\ Magnitude(Counter(s)) = Len(s)
<1>1. CASE s = <<>>
  BY <1>1 DEF Counter, Magnitude
<1>2. CASE s # <<>>
  <2>1. s[1] \in Steps /\ Len(s) \in Nat
    BY <1>2
  <2>2. s[1].dir \in {-1, 1}
    BY <2>1 DEF Steps, Dirs
  <2>3. CASE s[1].dir = 1
    BY <1>2, <2>1, <2>3 DEF Counter, Magnitude
  <2>4. CASE s[1].dir = -1
    BY <1>2, <2>1, <2>4 DEF Counter, Magnitude
  <2> QED BY <2>2, <2>3, <2>4
<1> QED BY <1>1, <1>2

\* Every settlement brings the band up to date, whatever steps it leaves.
LEMMA BookInStep ==
  ASSUME BandInv, NEW s \in Seq(Steps), Book(s)
  PROVE  BandInStep'
<1> DEFINE n == Len(s)
<1>1. Band \in Nat /\ Band <= params.maxSteps /\ params.maxSteps \in Nat \ {0}
  BY BandRange DEF BandInv, LedgerSound
<1>2. n \in Nat /\ Magnitude(Counter(s)) = n
  BY CounterIsLength
<1>3. params' = params /\ steps' = s /\ Band' = Band
  BY DEF Book, Band
<1>4. lowest' = IF n >= params.maxSteps THEN params.maxSteps ELSE IF lowest < n THEN lowest ELSE n
  BY <1>2 DEF Book, Least
<1>5. capEngaged' <=> (IF Band > 0 /\ n <= params.maxSteps - Band THEN FALSE
                       ELSE capEngaged \/ n >= params.maxSteps)
  BY <1>2 DEF Book, SyncCapEngaged
<1>6. lowest \in Nat /\ (~capEngaged => lowest <= params.maxSteps - Band)
  BY DEF BandInv, BandInStep
<1>7. lowest' \in Nat /\ lowest' <= n
  BY <1>1, <1>2, <1>4, <1>6
<1>8. ~capEngaged' => lowest' <= params.maxSteps - Band
  BY <1>1, <1>2, <1>4, <1>5, <1>6
<1>9. Band > 0 /\ capEngaged' => n > params.maxSteps - Band
  BY <1>1, <1>2, <1>5
<1>10. capEngaged' \in BOOLEAN
  BY DEF Book, SyncCapEngaged, BandInv, BandInStep
<1> QED BY <1>3, <1>7, <1>8, <1>9, <1>10 DEF BandInStep

LEMMA StrategyInitInv == StrategyInit => BandInv
<1> SUFFICES ASSUME StrategyInit PROVE BandInv
  OBVIOUS
<1>1. params \in Configs /\ Accepted(params) /\ steps = <<>>
  BY DEF StrategyInit
<1>2. LedgerSound
  BY <1>1 DEF LedgerSound
<1>3. BandInStep
  <2>1. Band \in Nat /\ Band <= params.maxSteps /\ params.maxSteps \in Nat
    BY <1>1, BandRange
  <2>2. Len(steps) = 0 /\ lowest = 0 /\ ~capEngaged /\ capEngaged \in BOOLEAN
    BY DEF StrategyInit
  <2> QED BY <2>1, <2>2 DEF BandInStep
<1> QED BY <1>2, <1>3 DEF BandInv

\* What is opened is a step whose entry reaches the threshold, up to the mean.
LEMMA OpenInv ==
  ASSUME BandInv, NEW q \in Quotes, NEW mu \in {0, 1}, NEW vol \in Sigmas, NEW h \in 1..StepQty,
         SettleOpen(q, mu, vol, h)
  PROVE  BandInv'
<1>1. PICK d \in ToOpen(q, mu, vol) : Book(Append(steps, [dir |-> d, qty |-> h, entry |-> q.edge[d]]))
  BY DEF SettleOpen
<1>2. d \in Dirs /\ MayOpen(d, q, mu, vol)
  BY <1>1 DEF ToOpen
<1>3. q.edge[d] \in Edges /\ q.edge[d] \in Int /\ EdgeBps \in Nat /\ vol \in Nat
  <2>1. q.edge \in [Dirs -> Edges]
    BY DEF Quotes
  <2> QED BY <1>2, <2>1, StrategyAssumption
<1>4. q.edge[d] >= EdgeBps - 1
  <2>1. Threshold(d, vol) \in Int /\ Threshold(d, vol) >= EdgeBps
    BY <1>3 DEF Threshold
  <2>2. d * mu \in Int /\ d * mu <= 1
    BY <1>2 DEF Dirs
  <2>3. q.edge[d] + d * mu >= Threshold(d, vol)
    BY <1>2 DEF MayOpen, Deviation
  <2> QED BY <1>3, <2>1, <2>2, <2>3
<1> DEFINE st == [dir |-> d, qty |-> h, entry |-> q.edge[d]]
<1>5. st \in Steps
  BY <1>2, <1>3 DEF Steps
<1>6. steps \in Seq(Steps) /\ Append(steps, st) \in Seq(Steps)
  BY <1>5 DEF BandInv, LedgerSound, Steps
<1>7. BandInStep'
  BY <1>1, <1>6, BookInStep
<1>8. LedgerSound'
  <2>1. params' = params /\ steps' = Append(steps, st)
    BY <1>1 DEF Book
  <2>2. \A i \in 1..Len(Append(steps, st)) : Append(steps, st)[i].entry >= EdgeBps - 1
    <3>1. \A i \in 1..Len(steps) : steps[i].entry >= EdgeBps - 1
      BY DEF BandInv, LedgerSound
    <3> QED BY <1>4, <1>6, <3>1
  <2> QED BY <1>6, <2>1, <2>2 DEF BandInv, LedgerSound, Accepted, Steps
<1> QED BY <1>7, <1>8 DEF BandInv

LEMMA CloseInv ==
  ASSUME BandInv, NEW q \in Quotes, NEW cl \in 1..StepQty, SettleClose(q, cl)
  PROVE  BandInv'
<1>1. PICK i \in ToClose(q) :
        /\ cl <= steps[i].qty
        /\ \/ Book(SubSeq(steps, 1, i - 1) \o SubSeq(steps, i + 1, Len(steps)))
           \/ cl # steps[i].qty /\ Book([steps EXCEPT ![i].qty = @ - cl])
  BY DEF SettleClose
<1>2. i \in 1..Len(steps)
  BY <1>1 DEF ToClose, Candidates
<1>3. steps \in Seq(Steps) /\ \A j \in 1..Len(steps) : steps[j].entry >= EdgeBps - 1
  BY DEF BandInv, LedgerSound, Steps
<1>4. ASSUME NEW s \in Seq(Steps), Book(s), \A j \in 1..Len(s) : s[j].entry >= EdgeBps - 1 PROVE BandInv'
  <2>1. BandInStep'
    BY <1>4, BookInStep
  <2>2. LedgerSound'
    BY <1>4 DEF Book, BandInv, LedgerSound, Accepted, Steps
  <2> QED BY <2>1, <2>2 DEF BandInv
<1>5. CASE Book(SubSeq(steps, 1, i - 1) \o SubSeq(steps, i + 1, Len(steps)))
  <2> DEFINE a == SubSeq(steps, 1, i - 1)
             b == SubSeq(steps, i + 1, Len(steps))
  <2>1. a \in Seq(Steps) /\ b \in Seq(Steps)
    BY <1>2, <1>3
  <2>2. \A j \in 1..Len(a) : a[j].entry >= EdgeBps - 1
    BY <1>2, <1>3
  <2>3. \A j \in 1..Len(b) : b[j].entry >= EdgeBps - 1
    BY <1>2, <1>3
  <2> HIDE DEF a, b
  <2>4. a \o b \in Seq(Steps) /\ \A j \in 1..Len(a \o b) : (a \o b)[j].entry >= EdgeBps - 1
    BY <2>1, <2>2, <2>3
  <2> QED BY <1>4, <1>5, <2>4 DEF a, b
<1>6. CASE cl # steps[i].qty /\ Book([steps EXCEPT ![i].qty = @ - cl])
  <2> DEFINE st == [steps[i] EXCEPT !.qty = @ - cl]
             s == [steps EXCEPT ![i] = st]
  <2>1. steps[i] \in Steps
    BY <1>2, <1>3
  <2>2. st \in Steps /\ st.entry = steps[i].entry
    BY <1>1, <1>6, <2>1, StrategyAssumption DEF Steps
  <2>3. Book(s)
    BY <1>6
  <2> HIDE DEF st
  <2>4. s \in Seq(Steps) /\ \A j \in 1..Len(s) : s[j].entry >= EdgeBps - 1
    BY <1>2, <1>3, <2>2
  <2> QED BY <1>4, <2>3, <2>4
<1> QED BY <1>1, <1>5, <1>6

LEMMA StrategyStep == ASSUME BandInv, [StrategyNext]_strategyVars PROVE BandInv'
<1>1. ASSUME UNCHANGED <<params, steps, capEngaged, lowest>> PROVE BandInv'
  BY <1>1 DEF BandInv, LedgerSound, BandInStep, Band, Accepted
<1>2. ASSUME NEW r \in BOOLEAN, NEW b \in BOOLEAN, ModeStep(r, b) PROVE BandInv'
  BY <1>1, <1>2 DEF ModeStep
<1>3. CASE SettleExit
  <2>1. <<>> \in Seq(Steps) /\ Book(<<>>)
    BY <1>3 DEF SettleExit
  <2>2. BandInStep'
    BY <2>1, BookInStep
  <2>3. LedgerSound'
    BY <2>1 DEF Book, BandInv, LedgerSound, Accepted
  <2> QED BY <2>2, <2>3 DEF BandInv
<1>4. CASE Reload
  <2>1. steps \in Seq(Steps) /\ params \in Configs
    BY DEF BandInv, LedgerSound, Steps
  <2>2. Magnitude(Counter(steps)) = Len(steps) /\ Len(steps) \in Nat
    BY <2>1, CounterIsLength
  <2>3. Band \in Nat /\ Band <= params.maxSteps /\ params.maxSteps \in Nat \ {0}
    BY <2>1, BandRange
  <2>4. UNCHANGED <<params, steps>> /\ Band' = Band
    BY <1>4 DEF Reload, Band
  <2>5. LedgerSound'
    BY <2>4 DEF BandInv, LedgerSound, Accepted
  <2>6. (capEngaged' <=> Len(steps) >= params.maxSteps) /\ capEngaged' \in BOOLEAN
        /\ lowest' = IF Len(steps) >= params.maxSteps THEN params.maxSteps ELSE 0
    <3> DEFINE full == Magnitude(Counter(steps)) >= params.maxSteps
    <3>1. full <=> Len(steps) >= params.maxSteps
      BY <2>2
    <3>2. capEngaged' = full /\ lowest' = IF full THEN params.maxSteps ELSE 0
      BY <1>4 DEF Reload
    <3>3. full \in BOOLEAN
      OBVIOUS
    <3> HIDE DEF full
    <3> QED BY <3>1, <3>2, <3>3
  <2>7. BandInStep'
    BY <2>2, <2>3, <2>4, <2>6 DEF BandInStep
  <2> QED BY <2>5, <2>7 DEF BandInv
<1> QED BY <1>1, <1>2, <1>3, <1>4, OpenInv, CloseInv DEF StrategyNext, strategyVars

\* Closing never adds a step.
LEMMA CloseShortens ==
  ASSUME BandInv, NEW q, NEW cl, SettleClose(q, cl)
  PROVE  Len(steps') \in Nat /\ Len(steps') <= Len(steps)
<1>1. steps \in Seq(Steps)
  BY DEF BandInv, LedgerSound, Steps
<1>2. PICK i \in 1..Len(steps) :
        \/ steps' = SubSeq(steps, 1, i - 1) \o SubSeq(steps, i + 1, Len(steps))
        \/ steps' = [steps EXCEPT ![i].qty = @ - cl]
  BY DEF SettleClose, ToClose, Candidates, Book
<1>3. CASE steps' = [steps EXCEPT ![i].qty = @ - cl]
  BY <1>1, <1>3
<1>4. CASE steps' = SubSeq(steps, 1, i - 1) \o SubSeq(steps, i + 1, Len(steps))
  <2> DEFINE a == SubSeq(steps, 1, i - 1)
             b == SubSeq(steps, i + 1, Len(steps))
  <2>1. a \in Seq(Steps) /\ b \in Seq(Steps) /\ Len(a) = i - 1 /\ Len(b) = Len(steps) - i
    BY <1>1
  <2> HIDE DEF a, b
  <2>2. Len(a \o b) = Len(a) + Len(b)
    BY <2>1
  <2>3. steps' = a \o b
    BY <1>4 DEF a, b
  <2> QED BY <1>1, <2>1, <2>2, <2>3
<1> QED BY <1>2, <1>3, <1>4

LEMMA CapStep ==
  ASSUME BandInv, StrategyNext, Len(steps') > Len(steps)
  PROVE  lowest <= params.maxSteps - Band
<1>1. steps \in Seq(Steps) /\ params \in Configs /\ Len(steps) \in Nat
  BY DEF BandInv, LedgerSound, Steps
<1>2. ~UNCHANGED steps
  BY <1>1
<1>3. ~SettleExit
  BY <1>1 DEF SettleExit, Book
<1>4. ASSUME NEW q, NEW cl, SettleClose(q, cl) PROVE FALSE
  <2>1. Len(steps') <= Len(steps) /\ Len(steps') \in Nat
    BY <1>1, <1>4, CloseShortens
  <2> QED BY <1>1, <2>1
<1>5. PICK q \in Quotes, mu \in {0, 1}, vol \in Sigmas, h \in 1..StepQty : SettleOpen(q, mu, vol, h)
  BY <1>2, <1>3, <1>4 DEF StrategyNext, ModeStep, Reload
<1>6. ~BandHolds /\ Magnitude(Counter(steps)) < params.maxSteps
  BY <1>5 DEF SettleOpen, ToOpen, MayOpen
<1>7. Band \in Nat /\ Band <= params.maxSteps /\ params.maxSteps \in Nat
  BY <1>1, BandRange
<1>8. Magnitude(Counter(steps)) = Len(steps)
  BY <1>1, CounterIsLength
<1>9. lowest \in Nat /\ lowest <= Len(steps) /\ (~capEngaged => lowest <= params.maxSteps - Band)
  BY DEF BandInv, BandInStep
<1>10. \/ Band <= 0 \/ ~capEngaged \/ Len(steps) <= params.maxSteps - Band
  BY <1>1, <1>6, <1>7, <1>8 DEF BandHolds
<1>11. lowest <= params.maxSteps
  BY <1>1, <1>6, <1>7, <1>8, <1>9
<1> QED BY <1>7, <1>9, <1>10, <1>11

-----------------------------------------------------------------------------
(* Closing the best of several steps. *)

\* Every rule of precedence orders the steps of a ledger.
LEMMA BeforeOrders ==
  ASSUME NEW q \in Quotes, steps \in Seq(Steps),
         NEW i \in 1..Len(steps), NEW j \in 1..Len(steps), NEW k \in 1..Len(steps)
  PROVE  /\ i # j => Before(i, j, q) \/ Before(j, i, q)
         /\ Before(i, j, q) /\ Before(j, k, q) => Before(i, k, q)
<1>1. ASSUME NEW x \in 1..Len(steps) PROVE Profit(steps[x], q) \in Int
  <2>1. steps[x].entry \in Int /\ -steps[x].dir \in Dirs
    <3>1. steps[x] \in Steps
      OBVIOUS
    <3>2. steps[x].entry \in Int /\ steps[x].dir \in {-1, 1}
      BY <3>1, StrategyAssumption DEF Steps, Dirs
    <3>3. ASSUME NEW d \in {-1, 1} PROVE -d \in {-1, 1}
      BY <3>3
    <3> QED BY <3>2, <3>3 DEF Dirs
  <2>2. q.edge \in [Dirs -> Edges]
    BY DEF Quotes
  <2>3. q.edge[-steps[x].dir] \in Int
    BY <2>1, <2>2, StrategyAssumption
  <2> QED BY <2>1, <2>3 DEF Profit
<1> DEFINE pi == Profit(steps[i], q)
           pj == Profit(steps[j], q)
           pk == Profit(steps[k], q)
<1>2. pi \in Int /\ pj \in Int /\ pk \in Int
  BY <1>1
<1> HIDE DEF pi, pj, pk
<1>3. Len(steps) \in Nat
  OBVIOUS
<1>4. CASE params.closeOrder = "lifo"
  <2>1. \A x, y \in 1..Len(steps) : Before(x, y, q) <=> x > y
    BY <1>4 DEF Before
  <2> QED BY <1>3, <2>1
<1>5. CASE params.closeOrder = "fifo"
  <2>1. \A x, y \in 1..Len(steps) : Before(x, y, q) <=> x < y
    BY <1>5 DEF Before
  <2> QED BY <1>3, <2>1
<1>6. CASE params.closeOrder \notin {"lifo", "fifo"}
  <2>1. Before(i, j, q) <=> pi > pj \/ (pi = pj /\ i < j)
    BY <1>6 DEF Before, pi, pj
  <2>2. Before(j, i, q) <=> pj > pi \/ (pj = pi /\ j < i)
    BY <1>6 DEF Before, pi, pj
  <2>3. Before(j, k, q) <=> pj > pk \/ (pj = pk /\ j < k)
    BY <1>6 DEF Before, pj, pk
  <2>4. Before(i, k, q) <=> pi > pk \/ (pi = pk /\ i < k)
    BY <1>6 DEF Before, pi, pk
  <2> QED BY <1>2, <1>3, <2>1, <2>2, <2>3, <2>4
<1> QED BY <1>4, <1>5, <1>6

\* Of any steps one comes before all others.
LEMMA BestExists ==
  ASSUME NEW q \in Quotes, steps \in Seq(Steps), NEW C \in SUBSET (1..Len(steps)), C # {}
  PROVE  \E i \in C : \A j \in C \ {i} : Before(i, j, q)
<1> DEFINE Best(D) == \E i \in D : \A j \in D \ {i} : Before(i, j, q)
           P == {n \in Nat : \A D \in SUBSET C : D \subseteq 1..n /\ D # {} => Best(D)}
<1>1. 0 \in P
  <2>1. 1..0 = {}
    OBVIOUS
  <2> QED BY <2>1
<1>2. ASSUME NEW n \in Nat, n \in P PROVE n + 1 \in P
  <2> SUFFICES ASSUME NEW D \in SUBSET C, D \subseteq 1..n + 1, D # {} PROVE Best(D)
    OBVIOUS
  <2> DEFINE E == D \ {n + 1}
  <2>1. E \in SUBSET C /\ E \subseteq 1..n
    OBVIOUS
  <2>2. CASE E = {}
    <3>1. D = {n + 1}
      BY <2>2
    <3> QED BY <3>1
  <2>3. CASE n + 1 \notin D
    BY <1>2, <2>3
  <2>4. CASE E # {} /\ n + 1 \in D
    <3>1. Best(E)
      BY <1>2, <2>1, <2>4
    <3>2. PICK i \in E : \A j \in E \ {i} : Before(i, j, q)
      BY <3>1
    <3>3. i \in 1..Len(steps) /\ n + 1 \in 1..Len(steps) /\ i # n + 1 /\ i \in D
      BY <2>4
    <3>4. CASE Before(i, n + 1, q)
      <4>1. \A j \in D \ {i} : Before(i, j, q)
        BY <3>2, <3>4
      <4> QED BY <3>3, <4>1
    <3>5. CASE Before(n + 1, i, q)
      <4>1. ASSUME NEW j \in D \ {n + 1} PROVE Before(n + 1, j, q)
        <5>1. CASE j = i
          BY <3>5, <5>1
        <5>2. CASE j # i
          <6>1. Before(i, j, q) /\ j \in 1..Len(steps)
            BY <3>2, <4>1, <5>2
          <6> QED BY <3>3, <3>5, <6>1, BeforeOrders
        <5> QED BY <5>1, <5>2
      <4> QED BY <2>4, <4>1
    <3> QED BY <3>3, <3>4, <3>5, BeforeOrders
  <2> QED BY <2>2, <2>3, <2>4
<1>3. \A n \in Nat : n \in P
  <2> HIDE DEF P
  <2> QED BY <1>1, <1>2, Induction
<1>4. Len(steps) \in Nat /\ Len(steps) \in P
  <2>1. Len(steps) \in Nat
    OBVIOUS
  <2> QED BY <1>3, <2>1
<1> QED BY <1>4

\* An engaged band closes a step at the right quote.
LEMMA BandReleases == ASSUME BandInv, MarketMoves PROVE BandCanRelease
<1> SUFFICES ASSUME Band > 0, capEngaged, mode # "PAUSED"
             PROVE  \E q \in Quotes : ToClose(q) # {}
  BY DEF BandCanRelease
<1>1. steps \in Seq(Steps) /\ params \in Configs /\ Accepted(params) /\ Len(steps) \in Nat
      /\ \A i \in 1..Len(steps) : steps[i].entry >= EdgeBps - 1
  BY DEF BandInv, LedgerSound, Steps
<1>2. Band \in Nat /\ Band <= params.maxSteps /\ params.maxSteps \in Nat
  BY <1>1, BandRange
<1>3. Len(steps) > params.maxSteps - Band
  BY DEF BandInv, BandInStep
<1>4. Magnitude(Counter(steps)) = Len(steps)
  BY <1>1, CounterIsLength
<1>5. Len(steps) > params.minInventory
  <2>1. params.minInventory \in Nat /\ params.capBand \in Nat
    BY <1>1, StrategyAssumption
  <2>2. params.capBand > 0
    BY <1>2, <2>1 DEF Band, Least
  <2>3. params.minInventory = 0 \/ params.minInventory < params.maxSteps - Band
    BY <1>1, <2>1, <2>2 DEF Accepted, Band
  <2> QED BY <1>1, <1>2, <1>3, <2>1, <2>3
<1>6. AboveFloor
  BY <1>4, <1>5 DEF AboveFloor
<1>7. PICK x \in Edges : \E y \in Edges : x >= 1 /\ x + y < 0
  BY DEF MarketMoves
<1>8. PICK y \in Edges : x >= 1 /\ x + y < 0
  BY <1>7
<1>9. steps[1] \in Steps /\ 1 \in 1..Len(steps)
  <2>1. params.minInventory \in Nat
    BY <1>1, StrategyAssumption
  <2>2. 1 \in 1..Len(steps)
    BY <1>1, <1>5, <2>1
  <2> QED BY <1>1, <2>2
<1> DEFINE d == steps[1].dir
           q == [edge |-> [e \in Dirs |-> IF e = d THEN y ELSE x], depth |-> StepQty]
<1>10. d \in {-1, 1} /\ steps[1].qty \in 1..StepQty /\ steps[1].entry \in Int
  BY <1>9, StrategyAssumption DEF Steps, Dirs
<1>11. q \in Quotes /\ q.edge[-d] = x
  <2>1. x \in Int /\ y \in Int /\ StepQty \in 1..StepQty
    BY StrategyAssumption
  <2>2. CASE d = 1
    <3>1. q.edge[-1] = x /\ q.edge[1] = y
      BY <2>2 DEF Dirs
    <3> QED BY <1>8, <2>1, <2>2, <3>1 DEF Quotes
  <2>3. CASE d = -1
    <3>1. q.edge[-1] = y /\ q.edge[1] = x
      BY <2>3 DEF Dirs
    <3> QED BY <1>8, <2>1, <2>3, <3>1 DEF Quotes
  <2> QED BY <1>10, <2>2, <2>3
<1>12. q.depth = StepQty
  OBVIOUS
<1> HIDE DEF q
<1>13. 1 \in Candidates(q)
  <2>1. steps[1].entry >= EdgeBps - 1
    BY <1>1, <1>9
  <2>2. Profit(steps[1], q) >= EdgeBps
    BY <1>8, <1>10, <1>11, <2>1, StrategyAssumption DEF Profit
  <2> QED BY <1>9, <1>10, <1>12, <2>2, StrategyAssumption DEF Candidates
<1>14. PICK i \in Candidates(q) : \A j \in Candidates(q) \ {i} : Before(i, j, q)
  <2>1. Candidates(q) \in SUBSET (1..Len(steps)) /\ Candidates(q) # {}
    BY <1>13 DEF Candidates
  <2> QED BY <1>1, <1>11, <2>1, BestExists
<1>15. i \in ToClose(q)
  BY <1>6, <1>14 DEF ToClose
<1> QED BY <1>11, <1>15

\* Once the capacity was reached nothing is opened before the count has been below the band,
\* through any partial closes and exits; a reload begins the band anew from the loaded steps
\* (capEngaged, strategy.go:82-88).
THEOREM CapKept == StrategySpec => CapHolds
<1>1. BandInv /\ [StrategyNext]_strategyVars
        => [Len(steps') > Len(steps) => lowest <= params.maxSteps - Band]_strategyVars
  BY CapStep
<1> QED BY <1>1, StrategyInitInv, StrategyStep, PTL DEF StrategySpec, CapHolds

\* An engaged band can always be released, for every configuration that is accepted and every
\* order of closing, if spreads of both signs are quoted (run.go:88-95).
THEOREM BandReleasable == ASSUME MarketMoves PROVE StrategySpec => []BandCanRelease
<1>1. BandInv => BandCanRelease
  BY BandReleases
<1> QED BY <1>1, StrategyInitInv, StrategyStep, PTL DEF StrategySpec

-----------------------------------------------------------------------------
(* The liquidation watch. *)

Accounts == [held : BOOLEAN, long : BOOLEAN, liquidation : BOOLEAN, cross : BOOLEAN,
             headroom : {"none", "exhausted", "thin", "ample"}, overCap : BOOLEAN]

LEMMA OldIsNat == Old \in Nat /\ Old = 2 * Refresh + 1 /\ Refresh \in Nat \ {0}
BY MarginAssumption DEF Old

LEMMA AgedInRange ==
  ASSUME NEW a \in 0..Old, NEW d \in 0..2 PROVE Aged(a, d) \in 0..Old
BY OldIsNat DEF Aged

\* A leg seen at the floor, or not yet clear, arms the watch or makes it exit.
LEMMA DippedArms ==
  ASSUME NEW m \in [Legs -> Levels]
  PROVE  /\ Reaches(2, m) => Assessment(m) \in {"arm", "trigger"}
         /\ Unknown(m) \/ Reaches(3, m) => Assessment(m) # "disarm"
<1>1. Reaches(2, m) => m # NoMarks
  <2>1. ASSUME NEW leg \in Considered(m) PROVE m # NoMarks
    <3>1. leg \in Legs /\ m[leg] > 0
      BY <2>1 DEF Considered, remainingPositionMargin
    <3>2. NoMarks[leg] = 0
      BY <3>1 DEF NoMarks
    <3> QED BY <3>1, <3>2
  <2> QED BY <2>1 DEF Reaches
<1>2. ASSUME Reaches(2, m) PROVE Assessment(m) \in {"arm", "trigger"}
  BY <1>1, <1>2 DEF Assessment
<1>3. ASSUME Unknown(m) \/ Reaches(3, m) PROVE Assessment(m) # "disarm"
  BY <1>3 DEF Assessment
<1> QED BY <1>2, <1>3

LEMMA WatchInit == MarginInit => WatchInv
<1> SUFFICES ASSUME MarginInit PROVE WatchInv
  OBVIOUS
<1>1. NoPosition \in Accounts
  BY DEF NoPosition, Accounts
<1>2. reading \in [Legs -> Accounts]
  BY <1>1 DEF MarginInit
<1>3. age \in [Legs -> 0..Old] /\ sinceRead \in 0..Refresh
  BY OldIsNat DEF MarginInit
<1> QED BY <1>2, <1>3 DEF MarginInit, WatchInv, Accounts

LEMMA AssessInv == ASSUME WatchInv, Assess PROVE WatchInv'
<1> USE DEF WatchInv
<1>1. PICK m \in [Legs -> Levels] :
        /\ armed' = IF Assessment(m) = "none" THEN armed ELSE Assessment(m) = "arm"
        /\ emergency' = (emergency \/ Assessment(m) = "trigger")
        /\ dipped' = IF Reaches(2, m) THEN TRUE ELSE dipped /\ (Unknown(m) \/ Reaches(3, m))
  BY DEF Assess
<1> DEFINE action == Assessment(m)
<1>2. action \in {"trigger", "none", "arm", "disarm"}
  BY DEF Assessment
<1>3. Reaches(2, m) => action \in {"arm", "trigger"}
  BY DippedArms
<1>4. Unknown(m) \/ Reaches(3, m) => action # "disarm"
  BY DippedArms
<1> HIDE DEF action
<1>5. (armed' <=> IF action = "none" THEN armed ELSE action = "arm") /\ armed' \in BOOLEAN
  BY <1>1 DEF action
<1>6. (emergency' <=> emergency \/ action = "trigger") /\ emergency' \in BOOLEAN
  BY <1>1 DEF action
<1>7. (dipped' <=> Reaches(2, m) \/ (dipped /\ (Unknown(m) \/ Reaches(3, m)))) /\ dipped' \in BOOLEAN
  BY <1>1
<1>8. dipped' => armed' \/ emergency'
  BY <1>2, <1>3, <1>4, <1>5, <1>6, <1>7
<1>9. UNCHANGED <<sinceRead, reading, age>>
  BY DEF Assess
<1> QED BY <1>5, <1>6, <1>7, <1>8, <1>9

LEMMA WatchStep == ASSUME WatchInv, [MarginNext]_marginVars PROVE WatchInv'
<1> USE DEF WatchInv
<1>1. ASSUME sinceRead' \in 0..Refresh, reading' \in [Legs -> Accounts], age' \in [Legs -> 0..Old],
             UNCHANGED <<armed, emergency, dipped>>
      PROVE  WatchInv'
  BY <1>1 DEF Accounts
<1>2. CASE WakeUp
  <2>1. PICK d \in 1..2 : Elapse(d)
    BY <1>2 DEF WakeUp
  <2>2. age' = [leg \in Legs |-> Aged(age[leg], d)]
    BY <2>1 DEF Elapse
  <2>3. age' \in [Legs -> 0..Old]
    BY <2>2, AgedInRange
  <2>4. sinceRead' \in 0..Refresh
    BY <2>1, OldIsNat DEF Elapse
  <2> QED BY <1>1, <1>2, <2>3, <2>4 DEF WakeUp, Accounts
<1>3. ASSUME NEW leg \in Legs, NEW after, ReadLeg(leg, after) PROVE WatchInv'
  <2>1. PICK d \in 0..1 :
          \/ age' = [l \in Legs |-> Aged(age[l], d)] /\ UNCHANGED reading
          \/ \E r \in Readings : /\ reading' = [reading EXCEPT ![leg] = r]
                                 /\ age' = [l \in Legs |-> IF l = leg THEN 0 ELSE Aged(age[l], d)]
    BY <1>3 DEF ReadLeg
  <2>2. \A l \in Legs : Aged(age[l], d) \in 0..Old /\ 0 \in 0..Old
    BY AgedInRange, OldIsNat
  <2>3. age' \in [Legs -> 0..Old]
    BY <2>1, <2>2
  <2>4. reading' \in [Legs -> Accounts]
    <3>1. Readings \subseteq Accounts
      BY MarginAssumption DEF Accounts
    <3> QED BY <2>1, <3>1 DEF Accounts
  <2>5. sinceRead' \in 0..Refresh
    BY <1>3, OldIsNat DEF ReadLeg
  <2> QED BY <1>1, <1>3, <2>3, <2>4, <2>5 DEF ReadLeg
<1>4. CASE ReadAccounts
  BY <1>3, <1>4 DEF ReadAccounts, Legs
<1>5. CASE EmergencyDone
  BY <1>5 DEF EmergencyDone
<1>6. CASE UNCHANGED marginVars
  BY <1>6 DEF marginVars
<1> QED BY <1>2, <1>4, <1>5, <1>6, AssessInv DEF MarginNext

\* A snapshot in use is one that is not older than two refreshes.
LEMMA FreshIsUsable ==
  ASSUME WatchInv, NEW leg \in Legs PROVE cacheFresh(leg) <=> Usable(leg)
<1>1. age[leg] \in 0..Old
  BY DEF WatchInv
<1> QED BY <1>1, OldIsNat DEF cacheFresh, Usable

\* Whatever is unknown of one leg, danger to the other makes the watch trigger.
LEMMA DangerTriggers ==
  ASSUME WatchInv, NEW m \in [Legs -> Levels], NEW leg \in Legs, Usable(leg), Holding(leg),
         \/ reading[leg].cross /\ reading[leg].headroom = "exhausted"
         \/ m[leg] = 1 /\ (\/ reading[leg].liquidation
                           \/ reading[leg].cross /\ reading[leg].long /\ reading[leg].headroom = "ample")
  PROVE  Assessment(m) = "trigger"
<1>1. cacheFresh(leg)
  BY FreshIsUsable
<1>2. CASE reading[leg].cross /\ reading[leg].headroom = "exhausted"
  BY <1>1, <1>2 DEF Holding, crossMarginExhausted, Exhausted, Assessment
<1>3. CASE m[leg] = 1 /\ (\/ reading[leg].liquidation
                          \/ reading[leg].cross /\ reading[leg].long /\ reading[leg].headroom = "ample")
  <2>1. leg \in Considered(m)
    BY <1>1, <1>3 DEF Holding, Considered, remainingPositionMargin
  <2>2. LiquidationNear(m)
    BY <1>3, <2>1 DEF LiquidationNear, Reaches
  <2>3. m # NoMarks
    BY <1>3 DEF NoMarks
  <2> QED BY <2>2, <2>3 DEF Assessment
<1> QED BY <1>2, <1>3

LEMMA AssessSeesRisk == ASSUME WatchInv, Assess PROVE DangerIsNotMasked /\ OpenOnlyWhenSafe
<1>1. PICK m \in [Legs -> Levels] :
        /\ mark' = m
        /\ armed' = IF Assessment(m) = "none" THEN armed ELSE Assessment(m) = "arm"
        /\ blocked' = (armed' \/ Assessment(m) \in {"arm", "trigger"} \/ \E leg \in Legs : m[leg] = 0)
        /\ emergency' = (emergency \/ Assessment(m) = "trigger")
  BY DEF Assess
<1>2. Assessment(m) = "trigger" => emergency'
  BY <1>1
<1>3. DangerIsNotMasked
  <2> SUFFICES ASSUME NEW leg \in Legs, Usable(leg), Holding(leg),
                      \/ reading[leg].cross /\ reading[leg].headroom = "exhausted"
                      \/ reading[leg].liquidation /\ m[leg] = 1
                      \/ reading[leg].cross /\ reading[leg].long /\ reading[leg].headroom = "ample" /\ m[leg] = 1
               PROVE  Assessment(m) = "trigger"
    BY <1>1, <1>2 DEF DangerIsNotMasked
  <2> QED BY DangerTriggers
<1>4. ASSUME ~blocked', ~emergency', NEW leg \in Legs
      PROVE  /\ Usable(leg) /\ m[leg] > 0 /\ ~reading[leg].overCap
             /\ Holding(leg) => /\ reading[leg].liquidation \/ reading[leg].headroom = "ample"
                                /\ m[leg] > 2 /\ (dipped => m[leg] > 3)
  <2>1. Assessment(m) \notin {"arm", "trigger"} /\ ~armed' /\ \A l \in Legs : m[l] # 0
    BY <1>1, <1>4
  <2>2. m[leg] \in 0..4 /\ m[leg] > 0 /\ m # NoMarks
    BY <1>4, <2>1 DEF Levels, NoMarks
  <2>3. ~Exhausted /\ ~LiquidationNear(m) /\ ~Unknown(m) /\ ~OverCap /\ ~Reaches(2, m)
    BY <2>1, <2>2 DEF Assessment
  <2>4. cacheFresh(leg) /\ ~reading[leg].overCap /\ (Holding(leg) => remainingPositionMargin(leg, m))
    BY <1>4, <2>3 DEF Unknown, OverCap, Holding
  <2>5. Usable(leg)
    BY <1>4, <2>4, FreshIsUsable
  <2>6. ASSUME Holding(leg) PROVE leg \in Considered(m) /\ m[leg] > 2
    <3>1. leg \in Considered(m)
      BY <2>4, <2>6, <1>4 DEF Considered
    <3> QED BY <2>2, <2>3, <3>1 DEF Reaches
  <2>7. ASSUME Holding(leg), dipped PROVE m[leg] > 3
    <3>1. armed
      <4>1. ~emergency
        BY <1>1, <1>4
      <4> QED BY <2>7, <4>1 DEF WatchInv
    <3>2. Assessment(m) = "disarm"
      BY <1>1, <2>1, <3>1 DEF Assessment
    <3>3. ~Reaches(3, m)
      BY <3>2 DEF Assessment
    <3> QED BY <2>2, <2>6, <2>7, <3>3 DEF Reaches
  <2>8. Holding(leg) => reading[leg].liquidation \/ reading[leg].headroom = "ample"
    BY <2>4 DEF remainingPositionMargin
  <2> QED BY <2>2, <2>4, <2>5, <2>6, <2>7, <2>8
<1>5. OpenOnlyWhenSafe
  BY <1>1, <1>4 DEF OpenOnlyWhenSafe
<1> QED BY <1>3, <1>5

\* The watch overlooks no danger it can know of and lets no opening through on what it does not
\* know, for any readings, failures and delays (margin.go:81-83, 118-119).
THEOREM RiskIsSeen == MarginSpec => RiskSeen
<1>1. WatchInv /\ [MarginNext]_marginVars
        => [stage = "assess" /\ stage' = "sleep" => DangerIsNotMasked /\ OpenOnlyWhenSafe]_marginVars
  <2>1. stage = "assess" /\ stage' = "sleep" /\ MarginNext => Assess
    BY DEF MarginNext, WakeUp, ReadAccounts, EmergencyDone
  <2> QED BY <2>1, AssessSeesRisk
<1> QED BY <1>1, WatchInit, WatchStep, PTL DEF MarginSpec, RiskSeen
=============================================================================
