---------------------------- MODULE AadSshProofs -----------------------------
(***************************************************************************)
(* Runs of aadssh that do not overlap, but may be killed at any step, keep *)
(* key, public key and certificate consistent.                             *)
(***************************************************************************)
EXTENDS AadSsh, TLAPS

(* No two runs are under way. *)
Exclusive == \A r, s \in Runs : Active(r) /\ Active(s) => r = s

KeyLoaded == {"create pub", "write pub", "load cert", "acquire", "create cert", "write cert", "agent"}
CertLoaded == {"create cert", "write cert", "agent"}
PubSaved == {"load cert", "acquire", "create cert", "write cert", "agent"}

(* What a run knows at each step. *)
RunOK(r) ==
    /\ pc[r] = "read key" => keyFile # Absent
    /\ pc[r] = "create key" => key[r] \in Runs /\ keyFile = Absent
    /\ pc[r] = "write key" => key[r] \in Runs /\ keyFile = Torn
    /\ pc[r] \in KeyLoaded => key[r] \in Runs /\ keyFile = key[r]
    /\ pc[r] \in PubSaved => pubFile = key[r]
    /\ pc[r] \in CertLoaded => cert[r] \in Certificates /\ cert[r].key = key[r]
    /\ pc[r] = "agent" => certFile = cert[r]

(* There is no certificate before there is a key, and it is of that key. *)
FilesOK ==
    /\ keyFile \in Runs \cup {Absent, Torn}
    /\ keyFile \notin Runs => certFile = Absent
    /\ certFile \notin {Absent, Torn} => certFile \in Certificates /\ certFile.key = keyFile

LocalsOK ==
    /\ now \in Nat
    /\ pc \in [Runs -> {"idle"} \cup Steps \cup Over]
    /\ key \in [Runs -> Runs \cup {Absent}]
    /\ cert \in [Runs -> Certificates \cup {NoCert}]

Inv == LocalsOK /\ Exclusive /\ FilesOK /\ \A r \in Runs : RunOK(r)

LEMMA AadInit == Init => Inv
BY ContentsAssumption, SMT
   DEF Init, Inv, LocalsOK, Exclusive, RunOK, FilesOK, Active, Steps, Over, KeyLoaded, PubSaved, CertLoaded

(* While a run acts, the others rest, so it is enough to look at the run that
   acts. *)
LEMMA OneRunActs ==
  ASSUME ~Concurrent, Inv, NEW r \in Runs, Run(r) \/ Killed(r)
  PROVE  \A s \in Runs \ {r} : pc'[s] = pc[s] /\ pc[s] \notin Steps
<1>1. ASSUME Begin(r) PROVE \A s \in Runs \ {r} : pc[s] \notin Steps
  BY <1>1 DEF Begin, Active
<1>2. ASSUME ~Begin(r) PROVE pc[r] \in Steps
  BY <1>2 DEF Run, Killed, Active, Steps, StatDir, MkDir, StatKey, ReadKey, CreateKey, WriteKey, CreatePub, WritePub,
              LoadCert, Acquire, CreateCert, WriteCert, AddToAgent, AgentRefuses, NoAgent
<1>3. \A s \in Runs \ {r} : pc[s] \notin Steps
  BY <1>1, <1>2 DEF Inv, Exclusive, Active
<1>4. \E step : pc' = [pc EXCEPT ![r] = step]
  BY DEF Run, Killed, Goto, Fail, Begin, StatDir, MkDir, StatKey, ReadKey, CreateKey, WriteKey, CreatePub, WritePub,
         LoadCert, Acquire, CreateCert, WriteCert, AddToAgent, AgentRefuses, NoAgent
<1> QED
  BY <1>3, <1>4 DEF Inv, LocalsOK

LEMMA AadStep == ASSUME ~Concurrent PROVE Inv /\ [Next]_vars => Inv'
<1> SUFFICES ASSUME Inv, [Next]_vars PROVE Inv'
  OBVIOUS
<1>1. ASSUME NEW r \in Runs, Run(r) \/ Killed(r), (LocalsOK /\ FilesOK /\ RunOK(r))' PROVE Inv'
  <2>1. \A s \in Runs \ {r} : pc'[s] \notin Steps
    BY <1>1, OneRunActs
  <2>2. Exclusive'
    BY <2>1 DEF Exclusive, Active
  <2>3. ASSUME NEW s \in Runs, s # r PROVE RunOK(s)'
    BY <2>1, <2>3 DEF RunOK, Steps, KeyLoaded, PubSaved, CertLoaded
  <2> QED
    BY <1>1, <2>2, <2>3 DEF Inv
<1>2. ASSUME NEW r \in Runs, Run(r) \/ Killed(r) PROVE (LocalsOK /\ FilesOK /\ RunOK(r))'
  <2> USE ContentsAssumption, NumbersAssumption
      DEF Inv, LocalsOK, FilesOK, RunOK, Active, Steps, Over, KeyLoaded, PubSaved, CertLoaded, Goto, Fail, files, locals
  <2>1. CASE Begin(r)
    BY <1>2, <2>1 DEF Begin
  <2>2. CASE StatDir(r)
    BY <1>2, <2>2 DEF StatDir
  <2>3. CASE MkDir(r)
    BY <1>2, <2>3 DEF MkDir
  <2>4. CASE StatKey(r)
    <3>1. CASE keyFile = Absent
      <4>1. LocalsOK'
        <5>1. key' \in [Runs -> Runs \cup {Absent}]
          BY <1>2, <2>4, <3>1 DEF StatKey
        <5>2. now' \in Nat /\ pc' \in [Runs -> {"idle"} \cup Steps \cup Over]
          BY <1>2, <2>4, <3>1 DEF StatKey
        <5> QED
          BY <1>2, <2>4, <3>1, <5>1, <5>2 DEF StatKey
      <4>2. FilesOK'
        BY <1>2, <2>4, <3>1 DEF StatKey
      <4>3. RunOK(r)'
        BY <1>2, <2>4, <3>1 DEF StatKey
      <4> QED
        BY <4>1, <4>2, <4>3
    <3>2. CASE keyFile # Absent
      BY <1>2, <2>4, <3>2 DEF StatKey
    <3> QED
      BY <3>1, <3>2
  <2>5. CASE ReadKey(r)
    <3>1. CASE keyFile = Torn
      BY <1>2, <2>5, <3>1 DEF ReadKey
    <3>2. CASE keyFile # Torn
      <4>1. LocalsOK'
        <5>1. key' \in [Runs -> Runs \cup {Absent}]
          <6>1. keyFile \in Runs
            BY <1>2, <2>5, <3>2 DEF ReadKey
          <6>2. key' = [key EXCEPT ![r] = keyFile]
            BY <2>5, <3>2 DEF ReadKey
          <6> QED
            BY <6>1, <6>2
        <5>2. now' \in Nat /\ pc' \in [Runs -> {"idle"} \cup Steps \cup Over]
          BY <1>2, <2>5, <3>2 DEF ReadKey
        <5> QED
          BY <1>2, <2>5, <3>2, <5>1, <5>2 DEF ReadKey
      <4>2. FilesOK'
        BY <1>2, <2>5, <3>2 DEF ReadKey
      <4>3. RunOK(r)'
        BY <1>2, <2>5, <3>2 DEF ReadKey
      <4> QED
        BY <4>1, <4>2, <4>3
    <3> QED
      BY <3>1, <3>2
  <2>6. CASE CreateKey(r)
    BY <1>2, <2>6 DEF CreateKey
  <2>7. CASE WriteKey(r)
    BY <1>2, <2>7 DEF WriteKey
  <2>8. CASE CreatePub(r)
    BY <1>2, <2>8 DEF CreatePub
  <2>9. CASE WritePub(r)
    BY <1>2, <2>9 DEF WritePub
  <2>10. CASE LoadCert(r)
    <3>1. CASE CertIsUsable
      <4>1. LocalsOK'
        <5>1. cert' \in [Runs -> Certificates \cup {NoCert}]
          BY <1>2, <2>10, <3>1 DEF LoadCert, CertIsUsable
        <5>2. now' \in Nat /\ pc' \in [Runs -> {"idle"} \cup Steps \cup Over]
          BY <1>2, <2>10, <3>1 DEF LoadCert, CertIsUsable
        <5> QED
          BY <1>2, <2>10, <3>1, <5>1, <5>2 DEF LoadCert, CertIsUsable
      <4>2. FilesOK'
        BY <1>2, <2>10, <3>1 DEF LoadCert, CertIsUsable
      <4>3. RunOK(r)'
        BY <1>2, <2>10, <3>1 DEF LoadCert, CertIsUsable
      <4> QED
        BY <4>1, <4>2, <4>3
    <3>2. CASE ~CertIsUsable
      BY <1>2, <2>10, <3>2 DEF LoadCert
    <3> QED
      BY <3>1, <3>2
  <2>11. CASE Acquire(r)
    <3> DEFINE New(skew) == [key |-> key[r], from |-> now + skew, until |-> now + skew + Life]
    <3>1. \A skew \in 0..MaxSkew : New(skew) \in Certificates /\ New(skew).key = key[r]
      <4>1. key[r] \in Runs
        BY <1>2, <2>11 DEF Acquire
      <4>2. \A skew \in 0..MaxSkew : now + skew \in Nat /\ now + skew + Life \in Nat
        <5>1. Life \in Nat /\ MaxSkew \in Nat
          BY NumbersAssumption
        <5>2. now \in Nat
          BY DEF Inv, LocalsOK
        <5> HIDE DEF Inv, LocalsOK, FilesOK, RunOK
        <5> QED
          BY <5>1, <5>2
      <4> QED
        BY <4>1, <4>2 DEF Certificates
    <3> HIDE DEF New
    <3>2. ASSUME NEW skew \in 0..MaxSkew, Goto(r, "create cert"), cert' = [cert EXCEPT ![r] = New(skew)]
          PROVE  (LocalsOK /\ FilesOK /\ RunOK(r))'
      <4>1. LocalsOK'
        BY <1>2, <2>11, <3>1, <3>2 DEF Acquire
      <4>2. FilesOK'
        BY <1>2, <2>11, <3>1, <3>2 DEF Acquire
      <4>3. RunOK(r)'
        BY <1>2, <2>11, <3>1, <3>2 DEF Acquire
      <4> QED
        BY <4>1, <4>2, <4>3
    <3>3. ASSUME NEW outcome \in Outcomes, Goto(r, EndOf(outcome)), UNCHANGED cert
          PROVE  (LocalsOK /\ FilesOK /\ RunOK(r))'
      <4>1. EndOf(outcome) \in Over \ Steps
        BY DEF EndOf
      <4>2. pc' = [pc EXCEPT ![r] = EndOf(outcome)] /\ pc'[r] = EndOf(outcome)
        BY <1>2, <3>3
      <4>3. UNCHANGED <<now, files, key, cert>>
        BY <2>11, <3>3 DEF Acquire
      <4>4. LocalsOK'
        BY <4>1, <4>2, <4>3
      <4>5. FilesOK'
        BY <4>3
      <4>6. RunOK(r)'
        BY <4>1, <4>2
      <4> QED
        BY <4>4, <4>5, <4>6
    <3> QED
      BY <2>11, <3>2, <3>3 DEF Acquire, New
  <2>12. CASE CreateCert(r)
    BY <1>2, <2>12 DEF CreateCert
  <2>13. CASE WriteCert(r)
    BY <1>2, <2>13 DEF WriteCert
  <2>14. CASE AddToAgent(r)
    BY <1>2, <2>14 DEF AddToAgent
  <2>15. CASE NoAgent(r)
    BY <1>2, <2>15 DEF NoAgent
  <2>16. CASE Killed(r)
    BY <1>2, <2>16 DEF Killed
  <2>17. CASE AgentRefuses(r)
    BY <1>2, <2>17 DEF AgentRefuses
  <2> QED
    BY <1>2, <2>1, <2>2, <2>3, <2>4, <2>5, <2>6, <2>7, <2>8, <2>9, <2>10, <2>11, <2>12, <2>13, <2>14,
       <2>15, <2>16, <2>17 DEF Run
<1>3. CASE Tick
  <2>1. now' \in Nat
    BY <1>3 DEF Tick, Inv, LocalsOK
  <2> QED
    BY <1>3, <2>1 DEF Tick, Inv, LocalsOK, FilesOK, RunOK, Exclusive, Active, files, locals
<1>4. CASE UNCHANGED vars
  BY <1>4 DEF vars, Inv, LocalsOK, FilesOK, RunOK, Exclusive, Active, files, locals
<1> QED
  BY <1>1, <1>2, <1>3, <1>4 DEF Next, Finished

(* When a run uses its certificate, everything on disk and in memory is of one
   key, whatever killed runs have left behind. *)
THEOREM BelongTogetherHolds == ASSUME ~Concurrent PROVE Spec => []BelongTogether
<1>1. Inv => BelongTogether
  BY DEF Inv, RunOK, KeyLoaded, PubSaved, CertLoaded, BelongTogether
<1> QED
  BY AadInit, AadStep, <1>1, PTL DEF Spec

(* A key that is on disk is never replaced. *)
THEOREM KeyIsStableHolds == ASSUME ~Concurrent PROVE Spec => KeyIsStable
<1>1. Inv /\ [Next]_vars => (keyFile \in Runs => keyFile' = keyFile)
  <2> SUFFICES ASSUME Inv, [Next]_vars, keyFile \in Runs PROVE keyFile' = keyFile
    OBVIOUS
  <2>1. ASSUME NEW r \in Runs, CreateKey(r) \/ WriteKey(r) PROVE FALSE
    BY <2>1, ContentsAssumption DEF CreateKey, WriteKey, Inv, RunOK
  <2> QED
    BY <2>1 DEF Next, Run, Begin, StatDir, MkDir, StatKey, ReadKey, CreatePub, WritePub, LoadCert, Acquire,
                CreateCert, WriteCert, AddToAgent, AgentRefuses, NoAgent, Killed, Tick, Finished, Fail, files, vars
<1> QED
  BY AadInit, AadStep, <1>1, PTL DEF Spec, KeyIsStable

(* Whether a run may have failed without being refused: only on a torn key, which
   nobody is about to write. *)
FailOK == \A r \in Runs : pc[r] = "failed" /\ r \notin refused =>
              keyFile = Torn /\ \A s \in Runs : pc[s] # "write key"
DirOK == \A r \in Runs : pc[r] = "mkdir" => ~dir

LEMMA DirStep == ASSUME ~Concurrent PROVE Inv /\ DirOK /\ [Next]_vars => DirOK'
<1> SUFFICES ASSUME Inv, DirOK, [Next]_vars PROVE DirOK'
  OBVIOUS
<1>1. ASSUME NEW r \in Runs, Run(r) \/ Killed(r) PROVE DirOK'
  <2>1. \A s \in Runs \ {r} : pc'[s] # "mkdir"
    BY <1>1, OneRunActs DEF Steps
  <2>2. pc'[r] = "mkdir" => StatDir(r) /\ ~dir /\ dir' = dir
    BY <1>1 DEF Inv, LocalsOK, Run, Killed, Goto, Fail, Begin, StatDir, MkDir, StatKey, ReadKey, CreateKey, WriteKey,
                CreatePub, WritePub, LoadCert, Acquire, EndOf, CreateCert, WriteCert, AddToAgent, AgentRefuses, NoAgent, files
  <2> QED
    BY <2>1, <2>2 DEF DirOK
<1>2. CASE Tick \/ UNCHANGED vars
  BY <1>2 DEF Tick, vars, files, DirOK
<1> QED
  BY <1>1, <1>2 DEF Next, Finished

LEMMA FailStep == ASSUME ~Concurrent PROVE Inv /\ DirOK /\ FailOK /\ [Next]_vars => FailOK'
<1> SUFFICES ASSUME Inv, DirOK, FailOK, [Next]_vars PROVE FailOK'
  OBVIOUS
<1>1. ASSUME NEW r \in Runs, Run(r) \/ Killed(r) PROVE FailOK'
  <2>1. \A s \in Runs \ {r} : pc'[s] = pc[s] /\ pc[s] \notin Steps
    BY <1>1, OneRunActs
  <2>2. refused \subseteq refused'
    BY <1>1 DEF Run, Killed, Fail, Begin, StatDir, MkDir, StatKey, ReadKey, CreateKey, WriteKey, CreatePub, WritePub,
                LoadCert, Acquire, CreateCert, WriteCert, AddToAgent, AgentRefuses, NoAgent
  (* r itself *)
  <2>3. pc'[r] = "failed" /\ r \notin refused' => keyFile' = Torn
    <3>1. CASE ReadKey(r)
      BY <1>1, <3>1 DEF ReadKey, Fail, Goto, files, Inv, LocalsOK
    <3>2. CASE MkDir(r)
      BY <1>1, <3>2 DEF MkDir, DirOK, Goto, Inv, LocalsOK
    <3>3. CASE AddToAgent(r)
      BY <1>1, <3>3 DEF AddToAgent, Goto, Inv, LocalsOK, RunOK, CertLoaded
    <3>4. CASE Acquire(r)
      BY <1>1, <3>4 DEF Acquire, EndOf, Goto, Inv, LocalsOK
    <3>5. CASE AgentRefuses(r)
      BY <1>1, <3>5 DEF AgentRefuses
    <3> QED
      BY <1>1, <3>1, <3>2, <3>3, <3>4, <3>5
         DEF Inv, LocalsOK, Run, Killed, Goto, Begin, StatDir, StatKey, CreateKey, WriteKey, CreatePub, WritePub, LoadCert,
             CreateCert, WriteCert, NoAgent
  (* the runs that have failed before *)
  <2>4. ASSUME NEW s \in Runs \ {r}, pc[s] = "failed", s \notin refused PROVE keyFile' = Torn /\ pc'[r] # "write key"
    <3>1. keyFile = Torn /\ pc[r] # "write key"
      BY <2>4 DEF FailOK
    <3>2. ~CreateKey(r)
      BY <3>1, ContentsAssumption DEF CreateKey, Inv, RunOK
    <3>3. ~WriteKey(r)
      BY <3>1 DEF WriteKey
    <3> QED
      BY <1>1, <3>1, <3>2, <3>3
         DEF Inv, LocalsOK, Run, Killed, Goto, Fail, Begin, StatDir, MkDir, StatKey, ReadKey, CreatePub, WritePub, LoadCert,
             Acquire, EndOf, CreateCert, WriteCert, AddToAgent, AgentRefuses, NoAgent, files
  <2>5. \A s \in Runs \ {r} : pc'[s] # "write key"
    BY <2>1 DEF Steps
  <2> QED
    BY <2>1, <2>2, <2>3, <2>4, <2>5 DEF FailOK
<1>2. CASE Tick \/ UNCHANGED vars
  BY <1>2 DEF Tick, vars, files, FailOK
<1> QED
  BY <1>1, <1>2 DEF Next, Finished

(* What earlier runs leave on the disk, killed or not, never makes a run fail,
   except for a key that was torn. *)
THEOREM FailsOnlyWhenRefusedHolds == ASSUME ~Concurrent PROVE Spec => []FailsOnlyWhenRefused
<1>1. Init => DirOK /\ FailOK
  BY DEF Init, DirOK, FailOK
<1>2. FailOK => FailsOnlyWhenRefused
  BY DEF FailOK, FailsOnlyWhenRefused
<1> QED
  BY AadInit, AadStep, DirStep, FailStep, <1>1, <1>2, PTL DEF Spec

(* The rest of TypeOK *)
RestOK ==
    /\ dir \in BOOLEAN /\ pubFile \in Runs \cup {Absent, Torn} /\ refused \subseteq Runs
    /\ \A e \in agent : e.run \in Runs /\ {e.until, e.added, e.lifetime} \subseteq Nat

LEMMA LifetimeIsNat == ASSUME NEW t \in Int PROVE t % Modulus \in Nat
BY NumbersAssumption

LEMMA RestStep == ASSUME ~Concurrent PROVE Inv /\ RestOK /\ [Next]_vars => RestOK'
<1> SUFFICES ASSUME Inv, RestOK, [Next]_vars PROVE RestOK'
  OBVIOUS
<1>1. ASSUME NEW r \in Runs, AddToAgent(r) PROVE RestOK'
  <2>1. CASE cert[r].key # key[r]
    BY <1>1, <2>1 DEF AddToAgent, Fail, files, RestOK
  <2>2. CASE cert[r].key = key[r]
    <3>1. now \in Nat /\ cert[r].until \in Nat
      BY <1>1 DEF AddToAgent, Inv, LocalsOK, RunOK, CertLoaded, Certificates
    <3>2. LifetimeSecs(r) \in Nat
      BY <3>1, LifetimeIsNat DEF LifetimeSecs
    <3>3. UNCHANGED <<dir, pubFile, refused>>
          /\ agent' = agent \cup {[run |-> r, until |-> cert[r].until, added |-> now, lifetime |-> LifetimeSecs(r)]}
      BY <1>1, <2>2 DEF AddToAgent, files
    <3> HIDE DEF LifetimeSecs
    <3> QED
      BY <3>1, <3>2, <3>3 DEF RestOK
  <2> QED
    BY <2>1, <2>2
<1>2. ASSUME NEW r \in Runs, Run(r) \/ Killed(r), ~AddToAgent(r) PROVE RestOK'
  BY <1>2 DEF RestOK, Inv, LocalsOK, RunOK, KeyLoaded, Run, Killed, Fail, Begin, StatDir, MkDir, StatKey, ReadKey, CreateKey,
      WriteKey, CreatePub, WritePub, LoadCert, Acquire, CreateCert, WriteCert, AgentRefuses, NoAgent, files
<1>3. CASE Tick \/ UNCHANGED vars
  BY <1>3 DEF Tick, vars, files, RestOK
<1> QED
  BY <1>1, <1>2, <1>3 DEF Next, Finished

(* Types. *)
THEOREM TypeOKHolds == ASSUME ~Concurrent PROVE Spec => []TypeOK
<1>1. Init => RestOK
  BY DEF Init, RestOK
<1>2. Inv /\ RestOK => TypeOK
  BY DEF Inv, LocalsOK, FilesOK, RestOK, TypeOK
<1> QED
  BY AadInit, AadStep, RestStep, <1>1, <1>2, PTL DEF Spec
=============================================================================
