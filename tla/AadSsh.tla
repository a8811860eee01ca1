------------------------------- MODULE AadSsh --------------------------------
(***************************************************************************)
(* The aadssh tool (pkg/tools/aadssh): load the SSH key of the user or     *)
(* create it, save its public part, load a certificate for it or acquire   *)
(* one from AAD, and hand both to the SSH agent.                           *)
(*                                                                         *)
(* Key, public key and certificate are files in the user's home that every *)
(* run shares with the runs before it and with those in other terminals.   *)
(* A file is absent, torn (os.WriteFile has truncated it and not written   *)
(* it yet), or holds what one run wrote. A key is identified by the run    *)
(* that generated it. Errors of the file system itself (no home, a full    *)
(* disk) and the ssh process that Run may start at the end are left out.   *)
(***************************************************************************)
EXTENDS Integers, FiniteSets, AadToken

CONSTANTS Runs,
          Absent, Torn,  \* contents of a file
          Life,          \* how long a certificate is valid
          MaxSkew,       \* how far AAD's clock may be ahead of this computer's
          MaxNow,        \* bound of the clock, for model checking
          Modulus,       \* of AddedKey.LifetimeSecs, an uint32: 2 ^ 32
          Concurrent,    \* runs may overlap
          Crashes        \* runs may be killed

ASSUME ContentsAssumption == Absent # Torn /\ {Absent, Torn} \cap Runs = {}
ASSUME NumbersAssumption == {Life, MaxSkew, MaxNow} \subseteq Nat /\ Modulus \in Nat \ {0}
ASSUME SwitchAssumption == Concurrent \in BOOLEAN /\ Crashes \in BOOLEAN

VARIABLES
    now,       \* the clock
    dir,       \* the directory exists
    keyFile, pubFile, certFile,
    pc,        \* the step each run is in
    key,       \* sshPrivKey of each run
    cert,      \* sshCert of each run
    refused,   \* the runs that AAD gave no certificate, or whose agent failed
    agent      \* what was added to the agent

files == <<dir, keyFile, pubFile, certFile>>
locals == <<key, cert>>
vars == <<now, files, pc, locals, refused, agent>>

(* ValidAfter and ValidBefore: valid from one time until another. *)
NoCert == [key |-> Absent, from |-> 0, until |-> 0]
Certificates == [key : Runs, from : Nat, until : Nat]

Steps == {"stat dir", "mkdir", "stat key", "read key", "create key", "write key", "create pub", "write pub",
          "load cert", "acquire", "create cert", "write cert", "agent"}
Over == {"done", "failed", "no token", "panicked", "killed"}
Active(r) == pc[r] \in Steps

Init ==
    /\ now = 0
    /\ dir = FALSE
    /\ keyFile = Absent /\ pubFile = Absent /\ certFile = Absent
    /\ pc = [r \in Runs |-> "idle"]
    /\ key = [r \in Runs |-> Absent]
    /\ cert = [r \in Runs |-> NoCert]
    /\ refused = {}
    /\ agent = {}

Goto(r, step) == pc' = [pc EXCEPT ![r] = step]

(* return fmt.Errorf(...) *)
Fail(r) == Goto(r, "failed") /\ UNCHANGED <<files, locals, refused, agent>>

Begin(r) ==
    /\ pc[r] = "idle"
    /\ Concurrent \/ \A s \in Runs : ~Active(s)
    /\ Goto(r, "stat dir")
    /\ UNCHANGED <<now, files, locals, refused, agent>>

-----------------------------------------------------------------------------
(* ensureSSHKeyDir *)

StatDir(r) ==
    /\ pc[r] = "stat dir"
    /\ Goto(r, IF dir THEN "stat key" ELSE "mkdir")
    /\ UNCHANGED <<now, files, locals, refused, agent>>

(* os.Mkdir fails when another run has made the directory meanwhile. *)
MkDir(r) ==
    /\ pc[r] = "mkdir"
    /\ IF dir
         THEN Fail(r)
         ELSE /\ dir' = TRUE
              /\ Goto(r, "stat key")
              /\ UNCHANGED <<keyFile, pubFile, certFile, locals, refused, agent>>
    /\ UNCHANGED now

-----------------------------------------------------------------------------
(* createOrLoadSSHPrivateKey *)

(* Mutant: the key is generated anew on every run. *)
StatKey_Always(r) ==
    /\ pc[r] = "stat key"
    /\ Goto(r, "create key")
    /\ key' = [key EXCEPT ![r] = r]
    /\ UNCHANGED <<now, files, cert, refused, agent>>

(* os.Stat(keyPath), and rsa.GenerateKey when there is no key. *)
StatKey(r) ==
    /\ pc[r] = "stat key"
    /\ IF keyFile = Absent
         THEN Goto(r, "create key") /\ key' = [key EXCEPT ![r] = r]
         ELSE Goto(r, "read key") /\ UNCHANGED key
    /\ UNCHANGED <<now, files, cert, refused, agent>>

(* An empty file has no PEM block. *)
ReadKey(r) ==
    /\ pc[r] = "read key"
    /\ IF keyFile = Torn
         THEN Fail(r)
         ELSE /\ key' = [key EXCEPT ![r] = keyFile]
              /\ Goto(r, "create pub")
              /\ UNCHANGED <<files, cert, refused, agent>>
    /\ UNCHANGED now

(* os.WriteFile opens with O_TRUNC ... *)
CreateKey(r) ==
    /\ pc[r] = "create key"
    /\ keyFile' = Torn
    /\ Goto(r, "write key")
    /\ UNCHANGED <<now, dir, pubFile, certFile, locals, refused, agent>>

(* ... and then writes. *)
WriteKey(r) ==
    /\ pc[r] = "write key"
    /\ keyFile' = key[r]
    /\ Goto(r, "create pub")
    /\ UNCHANGED <<now, dir, pubFile, certFile, locals, refused, agent>>

-----------------------------------------------------------------------------
(* saveSSHPublicKey *)

CreatePub(r) ==
    /\ pc[r] = "create pub"
    /\ pubFile' = Torn
    /\ Goto(r, "write pub")
    /\ UNCHANGED <<now, dir, keyFile, certFile, locals, refused, agent>>

WritePub(r) ==
    /\ pc[r] = "write pub"
    /\ pubFile' = key[r]
    /\ Goto(r, "load cert")
    /\ UNCHANGED <<now, dir, keyFile, certFile, locals, refused, agent>>

-----------------------------------------------------------------------------
(* The certificate *)

(* loadSSHCertificate: parsed, and within its dates. (now counts whole seconds, as
   the dates do; time.Now() is past the one it began with.) *)
CertIsUsable == certFile \notin {Absent, Torn} /\ certFile.from <= now /\ now < certFile.until

(* Mutant: an error of loadSSHCertificate ends the run. *)
LoadCert_NoAcquire(r) ==
    /\ pc[r] = "load cert"
    /\ IF CertIsUsable
         THEN cert' = [cert EXCEPT ![r] = certFile] /\ Goto(r, "agent")
         ELSE Goto(r, IF certFile = Absent THEN "acquire" ELSE "failed") /\ UNCHANGED cert
    /\ UNCHANGED <<now, files, key, refused, agent>>

LoadCert(r) ==
    /\ pc[r] = "load cert"
    /\ IF CertIsUsable
         THEN cert' = [cert EXCEPT ![r] = certFile] /\ Goto(r, "agent")
         ELSE Goto(r, "acquire") /\ UNCHANGED cert
    /\ UNCHANGED <<now, files, key, refused, agent>>

(* How a run ends that gets no certificate. *)
EndOf(outcome) ==
    IF outcome = "panic" THEN "panicked"
    ELSE IF outcome = "refused" THEN "failed"
    ELSE "no token"

(* acquireCertificate: AAD certifies the public key of this run or refuses, or it
   cannot even be asked. The dates of a certificate that AAD sends are not looked
   at. *)
Acquire(r) ==
    /\ pc[r] = "acquire"
    /\ \/ /\ "certificate" \in Outcomes
          /\ \E skew \in 0..MaxSkew :
                cert' = [cert EXCEPT ![r] = [key |-> key[r], from |-> now + skew, until |-> now + skew + Life]]
          /\ Goto(r, "create cert")
          /\ UNCHANGED refused
       \/ /\ \E outcome \in Outcomes \ {"certificate"} :
                /\ Goto(r, EndOf(outcome))
                /\ refused' = IF outcome = "refused" THEN refused \cup {r} ELSE refused
          /\ UNCHANGED cert
    /\ UNCHANGED <<now, files, key, agent>>

(* saveSSHCertificate *)
CreateCert(r) ==
    /\ pc[r] = "create cert"
    /\ certFile' = Torn
    /\ Goto(r, "write cert")
    /\ UNCHANGED <<now, dir, keyFile, pubFile, locals, refused, agent>>

WriteCert(r) ==
    /\ pc[r] = "write cert"
    /\ certFile' = cert[r]
    /\ Goto(r, "agent")
    /\ UNCHANGED <<now, dir, keyFile, pubFile, locals, refused, agent>>

-----------------------------------------------------------------------------
(* Mutant: the difference is not cast to an unsigned integer. *)
LifetimeSecs_NoCast(r) == now - cert[r].until

(* addSSHKeyToAgent: uint32(uint64(time.Now().Unix()) - sshCert.ValidBefore) *)
LifetimeSecs(r) == (now - cert[r].until) % Modulus

(* The agent client refuses a certificate of another key; to the agent a lifetime
   of 0 is none at all: it keeps the key. *)
AddToAgent(r) ==
    /\ pc[r] = "agent"
    /\ IF cert[r].key # key[r]
         THEN Fail(r)
         ELSE /\ agent' = agent \cup {[run |-> r, until |-> cert[r].until, added |-> now, lifetime |-> LifetimeSecs(r)]}
              /\ Goto(r, "done")
              /\ UNCHANGED <<files, locals, refused>>
    /\ UNCHANGED now

(* dialSSHAgent or the agent fails: a dead socket, a locked agent. *)
AgentRefuses(r) ==
    /\ pc[r] = "agent"
    /\ refused' = refused \cup {r}
    /\ Goto(r, "failed")
    /\ UNCHANGED <<now, files, locals, agent>>

(* SSH_AUTH_SOCK is empty. *)
NoAgent(r) ==
    /\ pc[r] = "agent"
    /\ Goto(r, "done")
    /\ UNCHANGED <<now, files, locals, refused, agent>>

-----------------------------------------------------------------------------
(* The user interrupts the run, or the machine goes down. *)
Killed(r) ==
    /\ Crashes
    /\ Active(r)
    /\ Goto(r, "killed")
    /\ UNCHANGED <<now, files, locals, refused, agent>>

Tick ==
    /\ now < MaxNow
    /\ now' = now + 1
    /\ UNCHANGED <<files, pc, locals, refused, agent>>

Finished == now = MaxNow /\ (\A r \in Runs : pc[r] \in Over) /\ UNCHANGED vars

Run(r) ==
    \/ Begin(r) \/ StatDir(r) \/ MkDir(r)
    \/ StatKey(r) \/ ReadKey(r) \/ CreateKey(r) \/ WriteKey(r)
    \/ CreatePub(r) \/ WritePub(r)
    \/ LoadCert(r) \/ Acquire(r) \/ CreateCert(r) \/ WriteCert(r)
    \/ AddToAgent(r) \/ AgentRefuses(r) \/ NoAgent(r)

Next ==
    \/ \E r \in Runs : Run(r) \/ Killed(r)
    \/ Tick
    \/ Finished

Spec == Init /\ [][Next]_vars

-----------------------------------------------------------------------------
TypeOK ==
    /\ now \in Nat /\ dir \in BOOLEAN
    /\ {keyFile, pubFile} \subseteq Runs \cup {Absent, Torn}
    /\ certFile \in Certificates \cup {Absent, Torn}
    /\ pc \in [Runs -> {"idle"} \cup Steps \cup Over]
    /\ key \in [Runs -> Runs \cup {Absent}]
    /\ cert \in [Runs -> Certificates \cup {NoCert}]
    /\ refused \subseteq Runs
    /\ \A e \in agent : e.run \in Runs /\ {e.until, e.added, e.lifetime} \subseteq Nat

(* A key that is on disk stays: no run replaces it, because the public key in
   other systems and the certificate are good for this key only. (Runs that do
   not overlap; two first runs may both find no key.) *)
KeyIsStable == [][(keyFile \in Runs) => (keyFile' = keyFile)]_vars

(* When a run comes to use its certificate, key, public key and certificate
   belong together, in memory and on disk: whatever an earlier run left of them
   when it was killed. *)
BelongTogether ==
    \A r \in Runs : pc[r] = "agent" =>
        /\ cert[r].key = key[r]
        /\ keyFile = key[r] /\ pubFile = key[r] /\ certFile = cert[r]

(* A run that is not killed and can ask AAD (its cloud is supported, the Azure CLI
   has a token that can be used) fails only when AAD or the agent refuses, or on a
   key file that a killed run has left torn: no state that other runs leave of the
   directory, the public key or the certificate makes it fail. *)
FailsOnlyWhenRefused == \A r \in Runs : pc[r] = "failed" => r \in refused \/ keyFile = Torn

(* The certificate a run goes on with, loaded or acquired, is of its own key. *)
CertIsOfKey == \A r \in Runs : pc[r] = "agent" => cert[r].key = key[r]

(* The agent forgets a key no later than its certificate expires. *)
AgentForgets == \A e \in agent : e.lifetime # 0 /\ e.added + e.lifetime <= e.until
=============================================================================
