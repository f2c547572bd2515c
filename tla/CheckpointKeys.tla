--------------------------- MODULE CheckpointKeys ---------------------------
(***************************************************************************)
(* The keys with which the audit service signs and verifies checkpoints.   *)
(* A process reads its key id from its settings when it starts, and every  *)
(* key file once, when it first needs it; what it has read it keeps, while *)
(* the files may be replaced under it. A checkpoint names the id it was    *)
(* signed under, and an id other than the active one is looked up in a     *)
(* file of that name.                                                      *)
(***************************************************************************)
EXTENDS Naturals, Sequences

CONSTANTS
  Pair,            \* key pairs, by number
  None,
  MaxCheckpoints,  \* bound on the checkpoints written
  MaxChanges       \* bound on the times a file is changed

\* The id of a pair is its number: an id is never given to a second pair.
CheckpointKeysAssumption ==
  /\ Pair \subseteq Nat /\ 1 \in Pair /\ None \notin Pair
  /\ {MaxCheckpoints, MaxChanges} \subseteq Nat

VARIABLES
  private,      \* checkpoint_private_key_file
  public,       \* checkpoint_public_key_file
  named,        \* checkpoint_public_<id>.pem beside it
  setting,      \* checkpoint_key_id
  active,       \* the id the process started with, None if it does not run
  signer,       \* what get_signer returned: none yet, the local signer or the verifier
  loaded,       \* its private key
  ring,         \* its PublicKeyring
  checkpoints,  \* the id each names and the pair it was signed with
  reply,        \* what the last verification of the checkpoints returned
  changes

vars == <<private, public, named, setting, active, signer, loaded, ring, checkpoints, reply,
          changes>>

TypeOK ==
  /\ {private, public, active, loaded} \subseteq Pair \cup {None}
  /\ named \in [Pair -> Pair \cup {None}]
  /\ setting \in Pair
  /\ signer \in {"none", "local", "verifyOnly"}
  /\ ring \in [Pair -> Pair \cup {None}]
  /\ checkpoints \in Seq([id : Pair, pair : Pair])
  /\ reply \in [kind : {"none", "intact", "signature"}, verified : Nat]
  /\ changes \in 0 .. MaxChanges

NoReply == [kind |-> "none", verified |-> 0]

Forgets ==
  /\ signer' = "none"
  /\ loaded' = None
  /\ ring' = [i \in Pair |-> None]

Init ==
  /\ private = 1 /\ public = 1 /\ setting = 1
  /\ named = [i \in Pair |-> None]
  /\ active = None
  /\ signer = "none" /\ loaded = None /\ ring = [i \in Pair |-> None]
  /\ checkpoints = <<>>
  /\ reply = NoReply
  /\ changes = 0

-----------------------------------------------------------------------------

Start ==
  /\ active = None
  /\ active' = setting
  /\ UNCHANGED <<private, public, named, setting, signer, loaded, ring, checkpoints, reply,
                 changes>>

\* A stop or a crash.
Stop ==
  /\ active # None
  /\ active' = None
  /\ Forgets
  /\ reply' = NoReply
  /\ UNCHANGED <<private, public, named, setting, checkpoints, changes>>

Changes == changes < MaxChanges /\ changes' = changes + 1

\* While the service is down its pair is replaced by a new one: the old public key is kept
\* under its id, and the new pair is given an id of its own.
Rotate(p) ==
  /\ active = None /\ Changes
  /\ private \in {setting, None} /\ public = setting
  /\ p # setting /\ named[p] = None
  /\ named' = [named EXCEPT ![setting] = public]
  /\ private' = p /\ public' = p /\ setting' = p
  /\ UNCHANGED <<active, signer, loaded, ring, checkpoints, reply>>

\* A private key that is not the one of the published public key is put in its place, or is
\* taken away, or the right one is put back.
Misplace(p) ==
  /\ Changes
  /\ p # private
  /\ private' = p
  /\ UNCHANGED <<public, named, setting, active, signer, loaded, ring, checkpoints, reply>>

-----------------------------------------------------------------------------

\* get_signer: a process without a private key only verifies, until it is restarted.
Signer == IF signer # "none" THEN signer ELSE IF private = None THEN "verifyOnly" ELSE "local"

\* Bug: every id is taken for the active one.
LookupActive(i) == IF ring[i] # None THEN ring[i] ELSE public

\* PublicKeyring.get: None stands for UnknownKeyError, which is not remembered.
Lookup(i) ==
  IF ring[i] # None THEN ring[i] ELSE IF i = active THEN public ELSE named[i]

Remember(ids) == ring' = [i \in Pair |-> IF i \in ids THEN Lookup(i) ELSE ring[i]]

\* Bug: the private key is not held against the public one.
SignsAnyway == private # None

\* _private_key: read once, and refused unless it belongs to the published public key.
Fits == private # None /\ private = Lookup(active)

\* create_checkpoint under the chain lock, which writes nothing if it cannot sign.
Create ==
  /\ active # None /\ reply.kind = "none"
  /\ Len(checkpoints) < MaxCheckpoints
  /\ signer' = Signer
  /\ CASE Signer = "verifyOnly" -> UNCHANGED <<loaded, ring, checkpoints>>
       [] loaded # None ->
            /\ checkpoints' = Append(checkpoints, [id |-> active, pair |-> loaded])
            /\ UNCHANGED <<loaded, ring>>
       [] Signer = "local" /\ loaded = None /\ Fits ->
            /\ loaded' = private
            /\ Remember({active})
            /\ checkpoints' = Append(checkpoints, [id |-> active, pair |-> private])
       [] OTHER ->
            /\ IF private = None THEN UNCHANGED ring ELSE Remember({active})
            /\ UNCHANGED <<loaded, checkpoints>>
  /\ UNCHANGED <<private, public, named, setting, active, reply, changes>>

Signed(k) == Lookup(checkpoints[k].id) = checkpoints[k].pair

\* The checkpoints before the first whose signature is not of the key under its id.
Verified ==
  CHOOSE n \in 0 .. Len(checkpoints) :
    /\ \A k \in 1 .. n : Signed(k)
    /\ n < Len(checkpoints) => ~Signed(n + 1)

\* verify_checkpoints, in their order up to the first that does not hold. They are linked to
\* each other and to the chain by AuditChain.
VerifyCheckpoints ==
  /\ active # None /\ reply.kind = "none"
  /\ signer' = Signer
  /\ Remember({checkpoints[k].id : k \in {j \in DOMAIN checkpoints : j <= Verified + 1}})
  /\ reply' = [kind |-> IF Verified = Len(checkpoints) THEN "intact" ELSE "signature",
               verified |-> Verified]
  /\ UNCHANGED <<private, public, named, setting, active, loaded, checkpoints, changes>>

\* The reply is sent.
Reply ==
  /\ reply.kind # "none"
  /\ reply' = NoReply
  /\ UNCHANGED <<private, public, named, setting, active, signer, loaded, ring, checkpoints,
                 changes>>

Next ==
  \/ Start \/ Stop
  \/ \E p \in Pair : Rotate(p)
  \/ \E p \in Pair \cup {None} : Misplace(p)
  \/ Create \/ VerifyCheckpoints \/ Reply

Spec == Init /\ [][Next]_vars

-----------------------------------------------------------------------------

\* LocalFileSigner: whatever is done to the private key, and whatever a process remembers of
\* files replaced since, no checkpoint is written that a verification, of this process or of
\* a later one, reports as forged.
EveryCheckpointVerifies == reply.kind \in {"none", "intact"}

\* PublicKeyring and _private_key: the key a process signs with is the one it verifies by
\* under the same id, and what it has read it never changes.
SignsWhatItVerifies == loaded # None => ring[active] = loaded
=============================================================================
