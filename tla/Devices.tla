------------------------------- MODULE Devices -------------------------------
(***************************************************************************)
(* The attendance devices of one employee (src/src/routes/attendance-        *)
(* devices.ts): enrolment of a key, its approval and revocation, and the     *)
(* challenges a check-in proves the device with (src/src/routes/            *)
(* attendance.ts). Every request reads and writes in separate statements.    *)
(*                                                                         *)
(* Challenges are numbers; a signature is right or wrong. What a check-in    *)
(* does with the proof is in Attendance, and the audit entries are left out. *)
(***************************************************************************)
EXTENDS Integers, FiniteSets

CONSTANTS
  Phones,          \* keys the employee may enrol
  DeviceRequests,  \* overlapping requests
  DeviceLimit,     \* devices that may be active; 5 in the code
  ChallengeLimit,  \* open challenges of a device; 20 in the code
  MaxEnrolments,   \* bound: enrolments started
  MaxChallenges,   \* bound: challenges issued
  NoPhone

ASSUME DevicesAssumption ==
  /\ NoPhone \notin Phones /\ IsFiniteSet(DeviceRequests)
  /\ {DeviceLimit, ChallengeLimit} \subseteq Nat \ {0}
  /\ {MaxEnrolments, MaxChallenges} \subseteq Nat

VARIABLES
  device,      \* the row of each key
  enrolments,  \* enrolment challenges issued so far
  challenges,  \* rows of attendance_device_challenges
  issuedIds,   \* challenges issued so far
  asking,      \* a request: its step, its device and what it has read
  accepted     \* history: how often each challenge was accepted as a proof

devicesVars == <<device, enrolments, challenges, issuedIds, asking, accepted>>

\* open is the challenge that enrolment awaits an answer to, 0 for none or an expired
\* one; proof the one that was answered (key_proven_at), issued the last one sent.
Device == [status : {"none", "pending", "approved", "revoked"},
           open : 0 .. MaxEnrolments, proof : 0 .. MaxEnrolments, issued : 0 .. MaxEnrolments]
NoDevice == [status |-> "none", open |-> 0, proof |-> 0, issued |-> 0]
Challenge == [id : 1 .. MaxChallenges, phone : Phones, consumed : BOOLEAN, expired : BOOLEAN]
Asking == [at : {"idle", "enrol", "clear", "prove", "approve", "wipe", "revoke",
                 "sweep", "count", "issue", "look", "consume"},
           phone : Phones \cup {NoPhone}, number : 0 .. MaxEnrolments + MaxChallenges]
NotAsking == [at |-> "idle", phone |-> NoPhone, number |-> 0]

DevicesTypeOK ==
  /\ device \in [Phones -> Device] /\ enrolments \in 0 .. MaxEnrolments
  /\ challenges \subseteq Challenge /\ issuedIds \in 0 .. MaxChallenges
  /\ asking \in [DeviceRequests -> Asking]
  /\ accepted \in [1 .. MaxChallenges -> Nat]

DevicesInit ==
  /\ device = [f \in Phones |-> NoDevice] /\ enrolments = 0
  /\ challenges = {} /\ issuedIds = 0
  /\ asking = [p \in DeviceRequests |-> NotAsking]
  /\ accepted = [n \in 1 .. MaxChallenges |-> 0]

GoOn(p, at) == asking' = [asking EXCEPT ![p].at = at]
Begin(p, at, f, n) ==
  asking[p].at = "idle" /\ asking' = [asking EXCEPT ![p] = [at |-> at, phone |-> f, number |-> n]]
Done(p) == asking' = [asking EXCEPT ![p] = NotAsking]
PhoneOf(p) == asking[p].phone
Without(f) == {c \in challenges : c.phone # f}

-----------------------------------------------------------------------------
(* Enrolment *)

Active == {f \in Phones : device[f].status \in {"pending", "approved"}}

\* POST /me/enroll/start: the limit is for keys that are new.
EnrolRead(p, f) ==
  /\ device[f].status # "none" \/ Cardinality(Active) < DeviceLimit
  /\ Begin(p, "enrol", f, 0)
  /\ UNCHANGED <<device, enrolments, challenges, issuedIds, accepted>>

\* The upsert starts again from nothing, also for a key that was approved.
EnrolWrite(p) ==
  /\ asking[p].at = "enrol" /\ enrolments < MaxEnrolments
  /\ enrolments' = enrolments + 1
  /\ device' = [device EXCEPT ![PhoneOf(p)] = [status |-> "pending", open |-> enrolments + 1,
                                            proof |-> 0, issued |-> enrolments + 1]]
  /\ GoOn(p, "clear")
  /\ UNCHANGED <<challenges, issuedIds, accepted>>

EnrolClear(p) ==
  /\ asking[p].at = "clear"
  /\ challenges' = Without(PhoneOf(p)) /\ Done(p)
  /\ UNCHANGED <<device, enrolments, issuedIds, accepted>>

\* POST /me/:id/enroll/confirm: the answer is checked against the row as it was read ...
ConfirmRead(p, f) ==
  /\ device[f].status = "pending" /\ device[f].open # 0
  /\ Begin(p, "prove", f, device[f].open)
  /\ UNCHANGED <<device, enrolments, challenges, issuedIds, accepted>>

\* Mutant: the key is proven in whatever row is pending by now.
ProvableAny(p) == device[PhoneOf(p)].status = "pending"

Provable(p) == device[PhoneOf(p)].status = "pending" /\ device[PhoneOf(p)].open = asking[p].number

\* ... and counts only if the same challenge is still open.
ConfirmWrite(p) ==
  /\ asking[p].at = "prove"
  /\ device' = IF Provable(p)
                 THEN [device EXCEPT ![PhoneOf(p)].open = 0, ![PhoneOf(p)].proof = asking[p].number]
                 ELSE device
  /\ Done(p)
  /\ UNCHANGED <<enrolments, challenges, issuedIds, accepted>>

EnrolmentExpires(f) ==
  /\ device[f].open # 0
  /\ device' = [device EXCEPT ![f].open = 0]
  /\ UNCHANGED <<enrolments, challenges, issuedIds, asking, accepted>>

-----------------------------------------------------------------------------
(* Approval and revocation *)

Verified(f) == device[f].status = "pending" /\ device[f].proof # 0

\* PUT /:id/approve
ApproveRead(p, f) ==
  /\ Verified(f) /\ Begin(p, "approve", f, 0)
  /\ UNCHANGED <<device, enrolments, challenges, issuedIds, accepted>>

StillVerified(p) == Verified(PhoneOf(p))

ApproveWrite(p) ==
  /\ asking[p].at = "approve"
  /\ device' = IF StillVerified(p) THEN [device EXCEPT ![PhoneOf(p)].status = "approved"] ELSE device
  /\ Done(p)
  /\ UNCHANGED <<enrolments, challenges, issuedIds, accepted>>

\* DELETE /me/:id and DELETE /:id: the challenges go first ...
RevokeRead(p, f) ==
  /\ device[f].status \in {"pending", "approved"} /\ Begin(p, "wipe", f, 0)
  /\ UNCHANGED <<device, enrolments, challenges, issuedIds, accepted>>

RevokeWipe(p) ==
  /\ asking[p].at = "wipe"
  /\ challenges' = Without(PhoneOf(p)) /\ GoOn(p, "revoke")
  /\ UNCHANGED <<device, enrolments, issuedIds, accepted>>

\* ... and the device after them, unless another request was faster.
RevokeWrite(p) ==
  /\ asking[p].at = "revoke"
  /\ device' = [device EXCEPT ![PhoneOf(p)].status = "revoked", ![PhoneOf(p)].open = 0]
  /\ Done(p)
  /\ UNCHANGED <<enrolments, challenges, issuedIds, accepted>>

-----------------------------------------------------------------------------
(* Challenges of check-ins *)

\* POST /me/:id/checkin-challenge
ChallengeRead(p, f) ==
  /\ device[f].status = "approved" /\ Begin(p, "sweep", f, 0)
  /\ UNCHANGED <<device, enrolments, challenges, issuedIds, accepted>>

ChallengeSweep(p) ==
  /\ asking[p].at = "sweep"
  /\ challenges' = {c \in challenges : c.phone # PhoneOf(p) \/ ~(c.consumed \/ c.expired)}
  /\ GoOn(p, "count")
  /\ UNCHANGED <<device, enrolments, issuedIds, accepted>>

OpenOf(f) == {c \in challenges : c.phone = f /\ ~c.consumed /\ ~c.expired}

RoomLeft(f) == Cardinality(OpenOf(f)) < ChallengeLimit

ChallengeCount(p) ==
  /\ asking[p].at = "count"
  /\ IF RoomLeft(PhoneOf(p)) THEN GoOn(p, "issue") ELSE Done(p)
  /\ UNCHANGED <<device, enrolments, challenges, issuedIds, accepted>>

ChallengeIssue(p) ==
  /\ asking[p].at = "issue" /\ issuedIds < MaxChallenges
  /\ issuedIds' = issuedIds + 1
  /\ challenges' = challenges \cup
       {[id |-> issuedIds + 1, phone |-> PhoneOf(p), consumed |-> FALSE, expired |-> FALSE]}
  /\ Done(p)
  /\ UNCHANGED <<device, enrolments, accepted>>

ChallengeExpires(c) ==
  /\ ~c.expired
  /\ challenges' = (challenges \ {c}) \cup {[c EXCEPT !.expired = TRUE]}
  /\ UNCHANGED <<device, enrolments, issuedIds, asking, accepted>>

\* POST /attendance/checkin with the proof n: the device is looked up, by the time the
\* request was received the challenge may have expired ...
ProofRead(p, f, n) ==
  /\ device[f].status = "approved"
  /\ \A c \in challenges : c.id = n => ~c.expired
  /\ Begin(p, "look", f, n)
  /\ UNCHANGED <<device, enrolments, challenges, issuedIds, accepted>>

\* ... then its challenge and the signature; what is wrong with them sends the
\* check-in to review.
ProofLook(p) ==
  /\ asking[p].at = "look"
  /\ \/ /\ \E c \in challenges : c.id = asking[p].number /\ c.phone = PhoneOf(p) /\ ~c.consumed
        /\ GoOn(p, "consume")
     \/ Done(p)
  /\ UNCHANGED <<device, enrolments, challenges, issuedIds, accepted>>

ConsumableProof(p) == {c \in challenges : c.id = asking[p].number /\ ~c.consumed}

\* The update that consumes the challenge decides whether the proof is accepted.
ProofConsume(p) ==
  /\ asking[p].at = "consume"
  /\ LET hit == ConsumableProof(p) IN
     /\ challenges' = (challenges \ hit) \cup {[c EXCEPT !.consumed = TRUE] : c \in hit}
     /\ accepted' = IF hit = {} THEN accepted ELSE [accepted EXCEPT ![asking[p].number] = @ + 1]
  /\ Done(p)
  /\ UNCHANGED <<device, enrolments, issuedIds>>

DeviceCrash(p) ==
  /\ asking[p].at # "idle"
  /\ Done(p)
  /\ UNCHANGED <<device, enrolments, challenges, issuedIds, accepted>>

DevicesNext ==
  \/ \E p \in DeviceRequests, f \in Phones :
       \/ EnrolRead(p, f) \/ ConfirmRead(p, f) \/ ApproveRead(p, f) \/ RevokeRead(p, f)
       \/ ChallengeRead(p, f)
       \/ \E n \in 1 .. issuedIds : ProofRead(p, f, n)
  \/ \E p \in DeviceRequests :
       \/ EnrolWrite(p) \/ EnrolClear(p) \/ ConfirmWrite(p) \/ ApproveWrite(p)
       \/ RevokeWipe(p) \/ RevokeWrite(p)
       \/ ChallengeSweep(p) \/ ChallengeCount(p) \/ ChallengeIssue(p)
       \/ ProofLook(p) \/ ProofConsume(p) \/ DeviceCrash(p)
  \/ \E f \in Phones : EnrolmentExpires(f)
  \/ \E c \in challenges : ChallengeExpires(c)

-----------------------------------------------------------------------------
(* Properties *)

\* A device is trusted only after its owner has answered the challenge of its
\* latest enrolment: neither a confirmation nor an approval that was under way
\* when the enrolment was started again carries over to the new one.
ApprovedHasProvedItsKey ==
  \A f \in Phones : device[f].status = "approved" =>
    device[f].proof # 0 /\ device[f].proof = device[f].issued

\* One challenge vouches for one check-in, however many requests present it at the
\* same time (POST /attendance/checkin).
ProofAcceptedOnce == \A n \in 1 .. MaxChallenges : accepted[n] <= 1

\* Challenges that wait to be used stay within the limit, but for the requests
\* that have counted and not yet inserted (POST /me/:id/checkin-challenge).
ChallengesBounded ==
  \A f \in Phones :
    Cardinality(OpenOf(f)) <= ChallengeLimit + Cardinality(DeviceRequests) - 1

\* A device is trusted for the key it proved, each proof is good for one check-in,
\* and open challenges are bounded, however enrolments and check-ins overlap.
DevicesSafe == DevicesTypeOK /\ ApprovedHasProvedItsKey /\ ProofAcceptedOnce /\ ChallengesBounded
=============================================================================
