------------------------ MODULE ChatAttachments_proofs ------------------------
(* Attachments have their objects, objects have their reasons, and messages  *)
(* their members.                                                            *)
EXTENDS ChatAttachments, TLAPS

\* The keys of one message and area.
LEMMA KeyOf ==
    ASSUME NEW m, NEW F
    PROVE  /\ \A k : k \in Final(m, F) <=> \E f \in F : k = <<"final", m, f>>
           /\ \A k : k \in Temporary(m, F) <=> \E f \in F : k = <<"temporary", m, f>>
  BY DEF Final, Temporary

LEMMA KeysApart ==
    ASSUME NEW m, NEW n, NEW F, NEW G
    PROVE  /\ Temporary(m, F) \cap Final(n, G) = {}
           /\ m # n => Final(m, F) \cap Final(n, G) = {} /\ Temporary(m, F) \cap Temporary(n, G) = {}
  <1>1. "temporary" # "final"
    OBVIOUS
  <1>2. QED BY <1>1, KeyOf

LEMMA KeysGrow ==
    ASSUME NEW m, NEW F, NEW H, NEW G, \A f : f \in G <=> f \in F \/ f \in H
    PROVE  /\ Final(m, G) = Final(m, F) \cup Final(m, H)
           /\ Temporary(m, G) = Temporary(m, F) \cup Temporary(m, H)
  <1>1. /\ \A k : k \in Final(m, G) <=> k \in Final(m, F) \cup Final(m, H)
        /\ \A k : k \in Temporary(m, G) <=> k \in Temporary(m, F) \cup Temporary(m, H)
    BY KeyOf
  <1>2. QED BY <1>1

LEMMA NoKeys == \A m : Final(m, {}) = {} /\ Temporary(m, {}) = {}
  BY KeyOf

LEMMA KeysInKeys ==
    ASSUME NEW m \in Messages, NEW F \in SUBSET Files
    PROVE  Final(m, F) \subseteq Keys /\ Temporary(m, F) \subseteq Keys
  BY DEF Final, Temporary, Keys, Areas

\* Deleting one object takes its key out of what is left to delete.
LEMMA FinalShrinks ==
    ASSUME NEW m, NEW k, NEW F, NEW G, \A f : f \in G <=> f \in F /\ k # <<"final", m, f>>
    PROVE  Final(m, G) = Final(m, F) \ {k}
  <1>1. \A j : j \in Final(m, G) <=> j \in Final(m, F) /\ j # k
    BY KeyOf
  <1>2. QED BY <1>1

LEMMA TemporaryShrinks ==
    ASSUME NEW m, NEW k, NEW F, NEW G, \A f : f \in G <=> f \in F /\ k # <<"temporary", m, f>>
    PROVE  Temporary(m, G) = Temporary(m, F) \ {k}
  <1>1. \A j : j \in Temporary(m, G) <=> j \in Temporary(m, F) /\ j # k
    BY KeyOf
  <1>2. QED BY <1>1

-----------------------------------------------------------------------------
(* Types *)
Early == {"none", "store", "check", "promote", "commit"}

LEMMA DeletesType ==
    ASSUME TypeOK, NEW m \in Messages, NEW T \in SUBSET Files, NEW F \in SUBSET Files, Deletes(m, T, F)
    PROVE  /\ upload' \in [Messages -> Upload]
           /\ \A n \in Messages \ {m} : upload'[n] = upload[n]
           /\ upload'[m].pc \in {"delete", "done"}
           /\ upload'[m].pc = "done" => upload'[m].temporaryKeys = {} /\ upload'[m].finalKeys = {}
           /\ upload'[m].temporaryKeys = T /\ upload'[m].finalKeys = F
           /\ upload'[m].chat = upload[m].chat /\ upload'[m].author = upload[m].author
  BY DEF Deletes, Goes, TypeOK, Upload, Steps

LEMMA GoesType ==
    ASSUME TypeOK, NEW m \in Messages, NEW next \in Upload, Goes(m, next)
    PROVE  /\ upload' \in [Messages -> Upload]
           /\ \A n \in Messages \ {m} : upload'[n] = upload[n]
           /\ upload'[m] = next
  BY DEF Goes, TypeOK

LEMMA FaultType == TypeOK /\ faults < MaxFaults /\ faults' = faults + 1 => faults' \in 0..MaxFaults
  BY MaxFaultsAssumption DEF TypeOK

LEMMA UploadFields ==
    ASSUME TypeOK, NEW m \in Messages
    PROVE  /\ upload[m] \in Upload
           /\ upload[m].temporaryKeys \in SUBSET Files /\ upload[m].finalKeys \in SUBSET Files
           /\ upload[m].files \in SUBSET Files /\ upload[m].chat \in Chats /\ upload[m].author \in Users
  BY DEF TypeOK, Upload

LEMMA UploadStepType ==
    ASSUME TypeOK, NEW m \in Messages, Step(m)
    PROVE  TypeOK'
  <1> USE UploadFields
  <1>1. ASSUME NEW f \in Files, StoreTemporary(m, f) PROVE TypeOK'
    <2> DEFINE T == upload[m].temporaryKeys \cup {f}
    <2> DEFINE next == [upload[m] EXCEPT !.temporaryKeys = T, !.pc = IF T = upload[m].files THEN "check" ELSE @]
    <2>1. next \in Upload /\ Goes(m, next)
      BY <1>1 DEF StoreTemporary, Upload, Steps
    <2> HIDE DEF next
    <2>2. upload' \in [Messages -> Upload]
      BY <2>1, GoesType
    <2>3. Temporary(m, {f}) \subseteq Keys
      BY KeysInKeys
    <2>4. QED BY <1>1, <2>2, <2>3 DEF StoreTemporary, TypeOK, rows
  <1>2. ASSUME NEW f \in Files, Promote(m, f) PROVE TypeOK'
    <2> DEFINE F == upload[m].finalKeys \cup {f}
    <2> DEFINE next == [upload[m] EXCEPT !.finalKeys = F, !.pc = IF F = upload[m].files THEN "commit" ELSE @]
    <2>1. next \in Upload /\ Goes(m, next)
      BY <1>2 DEF Promote, Upload, Steps
    <2> HIDE DEF next
    <2>2. upload' \in [Messages -> Upload]
      BY <2>1, GoesType
    <2>3. Final(m, {f}) \subseteq Keys
      BY KeysInKeys
    <2>4. QED BY <1>2, <2>2, <2>3 DEF Promote, TypeOK, rows
  <1>3. ASSUME NEW f \in Files, StoreFails(m, f) PROVE TypeOK'
    <2>1. Temporary(m, {f}) \subseteq Keys
      BY KeysInKeys
    <2>2. upload' \in [Messages -> Upload]
      BY <1>3, DeletesType DEF StoreFails, RollsBack
    <2>3. faults' \in 0..MaxFaults
      BY <1>3, FaultType DEF StoreFails
    <2>4. stored' \subseteq Keys /\ left' \subseteq Keys
      BY <1>3, <2>1 DEF StoreFails, TypeOK
    <2>5. QED BY <1>3, <2>2, <2>3, <2>4 DEF StoreFails, TypeOK, rows
  <1>4. ASSUME NEW f \in Files, PromoteFails(m, f) PROVE TypeOK'
    <2>1. Final(m, {f}) \subseteq Keys
      BY KeysInKeys
    <2>2. upload[m].finalKeys \cup {f} \in SUBSET Files
      OBVIOUS
    <2>3. upload' \in [Messages -> Upload]
      BY <1>4, <2>2, DeletesType DEF PromoteFails
    <2>4. faults' \in 0..MaxFaults
      BY <1>4, FaultType DEF PromoteFails
    <2>5. stored' \subseteq Keys
      BY <1>4, <2>1 DEF PromoteFails, TypeOK
    <2>6. QED BY <1>4, <2>3, <2>4, <2>5 DEF PromoteFails, TypeOK, rows
  <1>5. CASE CheckSender(m)
    <2>1. [upload[m] EXCEPT !.pc = "promote"] \in Upload
      BY DEF Upload, Steps
    <2>2. upload' \in [Messages -> Upload]
      BY <1>5, <2>1, GoesType DEF CheckSender
    <2>3. QED BY <1>5, <2>2 DEF CheckSender, TypeOK, rows
  <1>6. ASSUME Commit(m) \/ CommitUnanswered(m) PROVE TypeOK'
    <2>1. PICK F \in SUBSET Files : Deletes(m, upload[m].temporaryKeys, F)
      BY <1>6 DEF Commit, CommitUnanswered, RollsBack
    <2>2. upload' \in [Messages -> Upload]
      BY <2>1, DeletesType
    <2>3. faults' \in 0..MaxFaults
      BY <1>6, FaultType DEF Commit, CommitUnanswered, TypeOK
    <2>4. unsure' \subseteq Messages
      BY <1>6 DEF Commit, CommitUnanswered, TypeOK
    <2>5. QED BY <1>6, <2>2, <2>3, <2>4 DEF Commit, CommitUnanswered, Post, TypeOK
  <1>7. CASE Refuse(m)
    <2>1. upload' \in [Messages -> Upload]
      BY <1>7, DeletesType DEF Refuse, RollsBack
    <2>2. QED BY <1>7, <2>1 DEF Refuse, TypeOK, rows
  <1>8. ASSUME NEW k \in Keys, DeleteObject(m, k) PROVE TypeOK'
    <2> DEFINE T == {f \in upload[m].temporaryKeys : k # <<"temporary", m, f>>}
    <2> DEFINE F == {f \in upload[m].finalKeys : k # <<"final", m, f>>}
    <2>1. T \in SUBSET Files /\ F \in SUBSET Files /\ Deletes(m, T, F)
      BY <1>8 DEF DeleteObject
    <2> HIDE DEF T, F
    <2>2. upload' \in [Messages -> Upload]
      BY <2>1, DeletesType
    <2>3. faults' \in 0..MaxFaults
      BY <1>8, FaultType DEF DeleteObject, TypeOK
    <2>4. stored' \subseteq Keys /\ left' \subseteq Keys
      BY <1>8 DEF DeleteObject, TypeOK
    <2>5. UNCHANGED <<rows, unsure>>
      BY <1>8 DEF DeleteObject
    <2>6. QED BY <2>2, <2>3, <2>4, <2>5 DEF TypeOK, rows
  <1>9. QED BY <1>1, <1>2, <1>3, <1>4, <1>5, <1>6, <1>7, <1>8 DEF Step

LEMMA TypeStep == TypeOK /\ [Next]_vars => TypeOK'
  <1> SUFFICES ASSUME TypeOK, [Next]_vars PROVE TypeOK'
    OBVIOUS
  <1>1. ASSUME NEW m \in Messages, NEW F \in SUBSET Files, Begin(m, F) PROVE TypeOK'
    <2>1. [upload[m] EXCEPT !.pc = "store", !.files = F] \in Upload
      BY UploadFields DEF Upload, Steps
    <2>2. upload' \in [Messages -> Upload]
      BY <1>1, <2>1, GoesType DEF Begin
    <2>3. QED BY <1>1, <2>2 DEF Begin, TypeOK, rows
  <1>2. ASSUME NEW m \in Messages, Step(m) PROVE TypeOK'
    BY <1>2, UploadStepType
  <1>3. CASE Crash
    <2>1. \A m \in Messages : InHands(m) \subseteq Keys
      BY KeysInKeys, UploadFields DEF InHands
    <2>2. left' \subseteq Keys
      BY <1>3, <2>1 DEF Crash, TypeOK
    <2>3. upload' \in [Messages -> Upload]
      BY <1>3, UploadFields DEF Crash, Upload, Steps
    <2>4. faults' \in 0..MaxFaults
      BY <1>3, FaultType DEF Crash
    <2>5. QED BY <1>3, <2>2, <2>3, <2>4 DEF Crash, TypeOK, rows
  <1>4. CASE Other
    BY <1>4 DEF Other, Leave, Join, Deactivate, DeleteMessage, DeleteChat, Others, TypeOK
  <1>5. CASE UNCHANGED vars
    BY <1>5 DEF vars, TypeOK
  <1>6. QED BY <1>1, <1>2, <1>3, <1>4, <1>5 DEF Next

\* Every reachable row, object and upload is of its type.
THEOREM TypeCorrect == Spec => []TypeOK
  <1>1. Init => TypeOK
    BY MaxFaultsAssumption DEF Init, TypeOK, Upload, Steps
  <1>2. QED BY <1>1, TypeStep, PTL DEF Spec

-----------------------------------------------------------------------------
(* What a phase of an upload relies on.  As long as it may still be rolled   *)
(* back nobody sees its rows; while it holds its locks the sender may post;  *)
(* what it commits has been promoted, and is not among the keys it deletes   *)
(* afterwards unless its COMMIT was not answered.                            *)
Phase(m) ==
    LET u == upload[m]
    IN  /\ u.pc \in Early => message[m] = "none" /\ attached[m] = {} /\ m \notin unsure
        /\ u.pc \in {"none", "store", "check"} => u.finalKeys = {}
        /\ u.pc \in {"none", "done"} => u.temporaryKeys = {} /\ u.finalKeys = {}
        /\ u.pc \in {"promote", "commit"} =>
               IsActiveMember(u.chat, u.author) /\ Final(m, u.finalKeys) \subseteq stored
        /\ u.pc = "commit" => u.finalKeys = u.files
        /\ attached[m] # {} /\ m \notin unsure => u.finalKeys = {} /\ Final(m, attached[m]) \subseteq stored

Reasons(m) == InHands(m) \cup Final(m, attached[m])

IInv == TypeOK /\ (\A m \in Messages : Phase(m)) /\ NoStrayObject

\* A step of one upload leaves the others in their phases ...
LEMMA PhaseFrame ==
    ASSUME NEW n \in Messages, Phase(n),
           upload'[n] = upload[n], message'[n] = message[n], attached'[n] = attached[n], n \in unsure' <=> n \in unsure,
           upload[n].pc \in {"promote", "commit"} /\ IsActiveMember(upload[n].chat, upload[n].author) =>
               IsActiveMember(upload[n].chat, upload[n].author)',
           \A F : Final(n, F) \subseteq stored => Final(n, F) \subseteq stored'
    PROVE  Phase(n)'
  <1>1. \A F : Final(n, F)' = Final(n, F)
    BY DEF Final
  <1>2. UNCHANGED <<upload[n].pc, upload[n].files, upload[n].temporaryKeys, upload[n].finalKeys>>
    OBVIOUS
  <1>3. QED BY <1>1, <1>2 DEF Phase, Early, IsActiveMember

\* ... and their objects with their reasons.
LEMMA ReasonsFrame ==
    ASSUME NoStrayObject, NEW m \in Messages,
           \A n \in Messages \ {m} : upload'[n] = upload[n] /\ attached'[n] = attached[n],
           left \subseteq left',
           \A k \in stored' : k \notin stored \/ k \in Reasons(m) => k \in left' \cup Reasons(m)'
    PROVE  NoStrayObject'
  <1>1. SUFFICES ASSUME NEW k \in stored'
                 PROVE  k \in left' \/ \E n \in Messages : k \in Reasons(n)'
    BY DEF NoStrayObject, Reasons
  <1>2. CASE k \notin stored \/ k \in Reasons(m)
    BY <1>2
  <1>3. CASE k \in stored /\ k \in left
    BY <1>3
  <1>4. ASSUME NEW n \in Messages \ {m}, k \in Reasons(n) PROVE k \in Reasons(n)'
    BY <1>4 DEF Reasons, InHands, Temporary, Final
  <1>5. QED BY <1>1, <1>2, <1>3, <1>4 DEF NoStrayObject, Reasons

LEMMA StepFrame ==
    ASSUME IInv, NEW m \in Messages, UNCHANGED <<users, live, active>>,
           \A n \in Messages \ {m} : /\ upload'[n] = upload[n] /\ message'[n] = message[n]
                                     /\ attached'[n] = attached[n] /\ (n \in unsure' <=> n \in unsure),
           \A k \in stored \ stored' : k \in InHands(m),
           left \subseteq left',
           Phase(m)',
           \A k \in stored' : k \notin stored \/ k \in Reasons(m) => k \in left' \cup Reasons(m)'
    PROVE  (\A n \in Messages : Phase(n)') /\ NoStrayObject'
  <1>1. ASSUME NEW n \in Messages \ {m} PROVE Phase(n)'
    <2>1. ASSUME NEW F, Final(n, F) \subseteq stored PROVE Final(n, F) \subseteq stored'
      <3>1. Final(n, F) \cap InHands(m) = {}
        BY KeysApart DEF InHands
      <3>2. QED BY <2>1, <3>1
    <2>2. Phase(n) /\ n \in Messages
      BY DEF IInv
    <2>3. IsActiveMember(upload[n].chat, upload[n].author) => IsActiveMember(upload[n].chat, upload[n].author)'
      BY DEF IsActiveMember
    <2>4. QED BY <2>1, <2>2, <2>3, PhaseFrame
  <1>2. NoStrayObject'
    BY ReasonsFrame DEF IInv
  <1>3. QED BY <1>1, <1>2

\* The keys as sets of values, before and after a step.
LEMMA PrimedKeys ==
    /\ \A m, F : Temporary(m, F)' = Temporary(m, F) /\ Final(m, F)' = Final(m, F)
    /\ \A m : Reasons(m)' = Temporary(m, upload'[m].temporaryKeys) \cup Final(m, upload'[m].finalKeys)
                            \cup Final(m, attached'[m])
    /\ \A m : Reasons(m) = Temporary(m, upload[m].temporaryKeys) \cup Final(m, upload[m].finalKeys)
                           \cup Final(m, attached[m])
  BY DEF Temporary, Final, Reasons, InHands

\* The steps of one upload.
LEMMA UploadStep ==
    ASSUME IInv, NEW m \in Messages, Step(m)
    PROVE  (\A n \in Messages : Phase(n)') /\ NoStrayObject'
  <1>t. TypeOK /\ Phase(m)
    BY DEF IInv
  <1>f. /\ upload[m] \in Upload
        /\ upload[m].temporaryKeys \in SUBSET Files /\ upload[m].finalKeys \in SUBSET Files
        /\ upload[m].files \in SUBSET Files /\ upload[m].chat \in Chats /\ upload[m].author \in Users
    BY <1>t, UploadFields
  <1>1. ASSUME NEW f \in Files, StoreTemporary(m, f) PROVE (\A n \in Messages : Phase(n)') /\ NoStrayObject'
    <2> DEFINE T == upload[m].temporaryKeys \cup {f}
    <2> DEFINE next == [upload[m] EXCEPT !.temporaryKeys = T, !.pc = IF T = upload[m].files THEN "check" ELSE @]
    <2>1. next \in Upload /\ Goes(m, next)
      BY <1>1, <1>t, <1>f DEF StoreTemporary, Upload, Steps
    <2>2. /\ next.pc \in {"store", "check"} /\ next.temporaryKeys = T
          /\ next.finalKeys = upload[m].finalKeys /\ upload[m].pc = "store"
      BY <1>1, <1>t, <1>f DEF StoreTemporary, Upload
    <2> HIDE DEF next
    <2>3. upload'[m] = next /\ \A n \in Messages \ {m} : upload'[n] = upload[n]
      BY <2>1, <1>t, <1>f, GoesType
    <2>4. stored' = stored \cup Temporary(m, {f}) /\ UNCHANGED <<rows, left, unsure>>
      BY <1>1 DEF StoreTemporary
    <2>5. Phase(m)'
      BY <1>t, <2>2, <2>3, <2>4, PrimedKeys DEF Phase, Early, rows
    <2>6. Reasons(m)' = Reasons(m) \cup Temporary(m, {f})
      <3>0. \A g : g \in next.temporaryKeys <=> g \in upload[m].temporaryKeys \/ g \in {f}
        BY <2>2
      <3>1. Temporary(m, next.temporaryKeys) = Temporary(m, upload[m].temporaryKeys) \cup Temporary(m, {f})
        BY <3>0, KeysGrow
      <3>2. QED BY <2>2, <2>3, <2>4, <3>1, PrimedKeys DEF rows
    <2>7. QED BY <2>3, <2>4, <2>5, <2>6, StepFrame DEF rows
  <1>2. ASSUME NEW f \in Files, Promote(m, f) PROVE (\A n \in Messages : Phase(n)') /\ NoStrayObject'
    <2> DEFINE F == upload[m].finalKeys \cup {f}
    <2> DEFINE next == [upload[m] EXCEPT !.finalKeys = F, !.pc = IF F = upload[m].files THEN "commit" ELSE @]
    <2>1. next \in Upload /\ Goes(m, next)
      BY <1>2, <1>t, <1>f DEF Promote, Upload, Steps
    <2>2. /\ next.pc \in {"promote", "commit"} /\ next.finalKeys = F /\ upload[m].pc = "promote"
          /\ next.pc = "commit" => F = upload[m].files
          /\ next.temporaryKeys = upload[m].temporaryKeys /\ next.files = upload[m].files
          /\ next.chat = upload[m].chat /\ next.author = upload[m].author
      BY <1>2, <1>t, <1>f DEF Promote, Upload
    <2> HIDE DEF next
    <2>3. upload'[m] = next /\ \A n \in Messages \ {m} : upload'[n] = upload[n]
      BY <2>1, <1>t, <1>f, GoesType
    <2>4. stored' = stored \cup Final(m, {f}) /\ UNCHANGED <<rows, left, unsure>>
      BY <1>2 DEF Promote
    <2>5. Final(m, next.finalKeys) = Final(m, upload[m].finalKeys) \cup Final(m, {f})
      BY <2>2, KeysGrow
    <2>6. Phase(m)'
      BY <1>t, <2>2, <2>3, <2>4, <2>5, PrimedKeys DEF Phase, Early, rows, IsActiveMember
    <2>7. Reasons(m)' = Reasons(m) \cup Final(m, {f})
      BY <2>2, <2>3, <2>4, <2>5, PrimedKeys DEF rows
    <2>8. QED BY <2>3, <2>4, <2>6, <2>7, StepFrame DEF rows
  <1>3. ASSUME NEW f \in Files, StoreFails(m, f) PROVE (\A n \in Messages : Phase(n)') /\ NoStrayObject'
    <2> DEFINE T == upload[m].temporaryKeys
    <2>1. /\ upload[m].pc = "store" /\ Deletes(m, T, upload[m].finalKeys) /\ UNCHANGED <<rows, unsure>>
          /\ stored \subseteq stored' /\ left \subseteq left' /\ \A k \in stored' \ stored : k \in left'
      BY <1>3 DEF StoreFails, RollsBack
    <2>2. /\ upload'[m].pc \in {"delete", "done"} /\ upload'[m].temporaryKeys = T
          /\ upload'[m].finalKeys = upload[m].finalKeys /\ \A n \in Messages \ {m} : upload'[n] = upload[n]
          /\ upload'[m].pc = "done" => upload'[m].temporaryKeys = {} /\ upload'[m].finalKeys = {}
      BY <2>1, <1>t, <1>f, DeletesType
    <2>3. Phase(m)'
      BY <1>t, <2>1, <2>2, PrimedKeys DEF Phase, Early, rows
    <2>4. Reasons(m)' = Reasons(m)
      BY <2>1, <2>2, PrimedKeys DEF rows
    <2>5. QED BY <2>1, <2>2, <2>3, <2>4, StepFrame DEF rows
  <1>4. ASSUME NEW f \in Files, PromoteFails(m, f) PROVE (\A n \in Messages : Phase(n)') /\ NoStrayObject'
    <2> DEFINE F == upload[m].finalKeys \cup {f}
    <2>1. /\ upload[m].pc = "promote" /\ Deletes(m, upload[m].temporaryKeys, F) /\ UNCHANGED <<rows, left, unsure>>
          /\ stored \subseteq stored' /\ stored' \subseteq stored \cup Final(m, {f})
          /\ F \in SUBSET Files
      BY <1>4, <1>f DEF PromoteFails
    <2>2. /\ upload'[m].pc \in {"delete", "done"} /\ upload'[m].temporaryKeys = upload[m].temporaryKeys
          /\ upload'[m].finalKeys = F /\ \A n \in Messages \ {m} : upload'[n] = upload[n]
          /\ upload'[m].pc = "done" => upload'[m].temporaryKeys = {} /\ upload'[m].finalKeys = {}
      BY <2>1, <1>t, <1>f, DeletesType
    <2>3. Phase(m)'
      BY <1>t, <2>1, <2>2, PrimedKeys DEF Phase, Early, rows
    <2>4. Reasons(m)' = Reasons(m) \cup Final(m, {f})
      <3>1. Final(m, upload'[m].finalKeys) = Final(m, upload[m].finalKeys) \cup Final(m, {f})
        BY <2>2, KeysGrow
      <3>2. QED BY <2>1, <2>2, <3>1, PrimedKeys DEF rows
    <2>5. QED BY <2>1, <2>2, <2>3, <2>4, StepFrame DEF rows
  <1>5. CASE CheckSender(m)
    <2> DEFINE next == [upload[m] EXCEPT !.pc = "promote"]
    <2>1. next \in Upload /\ Goes(m, next) /\ upload[m].pc = "check"
      BY <1>5, <1>t, <1>f DEF CheckSender, Upload, Steps
    <2>2. /\ next.pc = "promote" /\ next.finalKeys = upload[m].finalKeys /\ next.temporaryKeys = upload[m].temporaryKeys
          /\ next.chat = upload[m].chat /\ next.author = upload[m].author
      BY <1>t, <1>f DEF Upload
    <2> HIDE DEF next
    <2>3. upload'[m] = next /\ \A n \in Messages \ {m} : upload'[n] = upload[n]
      BY <2>1, <1>t, <1>f, GoesType
    <2>4. UNCHANGED <<rows, stored, left, unsure>> /\ IsActiveMember(upload[m].chat, upload[m].author)
      BY <1>5 DEF CheckSender, IsAvailableSender
    <2>5. Final(m, {}) = {}
      BY NoKeys
    <2>6. Phase(m)'
      BY <1>t, <2>1, <2>2, <2>3, <2>4, <2>5, PrimedKeys DEF Phase, Early, rows, IsActiveMember
    <2>7. Reasons(m)' = Reasons(m)
      BY <2>2, <2>3, <2>4, PrimedKeys DEF rows
    <2>8. QED BY <2>3, <2>4, <2>6, <2>7, StepFrame DEF rows
  <1>6. CASE Commit(m)
    <2> DEFINE T == upload[m].temporaryKeys
    <2>1. /\ upload[m].pc = "commit" /\ Post(m) /\ Deletes(m, T, {}) /\ UNCHANGED <<stored, left, unsure>>
          /\ {} \in SUBSET Files
      BY <1>6 DEF Commit
    <2>2. /\ upload'[m].pc \in {"delete", "done"} /\ upload'[m].temporaryKeys = T
          /\ upload'[m].finalKeys = {} /\ \A n \in Messages \ {m} : upload'[n] = upload[n]
          /\ upload'[m].pc = "done" => upload'[m].temporaryKeys = {} /\ upload'[m].finalKeys = {}
      BY <2>1, <1>t, <1>f, DeletesType
    <2>3. /\ attached'[m] = upload[m].finalKeys /\ UNCHANGED <<users, live, active>>
          /\ \A n \in Messages \ {m} : message'[n] = message[n] /\ attached'[n] = attached[n]
      BY <1>t, <2>1 DEF Post, Phase, TypeOK
    <2>4. Phase(m)'
      BY <1>t, <2>1, <2>2, <2>3, PrimedKeys DEF Phase, Early
    <2>5. Reasons(m) = Reasons(m)'
      <3>1. attached[m] = {} /\ Final(m, {}) = {}
        BY <1>t, <2>1, NoKeys DEF Phase, Early
      <3>2. QED BY <2>2, <2>3, <3>1, PrimedKeys
    <2>6. QED BY <2>1, <2>2, <2>3, <2>4, <2>5, StepFrame
  <1>7. CASE CommitUnanswered(m)
    <2> DEFINE T == upload[m].temporaryKeys
    <2>1. /\ upload[m].pc = "commit" /\ Post(m) /\ Deletes(m, T, upload[m].finalKeys) /\ UNCHANGED <<stored, left>>
          /\ unsure' = unsure \cup {m}
      BY <1>7 DEF CommitUnanswered, RollsBack
    <2>2. /\ upload'[m].pc \in {"delete", "done"} /\ upload'[m].temporaryKeys = T
          /\ upload'[m].finalKeys = upload[m].finalKeys /\ \A n \in Messages \ {m} : upload'[n] = upload[n]
          /\ upload'[m].pc = "done" => upload'[m].temporaryKeys = {} /\ upload'[m].finalKeys = {}
      BY <2>1, <1>t, <1>f, DeletesType
    <2>3. /\ attached'[m] = upload[m].finalKeys /\ UNCHANGED <<users, live, active>>
          /\ \A n \in Messages \ {m} : message'[n] = message[n] /\ attached'[n] = attached[n]
      BY <1>t, <2>1 DEF Post, Phase, TypeOK
    <2>4. Phase(m)'
      BY <1>t, <2>1, <2>2, <2>3, PrimedKeys DEF Phase, Early
    <2>5. Reasons(m) \subseteq Reasons(m)'
      <3>1. attached[m] = {} /\ Final(m, {}) = {}
        BY <1>t, <2>1, NoKeys DEF Phase, Early
      <3>2. QED BY <2>2, <2>3, <3>1, PrimedKeys
    <2>6. QED BY <2>1, <2>2, <2>3, <2>4, <2>5, StepFrame
  <1>8. CASE Refuse(m)
    <2> DEFINE T == upload[m].temporaryKeys
    <2>1. /\ upload[m].pc \in {"check", "promote", "commit"} /\ Deletes(m, T, upload[m].finalKeys)
          /\ UNCHANGED <<rows, stored, left, unsure>>
      BY <1>8 DEF Refuse, RollsBack
    <2>2. /\ upload'[m].pc \in {"delete", "done"} /\ upload'[m].temporaryKeys = T
          /\ upload'[m].finalKeys = upload[m].finalKeys /\ \A n \in Messages \ {m} : upload'[n] = upload[n]
          /\ upload'[m].pc = "done" => upload'[m].temporaryKeys = {} /\ upload'[m].finalKeys = {}
      BY <2>1, <1>t, <1>f, DeletesType
    <2>3. Phase(m)'
      BY <1>t, <2>1, <2>2, PrimedKeys DEF Phase, Early, rows
    <2>4. Reasons(m)' = Reasons(m)
      BY <2>1, <2>2, PrimedKeys DEF rows
    <2>5. QED BY <2>1, <2>2, <2>3, <2>4, StepFrame DEF rows
  <1>9. ASSUME NEW k \in Keys, DeleteObject(m, k) PROVE (\A n \in Messages : Phase(n)') /\ NoStrayObject'
    <2> DEFINE T == {f \in upload[m].temporaryKeys : k # <<"temporary", m, f>>}
    <2> DEFINE F == {f \in upload[m].finalKeys : k # <<"final", m, f>>}
    <2>1. /\ T \in SUBSET Files /\ F \in SUBSET Files /\ F \subseteq upload[m].finalKeys /\ Deletes(m, T, F)
          /\ upload[m].pc = "delete" /\ k \in InHands(m) /\ UNCHANGED <<rows, unsure>>
      BY <1>9, <1>t, <1>f DEF DeleteObject, InHands
    <2>2. Temporary(m, T) = Temporary(m, upload[m].temporaryKeys) \ {k} /\ Final(m, F) = Final(m, upload[m].finalKeys) \ {k}
      <3>1. /\ \A f : f \in T <=> f \in upload[m].temporaryKeys /\ k # <<"temporary", m, f>>
            /\ \A f : f \in F <=> f \in upload[m].finalKeys /\ k # <<"final", m, f>>
        OBVIOUS
      <3> HIDE DEF T, F
      <3>2. Temporary(m, T) = Temporary(m, upload[m].temporaryKeys) \ {k}
        BY <3>1, TemporaryShrinks
      <3>3. Final(m, F) = Final(m, upload[m].finalKeys) \ {k}
        BY <3>1, FinalShrinks
      <3>4. QED BY <3>2, <3>3
    <2> HIDE DEF T, F
    <2>3. /\ upload'[m].pc \in {"delete", "done"} /\ upload'[m].temporaryKeys = T
          /\ upload'[m].finalKeys = F /\ \A n \in Messages \ {m} : upload'[n] = upload[n]
          /\ upload'[m].pc = "done" => upload'[m].temporaryKeys = {} /\ upload'[m].finalKeys = {}
      <3>1. T \in SUBSET Files /\ F \in SUBSET Files /\ Deletes(m, T, F)
        BY <2>1
      <3>2. QED BY <3>1, <1>t, DeletesType
    <2>4. /\ left \subseteq left' /\ stored' \subseteq stored /\ stored \ stored' \subseteq {k}
          /\ k \in stored' => k \in left'
      BY <1>9 DEF DeleteObject
    <2>5. Phase(m)'
      <3>1. ASSUME attached[m] # {}, m \notin unsure PROVE Final(m, attached[m]) \subseteq stored'
        <4>1. k \in Temporary(m, upload[m].temporaryKeys) /\ Final(m, attached[m]) \subseteq stored
          BY <3>1, <1>t, <2>1, NoKeys DEF Phase, InHands
        <4>2. k \notin Final(m, attached[m])
          BY <4>1, KeysApart
        <4>3. QED BY <4>1, <4>2, <2>4
      <3>2. QED BY <1>t, <2>1, <2>3, <3>1, PrimedKeys DEF Phase, Early, rows
    <2>6. Reasons(m) \subseteq Reasons(m)' \cup {k}
      BY <2>1, <2>2, <2>3, PrimedKeys DEF rows
    <2>7. QED BY <2>1, <2>3, <2>4, <2>5, <2>6, StepFrame DEF rows
  <1>10. QED BY <1>1, <1>2, <1>3, <1>4, <1>5, <1>6, <1>7, <1>8, <1>9 DEF Step

\* The other use cases wait for the locks an upload holds: its sender stays.
LEMMA SenderStays ==
    ASSUME TypeOK, Other, NEW m \in Messages, upload[m].pc \in {"promote", "commit"},
           IsActiveMember(upload[m].chat, upload[m].author)
    PROVE  IsActiveMember(upload[m].chat, upload[m].author)' /\ UNCHANGED upload
  <1> DEFINE chat == upload[m].chat
  <1> DEFINE author == upload[m].author
  <1>1. chat \in Chats /\ author \in Users /\ Holds(m, chat)
    BY UploadFields DEF Holds
  <1>2. ASSUME NEW c \in Chats, NEW a \in Users, Leave(c, a) \/ Join(c, a) PROVE IsActiveMember(chat, author)'
    <2>1. c # chat
      BY <1>1, <1>2 DEF Leave, Join, ChatFree, Holds
    <2>2. QED BY <1>1, <1>2, <2>1 DEF Leave, Join, IsActiveMember, Others, TypeOK
  <1>3. ASSUME NEW a \in Users, Deactivate(a) PROVE IsActiveMember(chat, author)'
    <2>1. author = a => author \notin active[chat]
      BY <1>1, <1>3 DEF Deactivate, MembershipFree
    <2>2. QED BY <1>1, <1>3, <2>1 DEF Deactivate, IsActiveMember, Others
  <1>4. ASSUME NEW n \in Messages, DeleteMessage(n) PROVE IsActiveMember(chat, author)'
    BY <1>4 DEF DeleteMessage, IsActiveMember, Others
  <1>5. ASSUME NEW c \in Chats, DeleteChat(c) PROVE IsActiveMember(chat, author)'
    <2>1. c # chat
      BY <1>1, <1>5 DEF DeleteChat, ChatFree, Holds
    <2>2. QED BY <1>5, <2>1 DEF DeleteChat, IsActiveMember, Others
  <1>6. UNCHANGED upload
    BY DEF Other, Leave, Join, Deactivate, DeleteMessage, DeleteChat, Others
  <1>7. QED BY <1>2, <1>3, <1>4, <1>5, <1>6 DEF Other

LEMMA OtherStep ==
    ASSUME IInv, Other
    PROVE  (\A m \in Messages : Phase(m)') /\ NoStrayObject'
  <1>1. UNCHANGED <<attached, Others>>
    BY DEF Other, Leave, Join, Deactivate, DeleteMessage, DeleteChat
  <1>2. ASSUME NEW m \in Messages PROVE message'[m] = message[m] \/ message[m] = "posted"
    BY DEF Other, Leave, Join, Deactivate, DeleteMessage, DeleteChat, IInv, TypeOK
  <1>3. ASSUME NEW m \in Messages PROVE Phase(m)'
    <2>1. Phase(m) /\ TypeOK
      BY DEF IInv
    <2>2. upload[m].pc \in Early => message'[m] = "none"
      BY <1>2, <2>1 DEF Phase
    <2>3. upload[m].pc \in {"promote", "commit"} => IsActiveMember(upload[m].chat, upload[m].author)'
      BY <2>1, SenderStays DEF Phase
    <2>4. QED BY <1>1, <2>1, <2>2, <2>3, PrimedKeys DEF Phase, Others, Early, IsActiveMember
  <1>4. NoStrayObject'
    BY <1>1, PrimedKeys DEF IInv, NoStrayObject, InHands, Others
  <1>5. QED BY <1>3, <1>4

LEMMA CrashStep ==
    ASSUME IInv, Crash
    PROVE  (\A m \in Messages : Phase(m)') /\ NoStrayObject'
  <1>1. UNCHANGED <<rows, stored, unsure>> /\ left' = left \cup UNION {InHands(m) : m \in Messages}
    BY DEF Crash
  <1>2. ASSUME NEW m \in Messages
        PROVE  /\ upload'[m].finalKeys = {} /\ upload'[m].temporaryKeys = {}
               /\ upload'[m].pc = IF upload[m].pc = "none" THEN "none" ELSE "done"
    BY UploadFields DEF IInv, Crash, Upload
  <1>3. ASSUME NEW m \in Messages PROVE Phase(m)'
    <2>1. Phase(m)
      BY DEF IInv
    <2>2. QED BY <1>1, <1>2, <2>1, PrimedKeys DEF Phase, Early, rows
  <1>4. ASSUME NEW k \in stored, NEW m \in Messages, k \in Reasons(m) PROVE k \in left' \/ k \in Final(m, attached'[m])
    BY <1>1, <1>4 DEF Reasons, rows
  <1>5. NoStrayObject'
    BY <1>1, <1>4, PrimedKeys DEF IInv, NoStrayObject, Reasons, rows
  <1>6. QED BY <1>3, <1>5

LEMMA BeginStep ==
    ASSUME IInv, NEW m \in Messages, NEW F \in SUBSET Files, Begin(m, F)
    PROVE  (\A n \in Messages : Phase(n)') /\ NoStrayObject'
  <1> DEFINE next == [upload[m] EXCEPT !.pc = "store", !.files = F]
  <1>1. TypeOK /\ Phase(m) /\ upload[m] \in Upload
    BY UploadFields DEF IInv
  <1>2. next \in Upload /\ Goes(m, next) /\ upload[m].pc = "none" /\ UNCHANGED <<rows, stored, left, unsure>>
    BY <1>1 DEF Begin, Upload, Steps
  <1>3. next.pc = "store" /\ next.finalKeys = upload[m].finalKeys /\ next.temporaryKeys = upload[m].temporaryKeys
    BY <1>1 DEF Upload
  <1> HIDE DEF next
  <1>4. upload'[m] = next /\ \A n \in Messages \ {m} : upload'[n] = upload[n]
    BY <1>1, <1>2, GoesType
  <1>5. Phase(m)'
    BY <1>1, <1>2, <1>3, <1>4, PrimedKeys DEF Phase, Early, rows
  <1>6. Reasons(m)' = Reasons(m)
    BY <1>2, <1>3, <1>4, PrimedKeys DEF rows
  <1>7. QED BY <1>2, <1>4, <1>5, <1>6, StepFrame DEF rows

LEMMA Inductive == IInv /\ [Next]_vars => IInv'
  <1> SUFFICES ASSUME IInv, [Next]_vars PROVE (\A m \in Messages : Phase(m)') /\ NoStrayObject'
    BY TypeStep DEF IInv
  <1>1. ASSUME NEW m \in Messages, NEW F \in SUBSET Files, Begin(m, F)
        PROVE  (\A n \in Messages : Phase(n)') /\ NoStrayObject'
    BY <1>1, BeginStep
  <1>2. ASSUME NEW m \in Messages, Step(m)
        PROVE  (\A n \in Messages : Phase(n)') /\ NoStrayObject'
    BY <1>2, UploadStep
  <1>3. CASE Crash
    BY <1>3, CrashStep
  <1>4. CASE Other
    BY <1>4, OtherStep
  <1>5. CASE UNCHANGED vars
    <2>1. \A m \in Messages : Phase(m)'
      BY <1>5, PrimedKeys DEF vars, IInv, Phase, Early, IsActiveMember
    <2>2. NoStrayObject'
      BY <1>5, PrimedKeys DEF vars, IInv, NoStrayObject, InHands
    <2>3. QED BY <2>1, <2>2
  <1>6. QED BY <1>1, <1>2, <1>3, <1>4, <1>5 DEF Next

LEMMA Initially == Init => IInv
  <1> SUFFICES ASSUME Init PROVE IInv
    OBVIOUS
  <1>1. TypeOK
    BY MaxFaultsAssumption DEF Init, TypeOK, Upload, Steps
  <1>2. ASSUME NEW m \in Messages PROVE Phase(m)
    BY DEF Init, Phase, Early
  <1>3. NoStrayObject
    BY DEF Init, NoStrayObject
  <1>4. QED BY <1>1, <1>2, <1>3 DEF IInv

LEMMA Always == Spec => []IInv
  BY Initially, Inductive, PTL DEF Spec

-----------------------------------------------------------------------------
\* Every attachment of a message has its object under the final key, deleted or
\* not, unless the answer to the COMMIT of its upload was lost.
THEOREM AttachmentsHaveObjects == Spec => []AttachmentHasObject
  <1>1. IInv => AttachmentHasObject
    <2> SUFFICES ASSUME IInv, NEW m \in Messages \ unsure PROVE Final(m, attached[m]) \subseteq stored
      BY DEF AttachmentHasObject
    <2>1. CASE attached[m] = {}
      BY <2>1, NoKeys
    <2>2. CASE attached[m] # {}
      BY <2>2 DEF IInv, Phase
    <2>3. QED BY <2>1, <2>2
  <1>2. QED BY <1>1, Always, PTL

\* Every object in the storage is attached, is about to be deleted by its
\* upload, or was left behind by a failed call or a restart.
THEOREM ObjectsHaveReasons == Spec => []NoStrayObject
  <1>1. IInv => NoStrayObject
    BY DEF IInv
  <1>2. QED BY <1>1, Always, PTL

\* A message with files is posted by who is an active member of a chat that is
\* not deleted, however long its files took.
THEOREM MessagesByMembers == Spec => PostedByMember
  <1> DEFINE Posts == \A m \in Messages : message[m] = "none" /\ message'[m] # "none" =>
                          IsActiveMember(upload[m].chat, upload[m].author)
  <1>1. IInv /\ [Next]_vars => [Posts]_vars
    <2> SUFFICES ASSUME IInv, Next, NEW m \in Messages, message[m] = "none", message'[m] # "none"
                 PROVE  IsActiveMember(upload[m].chat, upload[m].author)
      OBVIOUS
    <2>1. CASE Other
      BY <2>1 DEF Other, Leave, Join, Deactivate, DeleteMessage, DeleteChat, IInv, TypeOK
    <2>2. ASSUME NEW n \in Messages, Step(n) PROVE IsActiveMember(upload[m].chat, upload[m].author)
      <3>1. Commit(n) \/ CommitUnanswered(n)
        BY <2>2 DEF Step, StoreTemporary, Promote, StoreFails, PromoteFails, CheckSender, Refuse, DeleteObject, rows
      <3>2. Post(n) /\ upload[n].pc = "commit"
        BY <3>1 DEF Commit, CommitUnanswered
      <3>3. n = m
        BY <3>2 DEF Post, IInv, TypeOK
      <3>4. QED BY <3>2, <3>3 DEF IInv, Phase
    <2>3. QED BY <2>1, <2>2 DEF Next, Begin, Crash, rows
  <1>2. QED BY <1>1, Always, PTL DEF Spec, PostedByMember
=============================================================================
