------------------------- MODULE MessageAdaptorProofs -------------------------
(***************************************************************************)
(* Proofs about MessageAdaptor, for all pools and field values the         *)
(* assumptions allow.  The two loops of the adaptor are steps of the       *)
(* model, so each is proved by its loop invariant: after index iterations  *)
(* the slots hold the first index items at their places (the address      *)
(* loop shifted by its starting counter) and the rest are untouched.      *)
(***************************************************************************)
EXTENDS MessageAdaptor, SequenceTheorems, TLAPS

\* given of fhir_patient.name[0] and line of fhir_patient.address[0]
Given == FhirName.given
Line == FhirAddress.line

\* the value the address counter starts from
LineStart == IF Len(Line) = 3 THEN 0 ELSE 1

\* the name part of Adaptable: what create_patient_name needs
NameOK(p) ==
  /\ Present(p.name) /\ Present(p.name[1].prefix)
  /\ Present(p.name[1].given) /\ Len(p.name[1].given) <= 3

\* given_names after index iterations of the given-name loop
GivenSlots(j) == IF j <= index THEN Given[j] ELSE None

\* address_lines after index iterations of the address loop
LineSlots(j) ==
  IF LineStart < j /\ j <= counter THEN Line[j - LineStart] ELSE EmptyString

(* The inductive invariant: the loop invariants of both loops, the name   *)
(* built while the address is being adapted, and the two properties once *)
(* the call has ended.                                                    *)
IInv ==
  /\ patient \in Patients
  /\ pc \in {"name", "givenLoop", "address", "lineLoop", "done"}
  /\ pc # "done" => outcome = Pending
  /\ pc = "givenLoop" =>
       /\ Present(patient.name) /\ Given \in Seq(STRING)
       /\ index \in 0..Len(Given) /\ index <= 3
       /\ slots \in Seq(STRING \cup {None}) /\ Len(slots) = 3
       /\ \A j \in 1..3 : slots[j] = GivenSlots(j)
  /\ pc \in {"address", "lineLoop"} =>
       NameOK(patient) /\ ediName = ReferenceName(FhirName)
  /\ pc = "lineLoop" =>
       /\ Present(patient.address) /\ Line \in Seq(STRING)
       /\ index \in 0..Len(Line) /\ counter = LineStart + index /\ counter <= 3
       /\ slots \in Seq(STRING \cup {EmptyString}) /\ Len(slots) = 3
       /\ \A j \in 1..3 : slots[j] = LineSlots(j)
  /\ pc = "done" =>
       /\ outcome # Pending
       /\ AcceptsExactlyAdaptable
       /\ AdaptedAsReference

-----------------------------------------------------------------------------
(* Lemmas on the values a patient can hold.                               *)

\* A list field of a patient is None or a list of its entries.
LEMMA OptListType ==
  ASSUME NEW S, NEW list \in OptList(S)
  PROVE  /\ list \in {None} \cup Seq(S)
         /\ Present(list) => list[1] \in S
<1>1. CASE list \in {None, <<>>}
  BY <1>1, EmptySeq DEF Present
<1>2. CASE list \in {<<x>> : x \in S}
  <2>1. PICK x \in S : list = <<x>>
    BY <1>2
  <2>2. <<x>> \in [1..1 -> S]
    OBVIOUS
  <2>. QED  BY <2>1, <2>2, SeqDef
<1>. QED  BY <1>1, <1>2 DEF OptList

\* A three-element list is a sequence of length 3.
LEMMA TripleSeq ==
  ASSUME NEW S, NEW a \in S, NEW b \in S, NEW c \in S
  PROVE  <<a, b, c>> \in Seq(S) /\ Len(<<a, b, c>>) = 3
<1>1. <<a, b, c>> \in [1..3 -> S]
  OBVIOUS
<1>. QED  BY <1>1, SeqDef

\* A one-entry list of strings is a sequence of strings.
LEMMA SingletonSeq ==
  ASSUME NEW S, NEW x \in S
  PROVE  <<x>> \in Seq(S)
<1>1. <<x>> \in [1..1 -> S]
  OBVIOUS
<1>. QED  BY <1>1, SeqDef

\* given and line are None or lists of strings.
LEMMA OptSeqsType ==
  ASSUME NEW pool \in Seq(STRING), NEW s \in OptSeqs(pool)
  PROVE  s \in {None} \cup Seq(STRING)
<1>1. CASE s # None
  <2>1. PICK k \in 0..Len(pool) : s = SubSeq(pool, 1, k)
    BY <1>1 DEF OptSeqs
  <2>2. \A i \in 1..k : pool[i] \in STRING
    BY <2>1, ElementOfSeq
  <2>. QED  BY <2>1, <2>2, SubSeqProperties
<1>. QED  BY <1>1

\* list[0] raises exactly when the list is None or empty, and otherwise
\* returns its first entry.
LEMMA PyIndexZero ==
  ASSUME NEW S, NEW list \in {None} \cup Seq(S)
  PROVE  /\ Fails(PyIndex(list, 0)) <=> ~Present(list)
         /\ Fails(PyIndex(list, 0)) => PyIndex(list, 0).raised # "pending"
         /\ ~Fails(PyIndex(list, 0)) => PyIndex(list, 0).value = list[1]
<1>1. CASE list = None
  BY <1>1 DEF PyIndex, Fails, Error, Present
<1>2. CASE list \in Seq(S) /\ list # None
  BY <1>2, EmptySeq, LenProperties DEF PyIndex, Fails, Error, Ok, Present
<1>. QED  BY <1>1, <1>2

\* The fields create_message_segment_patient_detail reads.
LEMMA PatientFields ==
  ASSUME NEW p \in Patients
  PROVE  /\ p.name \in {None} \cup Seq(HumanNames)
         /\ p.address \in {None} \cup Seq(Addresses)
         /\ p.identifier \in {None} \cup Seq({NhsNumber})
         /\ p.birthDate \in {None, BirthDate}
         /\ p.gender \in DOMAIN GenderMap \cup {None}
         /\ Present(p.name) =>
              /\ p.name[1].given \in {None} \cup Seq(STRING)
              /\ p.name[1].prefix \in {None} \cup Seq(STRING)
              /\ p.name[1].family = Family
         /\ Present(p.address) =>
              /\ p.address[1].line \in {None} \cup Seq(STRING)
              /\ p.address[1].district \in {None, District}
<1>1. /\ p.name \in OptList(HumanNames) /\ p.address \in OptList(Addresses)
      /\ p.identifier \in OptList({NhsNumber})
      /\ p.birthDate \in {None, BirthDate}
      /\ p.gender \in DOMAIN GenderMap \cup {None}
  BY DEF Patients
<1>2. /\ p.name \in {None} \cup Seq(HumanNames)
      /\ p.address \in {None} \cup Seq(Addresses)
      /\ p.identifier \in {None} \cup Seq({NhsNumber})
  BY <1>1, OptListType
<1>3. ASSUME Present(p.name)
      PROVE  /\ p.name[1].given \in {None} \cup Seq(STRING)
             /\ p.name[1].prefix \in {None} \cup Seq(STRING)
             /\ p.name[1].family = Family
  <2>1. p.name[1] \in HumanNames
    BY <1>1, <1>3, OptListType
  <2>2. <<Prefix>> \in Seq(STRING)
    BY PoolsAssumption, SingletonSeq
  <2>3. p.name[1].given \in OptSeqs(GivenPool)
    BY <2>1 DEF HumanNames
  <2>. QED  BY <2>1, <2>2, <2>3, PoolsAssumption, OptSeqsType, EmptySeq
            DEF HumanNames
<1>4. ASSUME Present(p.address)
      PROVE  /\ p.address[1].line \in {None} \cup Seq(STRING)
             /\ p.address[1].district \in {None, District}
  <2>1. p.address[1] \in Addresses
    BY <1>1, <1>4, OptListType
  <2>2. p.address[1].line \in OptSeqs(LinePool)
    BY <2>1 DEF Addresses
  <2>. QED  BY <2>1, <2>2, PoolsAssumption, OptSeqsType DEF Addresses
<1>. QED  BY <1>1, <1>2, <1>3, <1>4

-----------------------------------------------------------------------------
(* The invariant holds initially and is kept by every step.               *)

LEMMA InitIInv == Init => IInv
BY DEF Init, IInv

\* Evaluating name[0] and starting the loop over given.
LEMMA EnterNameIInv == IInv /\ EnterName => IInv'
<1> SUFFICES ASSUME IInv, EnterName PROVE IInv'
  OBVIOUS
<1> DEFINE name0 == PyIndex(patient.name, 0)
<1>1. /\ patient \in Patients /\ patient' = patient /\ pc = "name"
      /\ UNCHANGED <<counter, ediName>>
  BY DEF IInv, EnterName
<1>2. patient.name \in {None} \cup Seq(HumanNames)
  BY <1>1, PatientFields
<1>3. CASE Fails(name0)
  <2>1. outcome' = name0 /\ pc' = "done"
    BY <1>3 DEF EnterName, Exit
  <2>2. ~Present(patient.name) /\ outcome' # Pending
    BY <1>2, <1>3, <2>1, PyIndexZero DEF Pending
  <2>3. Fails(outcome') /\ ~Adaptable(patient')
    BY <1>1, <1>3, <2>1, <2>2 DEF Adaptable
  <2>. QED  BY <1>1, <2>1, <2>2, <2>3
            DEF IInv, AcceptsExactlyAdaptable, AdaptedAsReference
<1>4. CASE ~Fails(name0)
  <2>1. Present(patient.name) /\ name0.value = FhirName
    BY <1>2, <1>4, PyIndexZero DEF FhirName
  <2>2. Given \in {None} \cup Seq(STRING)
    BY <1>1, <2>1, PatientFields DEF Given, FhirName
  <2>3. CASE Given = None
    <3>1. outcome' = Error("TypeError") /\ pc' = "done"
      BY <1>4, <2>1, <2>3 DEF EnterName, Exit, Given
    <3>2. ~Adaptable(patient')
      BY <1>1, <2>3 DEF Adaptable, Present, Given, FhirName
    <3>3. Fails(outcome') /\ outcome' # Pending
      BY <3>1 DEF Fails, Error, Pending
    <3>. QED  BY <1>1, <3>1, <3>2, <3>3
              DEF IInv, AcceptsExactlyAdaptable, AdaptedAsReference
  <2>4. CASE Given # None
    <3>1. /\ pc' = "givenLoop" /\ slots' = <<None, None, None>> /\ index' = 0
          /\ outcome' = outcome
      BY <1>4, <2>1, <2>4 DEF EnterName, Exit, Given
    <3>2. /\ slots' \in Seq(STRING \cup {None}) /\ Len(slots') = 3
          /\ \A j \in 1..3 : slots'[j] = GivenSlots(j)'
      BY <3>1 DEF GivenSlots
    <3>3. Given' \in Seq(STRING) /\ Present(patient'.name)
      BY <1>1, <2>1, <2>2, <2>4 DEF Given, FhirName
    <3>. QED  BY <1>1, <3>1, <3>2, <3>3, LenProperties DEF IInv
  <2>. QED  BY <2>3, <2>4
<1>. QED  BY <1>3, <1>4

\* One iteration of the given-name loop: the next name lands at its index,
\* or the index is past the three slots and IndexError ends the call.
LEMMA GivenStepIInv == IInv /\ GivenStep => IInv'
<1> SUFFICES ASSUME IInv, GivenStep PROVE IInv'
  OBVIOUS
<1>1. /\ patient \in Patients /\ patient' = patient /\ pc = "givenLoop"
      /\ UNCHANGED <<counter, ediName>> /\ outcome = Pending
      /\ Present(patient.name) /\ Given \in Seq(STRING)
      /\ index \in 0..Len(Given) /\ index <= 3 /\ index < Len(Given)
      /\ slots \in Seq(STRING \cup {None}) /\ Len(slots) = 3
      /\ \A j \in 1..3 : slots[j] = GivenSlots(j)
  BY DEF IInv, GivenStep, Given, FhirName
<1>2. CASE index < Len(slots)
  <2>1. /\ slots' = [slots EXCEPT ![index + 1] = Given[index + 1]]
        /\ index' = index + 1 /\ pc' = pc /\ outcome' = outcome
    BY <1>1, <1>2 DEF GivenStep, Given, FhirName
  <2>2. Given[index + 1] \in STRING \cup {None}
    <3>1. index + 1 \in 1..Len(Given)
      BY <1>1
    <3>. QED  BY <1>1, <3>1, ElementOfSeq
  <2>3. /\ slots' \in Seq(STRING \cup {None}) /\ Len(slots') = 3
        /\ \A j \in 1..3 : slots'[j] = IF j = index + 1 THEN Given[index + 1]
                                                        ELSE slots[j]
    <3>1. index + 1 \in 1..Len(slots)
      BY <1>1, <1>2, LenProperties
    <3> DEFINE upd == [slots EXCEPT ![index + 1] = Given[index + 1]]
    <3>2. /\ upd \in Seq(STRING \cup {None}) /\ Len(upd) = Len(slots)
          /\ \A j \in 1..Len(slots) : upd[j] = IF j = index + 1
                                                THEN Given[index + 1] ELSE slots[j]
      <4>1. slots \in Seq(STRING \cup {None})
        BY <1>1
      <4>. QED  BY <4>1, <2>2, <3>1, ExceptSeq
    <3>. QED  BY <1>1, <2>1, <3>2
  <2>4. \A j \in 1..3 : slots'[j] = GivenSlots(j)'
    <3> SUFFICES ASSUME NEW j \in 1..3
                 PROVE  slots'[j] = IF j <= index + 1 THEN Given[j] ELSE None
      BY <1>1, <2>1 DEF GivenSlots, Given, FhirName
    <3>1. CASE j = index + 1
      BY <2>3, <3>1
    <3>2. CASE j # index + 1
      BY <1>1, <2>3, <3>2 DEF GivenSlots
    <3>. QED  BY <3>1, <3>2
  <2>. QED  BY <1>1, <1>2, <2>1, <2>3, <2>4 DEF IInv, Given, FhirName
<1>3. CASE index >= Len(slots)
  <2>1. outcome' = Error("IndexError") /\ pc' = "done"
    BY <1>1, <1>3 DEF GivenStep, Exit
  <2>2. ~Adaptable(patient')
    <3>1. Len(patient.name[1].given) > 3
      BY <1>1, <1>3, LenProperties DEF Given, FhirName
    <3>. QED  BY <1>1, <3>1 DEF Adaptable
  <2>3. Fails(outcome') /\ outcome' # Pending
    BY <2>1 DEF Fails, Error, Pending
  <2>. QED  BY <1>1, <2>1, <2>2, <2>3
            DEF IInv, AcceptsExactlyAdaptable, AdaptedAsReference
<1>. QED  BY <1>1, <1>2, <1>3

\* The end of the given-name loop: prefix[0] and given[0] are evaluated and
\* the name built from the slots is the reference name.
LEMMA BuildNameIInv == IInv /\ BuildName => IInv'
<1> SUFFICES ASSUME IInv, BuildName PROVE IInv'
  OBVIOUS
<1> DEFINE title == PyIndex(FhirName.prefix, 0)
           first == PyIndex(FhirName.given, 0)
<1>1. /\ patient \in Patients /\ patient' = patient /\ pc = "givenLoop"
      /\ UNCHANGED <<slots, counter, index>> /\ outcome = Pending
      /\ Present(patient.name) /\ Given \in Seq(STRING)
      /\ index = Len(Given) /\ index <= 3
      /\ \A j \in 1..3 : slots[j] = GivenSlots(j)
  BY DEF IInv, BuildName, Given, FhirName
<1>2. FhirName.prefix \in {None} \cup Seq(STRING) /\ FhirName.family = Family
  BY <1>1, PatientFields DEF FhirName
<1>3. CASE Fails(title)
  <2>1. outcome' = title /\ pc' = "done" /\ outcome' # Pending
    BY <1>2, <1>3, PyIndexZero DEF BuildName, Exit, Pending
  <2>2. ~Adaptable(patient')
    BY <1>1, <1>2, <1>3, PyIndexZero DEF Adaptable, FhirName
  <2>. QED  BY <1>1, <1>3, <2>1, <2>2
            DEF IInv, AcceptsExactlyAdaptable, AdaptedAsReference
<1>4. CASE ~Fails(title) /\ Fails(first)
  <2>1. outcome' = first /\ pc' = "done" /\ outcome' # Pending
    BY <1>1, <1>4, PyIndexZero DEF BuildName, Exit, Pending, Given
  <2>2. ~Adaptable(patient')
    BY <1>1, <1>4, PyIndexZero DEF Adaptable, Given, FhirName
  <2>. QED  BY <1>1, <1>4, <2>1, <2>2
            DEF IInv, AcceptsExactlyAdaptable, AdaptedAsReference
<1>5. CASE ~Fails(title) /\ ~Fails(first)
  <2>1. /\ pc' = "address" /\ outcome' = outcome
        /\ ediName' = [title |-> title.value, family_name |-> FhirName.family,
                       first_given_forename |-> first.value,
                       middle_name |-> slots[2], third_given_forename |-> slots[3]]
    BY <1>5 DEF BuildName, Exit
  <2>2. /\ Present(FhirName.prefix) /\ title.value = FhirName.prefix[1]
        /\ Present(Given) /\ first.value = Given[1]
    BY <1>1, <1>2, <1>5, PyIndexZero DEF Given
  <2>3. /\ slots[2] = ElemOr(Given, 2, None)
        /\ slots[3] = ElemOr(Given, 3, None)
    BY <1>1 DEF GivenSlots, ElemOr
  <2>4. ediName' = ReferenceName(FhirName)
    BY <1>2, <2>1, <2>2, <2>3 DEF ReferenceName, Given
  <2>5. NameOK(patient')
    BY <1>1, <2>2 DEF NameOK, Given, FhirName
  <2>. QED  BY <1>1, <2>1, <2>4, <2>5 DEF IInv, FhirName
<1>. QED  BY <1>3, <1>4, <1>5

\* Evaluating address[0], len(line) and the counter's start.
LEMMA EnterAddressIInv == IInv /\ EnterAddress => IInv'
<1> SUFFICES ASSUME IInv, EnterAddress PROVE IInv'
  OBVIOUS
<1> DEFINE address0 == PyIndex(patient.address, 0)
<1>1. /\ patient \in Patients /\ patient' = patient /\ pc = "address"
      /\ ediName' = ediName /\ outcome = Pending
      /\ NameOK(patient) /\ ediName = ReferenceName(FhirName)
  BY DEF IInv, EnterAddress
<1>2. patient.address \in {None} \cup Seq(Addresses)
  BY <1>1, PatientFields
<1>3. CASE Fails(address0)
  <2>1. outcome' = address0 /\ pc' = "done"
    BY <1>3 DEF EnterAddress, Exit
  <2>2. ~Present(patient.address) /\ address0.raised # "pending"
    BY <1>2, <1>3, PyIndexZero
  <2>4. outcome' # Pending
    BY <2>1, <2>2 DEF Pending
  <2>3. Fails(outcome') /\ ~Adaptable(patient')
    BY <1>1, <1>3, <2>1, <2>2 DEF Adaptable
  <2>. QED  BY <1>1, <2>1, <2>3, <2>4
            DEF IInv, AcceptsExactlyAdaptable, AdaptedAsReference
<1>4. CASE ~Fails(address0)
  <2>1. Present(patient.address) /\ address0.value = FhirAddress
    BY <1>2, <1>4, PyIndexZero DEF FhirAddress
  <2>2. Line \in {None} \cup Seq(STRING)
    BY <1>1, <2>1, PatientFields DEF Line, FhirAddress
  <2>3. CASE Line = None
    <3>1. outcome' = Error("TypeError") /\ pc' = "done"
      BY <1>4, <2>1, <2>3 DEF EnterAddress, Exit, Line
    <3>2. ~Adaptable(patient')
      BY <1>1, <2>3 DEF Adaptable, Line, FhirAddress
    <3>3. Fails(outcome') /\ outcome' # Pending
      BY <3>1 DEF Fails, Error, Pending
    <3>. QED  BY <1>1, <3>1, <3>2, <3>3
              DEF IInv, AcceptsExactlyAdaptable, AdaptedAsReference
  <2>4. CASE Line # None
    <3>1. /\ pc' = "lineLoop" /\ index' = 0
          /\ slots' = <<EmptyString, EmptyString, EmptyString>>
          /\ counter' = LineStart /\ outcome' = outcome
      BY <1>4, <2>1, <2>4 DEF EnterAddress, Exit, Line, LineStart
    <3>2. /\ Line' \in Seq(STRING) /\ LineStart' = LineStart
          /\ LineStart \in {0, 1}
      BY <1>1, <2>2, <2>4 DEF Line, FhirAddress, LineStart
    <3>3. slots' \in Seq(STRING \cup {EmptyString}) /\ Len(slots') = 3
      <4>1. EmptyString \in STRING \cup {EmptyString}
        OBVIOUS
      <4>. QED  BY <3>1, <4>1, TripleSeq
    <3>5. \A j \in 1..3 : slots'[j] = LineSlots(j)'
      <4> SUFFICES ASSUME NEW j \in 1..3
                   PROVE  slots'[j] = LineSlots(j)'
        OBVIOUS
      <4>1. LineSlots(j)' = EmptyString
        BY <1>1, <3>1 DEF LineSlots, LineStart, Line, FhirAddress
      <4>. QED  BY <3>1, <4>1
    <3>4. /\ Present(patient'.address) /\ NameOK(patient')
          /\ ediName' = ReferenceName(FhirName)'
      <4>1. Present(patient'.address) /\ NameOK(patient')
        BY <1>1, <2>1
      <4>2. FhirName' = FhirName
        BY <1>1 DEF FhirName
      <4>. QED  BY <1>1, <4>1, <4>2
    <3>. QED  BY <1>1, <3>1, <3>2, <3>3, <3>4, <3>5, LenProperties DEF IInv
  <2>. QED  BY <2>3, <2>4
<1>. QED  BY <1>3, <1>4

\* One iteration of the address loop: the next line lands at the counter,
\* or the counter is past the three slots and IndexError ends the call.
LEMMA LineStepIInv == IInv /\ LineStep => IInv'
<1> SUFFICES ASSUME IInv, LineStep PROVE IInv'
  OBVIOUS
<1>1. /\ patient \in Patients /\ patient' = patient /\ pc = "lineLoop"
      /\ ediName' = ediName /\ outcome = Pending
      /\ NameOK(patient) /\ ediName = ReferenceName(FhirName)
      /\ Present(patient.address) /\ Line \in Seq(STRING)
      /\ index \in 0..Len(Line) /\ index < Len(Line)
      /\ counter = LineStart + index /\ counter <= 3
      /\ slots \in Seq(STRING \cup {EmptyString}) /\ Len(slots) = 3
      /\ \A j \in 1..3 : slots[j] = LineSlots(j)
  BY DEF IInv, LineStep, Line, FhirAddress
<1>2. /\ Len(Line) \in Nat /\ LineStart \in {0, 1} /\ LineStart' = LineStart
      /\ counter \in Nat /\ index \in Nat /\ Len(slots) = 3
  BY <1>1, LenProperties DEF LineStart, Line, FhirAddress
<1>3. CASE counter < Len(slots)
  <2>1. /\ slots' = [slots EXCEPT ![counter + 1] = Line[index + 1]]
        /\ counter' = counter + 1 /\ index' = index + 1
        /\ pc' = pc /\ outcome' = outcome
    BY <1>2, <1>3 DEF LineStep, Line, FhirAddress
  <2>2. Line[index + 1] \in STRING \cup {EmptyString}
    <3>1. index + 1 \in 1..Len(Line)
      BY <1>1, <1>2
    <3>. QED  BY <1>1, <3>1, ElementOfSeq
  <2>3. /\ slots' \in Seq(STRING \cup {EmptyString}) /\ Len(slots') = 3
        /\ \A j \in 1..3 : slots'[j] = IF j = counter + 1 THEN Line[index + 1]
                                                          ELSE slots[j]
    <3>1. counter + 1 \in 1..Len(slots)
      BY <1>1, <1>2, <1>3
    <3>2. slots \in Seq(STRING \cup {EmptyString})
      BY <1>1
    <3> DEFINE upd == [slots EXCEPT ![counter + 1] = Line[index + 1]]
    <3>3. /\ upd \in Seq(STRING \cup {EmptyString}) /\ Len(upd) = Len(slots)
          /\ \A j \in 1..Len(slots) : upd[j] = IF j = counter + 1
                                                THEN Line[index + 1] ELSE slots[j]
      BY <2>2, <3>1, <3>2, ExceptSeq
    <3>. QED  BY <1>2, <2>1, <3>3
  <2>4. \A j \in 1..3 : slots'[j] = LineSlots(j)'
    <3> SUFFICES ASSUME NEW j \in 1..3
                 PROVE  slots'[j] = IF LineStart < j /\ j <= counter + 1
                                    THEN Line[j - LineStart] ELSE EmptyString
      BY <1>1, <1>2, <2>1 DEF LineSlots, Line, FhirAddress
    <3>1. CASE j = counter + 1
      <4>1. j - LineStart = index + 1 /\ LineStart < j
        BY <1>1, <1>2, <3>1
      <4>. QED  BY <2>3, <3>1, <4>1
    <3>2. CASE j # counter + 1
      <4>1. slots'[j] = slots[j]
        BY <2>3, <3>2
      <4>2. slots[j] = LineSlots(j)
        BY <1>1
      <4>. QED  BY <1>2, <3>2, <4>1, <4>2 DEF LineSlots
    <3>. QED  BY <3>1, <3>2
  <2>5. /\ index' \in 0..Len(Line') /\ counter' = LineStart' + index'
        /\ counter' <= 3
    BY <1>1, <1>2, <1>3, <2>1 DEF Line, FhirAddress
  <2>. QED  BY <1>1, <2>1, <2>3, <2>4, <2>5
            DEF IInv, Line, FhirAddress, FhirName
<1>4. CASE counter >= Len(slots)
  <2>1. outcome' = Error("IndexError") /\ pc' = "done"
    BY <1>2, <1>4 DEF LineStep, Exit
  <2>2. ~Adaptable(patient')
    <3>1. Len(patient.address[1].line) > 3
      BY <1>1, <1>2, <1>4 DEF Line, FhirAddress, LineStart
    <3>. QED  BY <1>1, <3>1 DEF Adaptable
  <2>3. Fails(outcome') /\ outcome' # Pending
    BY <2>1 DEF Fails, Error, Pending
  <2>. QED  BY <1>1, <2>1, <2>2, <2>3
            DEF IInv, AcceptsExactlyAdaptable, AdaptedAsReference
<1>. QED  BY <1>2, <1>3, <1>4

\* After the address loop the slots hold the reference layout: the lines
\* in order, after an empty house name unless there are exactly three.
LEMMA SlotsAsReference ==
  \A line \in Seq(STRING), sl \in [1..3 -> STRING \cup {EmptyString}] :
    LET start == IF Len(line) = 3 THEN 0 ELSE 1
        lines == IF Len(line) = 3 THEN line ELSE <<EmptyString>> \o line
    IN  /\ Len(line) <= 3
        /\ \A j \in 1..3 : sl[j] = IF start < j /\ j <= start + Len(line)
                                   THEN line[j - start] ELSE EmptyString
        => \A j \in 1..3 : sl[j] = ElemOr(lines, j, EmptyString)
<1> SUFFICES ASSUME NEW line \in Seq(STRING),
                    NEW sl \in [1..3 -> STRING \cup {EmptyString}],
                    Len(line) <= 3,
                    \A j \in 1..3 :
                      sl[j] = IF (IF Len(line) = 3 THEN 0 ELSE 1) < j
                                 /\ j <= (IF Len(line) = 3 THEN 0 ELSE 1) + Len(line)
                              THEN line[j - (IF Len(line) = 3 THEN 0 ELSE 1)]
                              ELSE EmptyString,
                    NEW j \in 1..3
             PROVE  sl[j] = ElemOr(IF Len(line) = 3 THEN line
                                   ELSE <<EmptyString>> \o line, j, EmptyString)
  OBVIOUS
<1>1. Len(line) \in Nat
  BY LenProperties
<1>2. CASE Len(line) = 3
  <2>1. sl[j] = line[j]
    BY <1>1, <1>2
  <2>2. ElemOr(line, j, EmptyString) = line[j]
    BY <1>2 DEF ElemOr
  <2>. QED  BY <1>2, <2>1, <2>2
<1>3. CASE Len(line) # 3
  <2> DEFINE S == STRING \cup {EmptyString}
             lines == <<EmptyString>> \o line
  <2>1. <<EmptyString>> \in Seq(S) /\ line \in Seq(S)
    BY SingletonSeq, SeqMonotonic
  <2>2. /\ Len(lines) = 1 + Len(line)
        /\ \A i \in 1..1 + Len(line) :
             lines[i] = IF i <= 1 THEN EmptyString ELSE line[i - 1]
    <3>1. Len(<<EmptyString>>) = 1 /\ <<EmptyString>>[1] = EmptyString
      OBVIOUS
    <3>. QED  BY <2>1, <3>1, ConcatProperties
  <2>3. sl[j] = IF 1 < j /\ j <= 1 + Len(line) THEN line[j - 1] ELSE EmptyString
    BY <1>3
  <2>4. ElemOr(lines, j, EmptyString)
          = IF j <= 1 + Len(line) THEN lines[j] ELSE EmptyString
    BY <2>2 DEF ElemOr
  <2>. QED  BY <1>1, <1>3, <2>2, <2>3, <2>4
<1>. QED  BY <1>2, <1>3

\* The end of the address loop: identifier[0], birthDate, gender_map
\* [gender], and the segment built is the reference segment.
LEMMA BuildSegmentIInv == IInv /\ BuildSegment => IInv'
<1> SUFFICES ASSUME IInv, BuildSegment PROVE IInv'
  OBVIOUS
<1> DEFINE ident == PyIndex(patient.identifier, 0)
<1>1. /\ patient \in Patients /\ patient' = patient /\ pc = "lineLoop"
      /\ outcome = Pending /\ NameOK(patient)
      /\ ediName = ReferenceName(FhirName)
      /\ Present(patient.address) /\ Line \in Seq(STRING)
      /\ index = Len(Line) /\ counter = LineStart + index /\ counter <= 3
      /\ \A j \in 1..3 : slots[j] = LineSlots(j)
  BY DEF IInv, BuildSegment, Line, FhirAddress
<1>2. /\ patient.identifier \in {None} \cup Seq({NhsNumber})
      /\ patient.birthDate \in {None, BirthDate}
      /\ patient.gender \in DOMAIN GenderMap \cup {None}
      /\ Line = FhirAddress.line /\ FhirAddress.district \in {None, District}
  BY <1>1, PatientFields DEF Line, FhirAddress
<1>3. CASE Fails(ident)
  <2>1. outcome' = ident /\ pc' = "done"
    BY <1>3 DEF BuildSegment, Exit
  <2>2. ~Present(patient.identifier) /\ ident.raised # "pending"
    BY <1>2, <1>3, PyIndexZero
  <2>3. Fails(outcome') /\ outcome' # Pending /\ ~Adaptable(patient')
    BY <1>1, <1>3, <2>1, <2>2 DEF Adaptable, Pending
  <2>. QED  BY <1>1, <2>1, <2>3
            DEF IInv, AcceptsExactlyAdaptable, AdaptedAsReference
<1>4. CASE ~Fails(ident) /\ patient.birthDate = None
  <2>1. outcome' = Error("AttributeError") /\ pc' = "done"
    BY <1>4 DEF BuildSegment, Exit
  <2>2. Fails(outcome') /\ outcome' # Pending /\ ~Adaptable(patient')
    BY <1>1, <1>4, <2>1 DEF Adaptable, Fails, Error, Pending
  <2>. QED  BY <1>1, <2>1, <2>2
            DEF IInv, AcceptsExactlyAdaptable, AdaptedAsReference
<1>5. CASE ~Fails(ident) /\ patient.birthDate # None
           /\ patient.gender \notin DOMAIN GenderMap
  <2>1. outcome' = Error("KeyError") /\ pc' = "done"
    BY <1>5 DEF BuildSegment, Exit
  <2>2. patient.gender = None
    BY <1>2, <1>5
  <2>3. Fails(outcome') /\ outcome' # Pending /\ ~Adaptable(patient')
    BY <1>1, <2>1, <2>2 DEF Adaptable, Fails, Error, Pending
  <2>. QED  BY <1>1, <2>1, <2>3
            DEF IInv, AcceptsExactlyAdaptable, AdaptedAsReference
<1>6. CASE ~Fails(ident) /\ patient.birthDate # None
           /\ patient.gender \in DOMAIN GenderMap
  <2> DEFINE address == [house_name |-> slots[1], address_line_1 |-> slots[2],
                         address_line_2 |-> slots[3], town |-> FhirAddress.city,
                         county |-> IF FhirAddress.district \in {None, EmptyString}
                                    THEN EmptyString ELSE FhirAddress.district,
                         post_code |-> FhirAddress.postalCode]
             segment == [id_number |-> ident.value, name |-> ediName,
                         date_of_birth |-> patient.birthDate,
                         gender |-> GenderMap[patient.gender],
                         address |-> address]
  <2>1. outcome' = Ok(segment) /\ pc' = "done"
    BY <1>6 DEF BuildSegment, Exit
  <2>2. Present(patient.identifier) /\ ident.value = patient.identifier[1]
    BY <1>2, <1>6, PyIndexZero
  <2>3. Len(Line) <= 3 /\ Line # None /\ patient.gender # None
    BY <1>1, <1>6, NoneAssumption, LenProperties DEF LineStart
  <2>4. Adaptable(patient')
    BY <1>1, <1>6, <2>2, <2>3 DEF Adaptable, NameOK, Line, FhirAddress
  <2>5. address = ReferenceAddress(FhirAddress)
    <3>1. \A j \in 1..3 :
            slots[j] = ElemOr(IF Len(Line) = 3 THEN Line
                              ELSE <<EmptyString>> \o Line, j, EmptyString)
      <4>1. \A j \in 1..3 : slots[j] = IF LineStart < j /\ j <= LineStart + Len(Line)
                                       THEN Line[j - LineStart] ELSE EmptyString
        BY <1>1 DEF LineSlots
      <4>2. slots \in [1..3 -> STRING \cup {EmptyString}]
        BY <1>1, LenProperties DEF IInv
      <4>. QED  BY <1>1, <2>3, <4>1, <4>2, SlotsAsReference DEF LineStart
    <3>2. (IF FhirAddress.district \in {None, EmptyString}
           THEN EmptyString ELSE FhirAddress.district)
          = IF FhirAddress.district = None THEN EmptyString
            ELSE FhirAddress.district
      BY <1>2, PoolsAssumption
    <3>. QED  BY <1>2, <3>1, <3>2 DEF ReferenceAddress
  <2>6. segment = ReferenceSegment(patient)
    BY <1>1, <2>2, <2>5 DEF ReferenceSegment, FhirName, FhirAddress
  <2>7. ~Fails(outcome') /\ outcome' # Pending
    BY <2>1 DEF Ok, Fails, Pending
  <2>. QED  BY <1>1, <2>1, <2>4, <2>6, <2>7
            DEF IInv, AcceptsExactlyAdaptable, AdaptedAsReference, Ok
<1>. QED  BY <1>3, <1>4, <1>5, <1>6

\* A stuttering step leaves every variable, hence the invariant, unchanged.
LEMMA StutterIInv == IInv /\ UNCHANGED vars => IInv'
BY DEF IInv, vars, Given, Line, LineStart, FhirName, FhirAddress, GivenSlots,
       LineSlots, AcceptsExactlyAdaptable, AdaptedAsReference

-----------------------------------------------------------------------------
(* Theorems.                                                              *)

\* The loop invariants and the result invariant hold in every state.
THEOREM IInvHolds == Spec => []IInv
<1>1. Init => IInv
  BY InitIInv
<1>2. IInv /\ [Next]_vars => IInv'
  BY EnterNameIInv, GivenStepIInv, BuildNameIInv, EnterAddressIInv,
     LineStepIInv, BuildSegmentIInv, StutterIInv DEF Next
<1>. QED  BY <1>1, <1>2, PTL DEF Spec

\* create_message_segment_patient_detail raises exactly for the patients
\* outside the three-slot layouts of its loops (or missing a field), for
\* every pool of given names and address lines.
THEOREM AcceptsExactlyAdaptableHolds == Spec => []AcceptsExactlyAdaptable
<1>1. IInv => AcceptsExactlyAdaptable
  BY DEF IInv, AcceptsExactlyAdaptable
<1>. QED  BY <1>1, IInvHolds, PTL

\* Whenever the adaptor returns a segment, every given name and address
\* line is in the slot the reference layout gives it.
THEOREM AdaptedAsReferenceHolds == Spec => []AdaptedAsReference
<1>1. IInv => AdaptedAsReference
  BY DEF IInv, AdaptedAsReference
<1>. QED  BY <1>1, IInvHolds, PTL

=============================================================================
