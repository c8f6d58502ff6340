---------------------------- MODULE MessageAdaptor ----------------------------
(***************************************************************************)
(* MessageAdaptor (nhais-adaptor, adaptor/outgoing/message.py): turns the  *)
(* FHIR Patient of an outgoing NHAIS message into the EDIFACT patient      *)
(* details segment.  The model runs one call on every patient built from  *)
(* small pools, one action per iteration of its two for loops, and keeps  *)
(* the Python semantics that decide the outcome: 0-based indexing that    *)
(* raises IndexError past the end, TypeError on an absent (None) list,    *)
(* KeyError on a missing dict key, AttributeError on a method of None,    *)
(* and the order in which the arguments are evaluated.                    *)
(*                                                                         *)
(* The result is compared with a declarative reference: which patients    *)
(* are accepted, and where each given name and address line lands.        *)
(***************************************************************************)
EXTENDS Integers, Sequences

CONSTANTS
  GivenPool,    \* distinct given names; inputs use its prefixes
  LinePool,     \* distinct address lines; inputs use its prefixes
  Family, City, District, PostCode, Prefix, NhsNumber, BirthDate,
  None          \* Python's None: a value distinct from every other

\* Python's empty string '', which is falsy.
EmptyString == ""

\* The fields are strings; District is non-empty (an empty one is falsy
\* and maps to '').
ASSUME PoolsAssumption ==
  /\ GivenPool \in Seq(STRING) /\ LinePool \in Seq(STRING)
  /\ Len(GivenPool) >= 4 /\ Len(LinePool) >= 4
  /\ {Family, City, PostCode, Prefix, NhsNumber, BirthDate} \subseteq STRING
  /\ District \in STRING \ {EmptyString}

VARIABLES
  patient,      \* the fhir_patient handed to the adaptor
  pc,           \* where create_message_segment_patient_detail is
  slots,        \* given_names, then address_lines: the 3-element list filled
  counter,      \* counter of create_patient_address
  index,        \* how many items the running for loop has consumed
  ediName,      \* edi_name, once create_patient_name has returned
  outcome       \* what create_message_segment_patient_detail returned or raised

vars == <<patient, pc, slots, counter, index, ediName, outcome>>

-----------------------------------------------------------------------------
(* Python values: a call either returns a value or raises an exception of *)
(* a named class.                                                          *)
Ok(v) == [raised |-> "none", value |-> v]
Error(t) == [raised |-> t, value |-> None]
Fails(r) == r.raised # "none"
Pending == [raised |-> "pending", value |-> None]

\* list[i] for a 0-based index i of a list that may be None
PyIndex(list, i) ==
  IF list = None THEN Error("TypeError")
  ELSE IF i < Len(list) THEN Ok(list[i + 1])
  ELSE Error("IndexError")

\* gender_map = {'unknown': 0, 'male': 1, 'female': 2, 'other': 9}
GenderMap == [unknown |-> 0, male |-> 1, female |-> 2, other |-> 9]

\* The entries the adaptor reads: fhir_patient.name[0] and .address[0].
FhirName == patient.name[1]
FhirAddress == patient.address[1]

\* The call ends with r: the segment returned or the exception raised.
Exit(r) == outcome' = r /\ pc' = "done"

-----------------------------------------------------------------------------
(* create_patient_name.  Evaluating fhir_patient.name[0] may raise; then  *)
(* given_names = [None, None, None] and the loop starts (iterating None   *)
(* raises TypeError).                                                     *)
EnterName ==
  /\ pc = "name"
  /\ LET name0 == PyIndex(patient.name, 0) IN
     \/ Fails(name0) /\ Exit(name0) /\ UNCHANGED <<slots, index>>
     \/ ~Fails(name0) /\ name0.value.given = None
        /\ Exit(Error("TypeError")) /\ UNCHANGED <<slots, index>>
     \/ ~Fails(name0) /\ name0.value.given # None
        /\ pc' = "givenLoop" /\ slots' = <<None, None, None>> /\ index' = 0
        /\ UNCHANGED outcome
  /\ UNCHANGED <<patient, counter, ediName>>

\* One iteration of: for index, given_name in enumerate(given):
\*                       given_names[index] = given_name
GivenStep ==
  /\ pc = "givenLoop"
  /\ index < Len(FhirName.given)
  /\ \/ index < Len(slots)
        /\ slots' = [slots EXCEPT ![index + 1] = FhirName.given[index + 1]]
        /\ index' = index + 1
        /\ UNCHANGED <<pc, outcome>>
     \/ index >= Len(slots) /\ Exit(Error("IndexError"))
        /\ UNCHANGED <<slots, index>>
  /\ UNCHANGED <<patient, counter, ediName>>

(* The loop is over: Name(title=prefix[0], family_name=family,            *)
(* first_given_forename=given[0], middle_name=given_names[1],             *)
(* third_given_forename=given_names[2]), arguments evaluated left to     *)
(* right.                                                                  *)
BuildName ==
  /\ pc = "givenLoop"
  /\ index = Len(FhirName.given)
  /\ LET title == PyIndex(FhirName.prefix, 0)
         first == PyIndex(FhirName.given, 0)
     IN \/ Fails(title) /\ Exit(title) /\ UNCHANGED ediName
        \/ ~Fails(title) /\ Fails(first) /\ Exit(first) /\ UNCHANGED ediName
        \/ ~Fails(title) /\ ~Fails(first) /\ pc' = "address"
           /\ ediName' = [title |-> title.value,
                          family_name |-> FhirName.family,
                          first_given_forename |-> first.value,
                          middle_name |-> slots[2],
                          third_given_forename |-> slots[3]]
           /\ UNCHANGED outcome
  /\ UNCHANGED <<patient, slots, counter, index>>

-----------------------------------------------------------------------------
(* create_patient_address.  fhir_patient.address[0] may raise; then       *)
(* address_lines = ["", "", ""], and len(line) (TypeError on None) sets   *)
(* the counter to 0 for exactly three lines and to 1 otherwise.           *)
\* Faulty variant: the counter always starts at 1 (no three-line case).
EnterAddressCounterOne ==
  /\ pc = "address"
  /\ LET address0 == PyIndex(patient.address, 0) IN
     \/ Fails(address0) /\ Exit(address0) /\ UNCHANGED <<slots, counter, index>>
     \/ ~Fails(address0) /\ address0.value.line = None
        /\ Exit(Error("TypeError")) /\ UNCHANGED <<slots, counter, index>>
     \/ ~Fails(address0) /\ address0.value.line # None
        /\ pc' = "lineLoop" /\ index' = 0
        /\ slots' = <<EmptyString, EmptyString, EmptyString>>
        /\ counter' = 1
        /\ UNCHANGED outcome
  /\ UNCHANGED <<patient, ediName>>

EnterAddress ==
  /\ pc = "address"
  /\ LET address0 == PyIndex(patient.address, 0) IN
     \/ Fails(address0) /\ Exit(address0) /\ UNCHANGED <<slots, counter, index>>
     \/ ~Fails(address0) /\ address0.value.line = None
        /\ Exit(Error("TypeError")) /\ UNCHANGED <<slots, counter, index>>
     \/ ~Fails(address0) /\ address0.value.line # None
        /\ pc' = "lineLoop" /\ index' = 0
        /\ slots' = <<EmptyString, EmptyString, EmptyString>>
        /\ counter' = (IF Len(address0.value.line) = 3 THEN 0 ELSE 1)
        /\ UNCHANGED outcome
  /\ UNCHANGED <<patient, ediName>>

\* Faulty variant: the counter += 1 of the loop dropped.
LineStepNoIncrement ==
  /\ pc = "lineLoop"
  /\ index < Len(FhirAddress.line)
  /\ \/ counter < Len(slots)
        /\ slots' = [slots EXCEPT ![counter + 1] = FhirAddress.line[index + 1]]
        /\ index' = index + 1
        /\ UNCHANGED <<pc, counter, outcome>>
     \/ counter >= Len(slots) /\ Exit(Error("IndexError"))
        /\ UNCHANGED <<slots, counter, index>>
  /\ UNCHANGED <<patient, ediName>>

\* One iteration of: for line in line:
\*                       address_lines[counter] = line; counter += 1
LineStep ==
  /\ pc = "lineLoop"
  /\ index < Len(FhirAddress.line)
  /\ \/ counter < Len(slots)
        /\ slots' = [slots EXCEPT ![counter + 1] = FhirAddress.line[index + 1]]
        /\ counter' = counter + 1
        /\ index' = index + 1
        /\ UNCHANGED <<pc, outcome>>
     \/ counter >= Len(slots) /\ Exit(Error("IndexError"))
        /\ UNCHANGED <<slots, counter, index>>
  /\ UNCHANGED <<patient, ediName>>

(* The loop is over: Address(...) with county = district if district else *)
(* "", then MessageSegmentPatientDetails(id_number=identifier[0].value,   *)
(* name, date_of_birth=birthDate.as_json(), gender=gender_map[gender],    *)
(* address), arguments evaluated in that order.                           *)
BuildSegment ==
  /\ pc = "lineLoop"
  /\ index = Len(FhirAddress.line)
  /\ LET address == [house_name |-> slots[1], address_line_1 |-> slots[2],
                     address_line_2 |-> slots[3], town |-> FhirAddress.city,
                     county |-> IF FhirAddress.district \in {None, EmptyString}
                                THEN EmptyString ELSE FhirAddress.district,
                     post_code |-> FhirAddress.postalCode]
         ident == PyIndex(patient.identifier, 0)
     IN \/ Fails(ident) /\ Exit(ident)
        \/ ~Fails(ident) /\ patient.birthDate = None
           /\ Exit(Error("AttributeError"))
        \/ ~Fails(ident) /\ patient.birthDate # None
           /\ patient.gender \notin DOMAIN GenderMap /\ Exit(Error("KeyError"))
        \/ ~Fails(ident) /\ patient.birthDate # None
           /\ patient.gender \in DOMAIN GenderMap
           /\ Exit(Ok([id_number |-> ident.value, name |-> ediName,
                        date_of_birth |-> patient.birthDate,
                        gender |-> GenderMap[patient.gender],
                        address |-> address]))
  /\ UNCHANGED <<patient, slots, counter, index, ediName>>

-----------------------------------------------------------------------------
(* The patients the adaptor can be handed: every list field of a fhirclient *)
(* model is None when absent.  One entry is enough for name, address and  *)
(* identifier (only [0] is read).                                          *)
OptList(S) == {None, <<>>} \cup {<<x>> : x \in S}
OptSeqs(pool) == {None} \cup {SubSeq(pool, 1, k) : k \in 0..Len(pool)}

HumanNames == [given : OptSeqs(GivenPool), prefix : {None, <<>>, <<Prefix>>},
               family : {Family}]
Addresses == [line : OptSeqs(LinePool), city : {City},
              district : {None, District}, postalCode : {PostCode}]
Patients == [name : OptList(HumanNames), address : OptList(Addresses),
             identifier : OptList({NhsNumber}), birthDate : {None, BirthDate},
             gender : DOMAIN GenderMap \cup {None}]

\* None is none of the strings, gender keys, lists and records a field can
\* hold.
ASSUME NoneAssumption ==
  None \notin STRING \cup DOMAIN GenderMap \cup Seq(STRING) \cup Seq(HumanNames)
                \cup Seq(Addresses)

Init ==
  /\ patient \in Patients
  /\ pc = "name"
  /\ slots = <<>>
  /\ counter = 0
  /\ index = 0
  /\ ediName = None
  /\ outcome = Pending

Next ==
  \/ EnterName \/ GivenStep \/ BuildName
  \/ EnterAddress \/ LineStep \/ BuildSegment

Spec == Init /\ [][Next]_vars

-----------------------------------------------------------------------------
(* Reference.  What the EDIFACT segment should hold, stated directly: the *)
(* patients that can be adapted, the given names in order in the three    *)
(* name slots, and the address lines in order with the house name used    *)
(* only for a three-line address.                                         *)
Present(list) == list \notin {None, <<>>}

Adaptable(p) ==
  /\ Present(p.name) /\ Present(p.address) /\ Present(p.identifier)
  /\ Present(p.name[1].prefix)
  /\ Present(p.name[1].given) /\ Len(p.name[1].given) <= 3
  /\ p.address[1].line # None /\ Len(p.address[1].line) <= 3
  /\ p.birthDate # None /\ p.gender # None

\* the i-th element of s, or d past its end
ElemOr(s, i, d) == IF i <= Len(s) THEN s[i] ELSE d

ReferenceName(n) ==
  [title |-> n.prefix[1], family_name |-> n.family,
   first_given_forename |-> n.given[1],
   middle_name |-> ElemOr(n.given, 2, None),
   third_given_forename |-> ElemOr(n.given, 3, None)]

ReferenceAddress(a) ==
  LET lines == IF Len(a.line) = 3 THEN a.line ELSE <<EmptyString>> \o a.line
  IN [house_name |-> ElemOr(lines, 1, EmptyString),
      address_line_1 |-> ElemOr(lines, 2, EmptyString),
      address_line_2 |-> ElemOr(lines, 3, EmptyString),
      town |-> a.city,
      county |-> IF a.district = None THEN EmptyString ELSE a.district,
      post_code |-> a.postalCode]

ReferenceSegment(p) ==
  [id_number |-> p.identifier[1], name |-> ReferenceName(p.name[1]),
   date_of_birth |-> p.birthDate, gender |-> GenderMap[p.gender],
   address |-> ReferenceAddress(p.address[1])]

-----------------------------------------------------------------------------
(* Properties.                                                             *)

\* create_message_segment_patient_detail raises exactly for the patients
\* the segment cannot be built from: the slot loops of create_patient_name
\* and create_patient_address accept up to three given names and up to
\* three address lines (the counter start of the address loop included),
\* and every other absent field raises.
AcceptsExactlyAdaptable ==
  outcome # Pending => (Fails(outcome) <=> ~Adaptable(patient))

\* Whenever the segment is built, it equals the reference: each given name
\* and each address line lands in its slot, in order, none lost or
\* duplicated by the loops' shared counter.
AdaptedAsReference ==
  (outcome # Pending /\ ~Fails(outcome))
    => outcome.value = ReferenceSegment(patient)

=============================================================================
