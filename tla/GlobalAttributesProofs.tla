----------------------- MODULE GlobalAttributesProofs -----------------------
(* The attributes of a global variable read as they were set, for any      *)
(* initializers, sections and alignments.                                  *)
EXTENDS GlobalAttributes, TLAPS

(* Only ofConstant ignores what it is asked for. *)
ReadsAsAsked == "ofConstant" \in Misfits \/ ReadsLastWrite

(* The inductive invariant.  The attributes are of types that fit, so that *)
(* no encoding loses anything of them; and each reads as it was set.       *)
AttributesInv == TypeOK /\ VisibilityFollowsLinkage /\ ReadsAsAsked
-----------------------------------------------------------------------------
(* What the five bits of an alignment hold is decoded to that alignment. *)
LEMMA AlignmentRoundTrip ==
  ASSUME NEW a \in Alignment
  PROVE  EncodeAlign(a) \in 0 .. 30 /\ DecodeAlign(EncodeAlign(a)) = a
<1>1. CASE a = 0
  BY <1>1 DEF EncodeAlign, DecodeAlign
<1>2. CASE a # 0
  <2>1. \E k \in 0 .. 29 : 2 ^ k = a
    BY <1>2, AlignmentAssumption
  <2>2. PICK k \in 0 .. 29 : k = (CHOOSE j \in 0 .. 29 : 2 ^ j = a) /\ 2 ^ k = a
    BY <2>1
  <2>3. EncodeAlign(a) = 1 + k
    BY <1>2, <2>2 DEF EncodeAlign
  <2>4. 1 + k \in 1 .. 30 /\ (1 + k) - 1 = k
    OBVIOUS
  <2>5. EncodeAlign(a) \in 0 .. 30
    BY <2>3, <2>4
  <2>6. DecodeAlign(1 + k) = 2 ^ ((1 + k) - 1)
    BY <2>4 DEF DecodeAlign
  <2>7. 2 ^ ((1 + k) - 1) = a
    BY <2>2, <2>4
  <2>. QED
    BY <2>3, <2>5, <2>6, <2>7
<1>. QED
  BY <1>1, <1>2

LEMMA AlignmentStored ==
  ASSUME NEW a \in Alignment
  PROVE  EncodeAlign(a) \in 0 .. 31 /\ DecodeAlign(EncodeAlign(a)) = a
BY AlignmentRoundTrip

(* The two switches of the address significance undo each other. *)
LEMMA SignificanceRoundTrip ==
  ASSUME NEW x \in AddressSignificance
  PROVE  /\ UnnamedAddr(x) \in {"None", "Local", "Global"}
         /\ SignificanceTag(UnnamedAddr(x)) = x
BY DEF AddressSignificance, UnnamedAddr, SignificanceTag

(* A new variable has attributes that fit. *)
LEMMA NewFits ==
  ASSUME NEW constant \in BOOLEAN, NEW linkage \in Linkage,
         NEW init \in Initializer \cup {NoInit},
         NEW tlm \in ThreadLocalMode, NEW extInit \in BOOLEAN
  PROVE  /\ NewVariable(constant, linkage, init, tlm, extInit) \in Attributes
         /\ Wish(constant, linkage, init, tlm, extInit) \in Wishes
<1>1. NewVariable(constant, linkage, init, tlm, extInit) \in Attributes
  BY SectionAssumption DEF NewVariable, Attributes, Visibility
<1>2. Wish(constant, linkage, init, tlm, extInit) =
        [linkage |-> linkage, visibility |-> 0, dllStorageClass |-> 0,
         threadLocalMode |-> tlm, addressSignificance |-> 0,
         constant |-> constant, externallyInitialized |-> extInit,
         initializer |-> init, section |-> NoSection, alignment |-> 0]
  BY DEF NewVariable, Wish
<1>3. 0 \in Visibility /\ 0 \in DLLStorageClass /\ 0 \in AddressSignificance
      /\ 0 \in Alignment
  BY AlignmentAssumption DEF Visibility, DLLStorageClass, AddressSignificance
<1>4. Wish(constant, linkage, init, tlm, extInit) \in Wishes
  BY <1>2, <1>3, SectionAssumption DEF Wishes
<1>. QED
  BY <1>1, <1>4

(* A new variable reads as it was asked for. *)
ReadsAsNew ==
  \A constant, extInit \in BOOLEAN, linkage \in Linkage,
     init \in Initializer \cup {NoInit}, tlm \in ThreadLocalMode :
    /\ attr = NewVariable(constant, linkage, init, tlm, extInit)
    /\ asked = Wish(constant, linkage, init, tlm, extInit)
    => VisibilityFollowsLinkage /\ ReadsLastWrite

LEMMA NewReads == ReadsAsNew
<1> SUFFICES ASSUME NEW constant \in BOOLEAN, NEW extInit \in BOOLEAN,
                    NEW linkage \in Linkage,
                    NEW init \in Initializer \cup {NoInit},
                    NEW tlm \in ThreadLocalMode,
                    attr = NewVariable(constant, linkage, init, tlm, extInit),
                    asked = Wish(constant, linkage, init, tlm, extInit)
             PROVE  VisibilityFollowsLinkage /\ ReadsLastWrite
  BY DEF ReadsAsNew
<1>1. attr = [linkage |-> linkage, visibility |-> 0, dllStorageClass |-> 0,
              threadLocalMode |-> tlm, addressSignificance |-> "None",
              constant |-> constant, externallyInitialized |-> extInit,
              initializer |-> init, section |-> NoSection, alignment |-> 0]
  BY DEF NewVariable
<1>2. asked = [linkage |-> linkage, visibility |-> 0, dllStorageClass |-> 0,
               threadLocalMode |-> tlm, addressSignificance |-> 0,
               constant |-> constant, externallyInitialized |-> extInit,
               initializer |-> init, section |-> NoSection, alignment |-> 0]
  BY DEF NewVariable, Wish
<1>3. VisibilityFollowsLinkage
  BY <1>1, <1>2 DEF VisibilityFollowsLinkage, GetVisibility
<1>4. GetAddressSignificance = 0 /\ GetRawAlignment = 0
  BY <1>1 DEF GetAddressSignificance, SignificanceTag, GetRawAlignment, DecodeAlign
<1>5. ReadsLastWrite
  BY <1>1, <1>2, <1>4 DEF ReadsLastWrite
<1>. QED
  BY <1>3, <1>5

LEMMA AttributesInit == Init => AttributesInv
<1> SUFFICES ASSUME Init PROVE AttributesInv
  OBVIOUS
<1>1. 0 \in Linkage /\ 0 \in ThreadLocalMode
  BY DEF Linkage, ThreadLocalMode
<1>2. VisibilityFollowsLinkage /\ ReadsLastWrite
  BY <1>1, NewReads DEF Init, ReadsAsNew
<1>3. TypeOK
  BY <1>1, NewFits DEF Init, TypeOK
<1>. QED
  BY <1>2, <1>3 DEF AttributesInv, ReadsAsAsked

(* The constructors. *)
LEMMA CreatePreserves ==
  ASSUME AttributesInv, Create
  PROVE  AttributesInv'
<1>1. PICK linkage \in UsedLinkage, tlm \in ThreadLocalMode,
           constant \in BOOLEAN, init \in Initializer \cup {NoInit} :
        \/ \E extInit \in BOOLEAN : New(constant, linkage, init, tlm, extInit)
        \/ OfConstant(constant, linkage, init, tlm)
        \/ OfString(init)
  BY DEF Create
<1>2. linkage \in Linkage /\ 8 \in Linkage /\ 0 \in ThreadLocalMode
  BY DEF UsedLinkage, Linkage, ThreadLocalMode
<1>3. ASSUME NEW b \in BOOLEAN, NEW l \in Linkage, NEW t \in ThreadLocalMode,
             NEW extInit \in BOOLEAN, made' \in BOOLEAN, crashed' \in BOOLEAN,
             attr' = NewVariable(b, l, init, t, extInit),
             asked' = Wish(b, l, init, t, extInit)
      PROVE  AttributesInv'
  <2>1. VisibilityFollowsLinkage' /\ ReadsLastWrite'
    <3>1. ReadsAsNew'
      BY NewReads, PTL
    <3>. QED
      BY <1>3, <3>1 DEF ReadsAsNew
  <2>2. TypeOK'
    BY <1>3, NewFits DEF TypeOK
  <2>. QED
    BY <2>1, <2>2 DEF AttributesInv, ReadsAsAsked
<1>4. ASSUME NEW extInit \in BOOLEAN, New(constant, linkage, init, tlm, extInit)
      PROVE  AttributesInv'
  BY <1>2, <1>3, <1>4 DEF New, AttributesInv, TypeOK
<1>5. CASE OfConstant(constant, linkage, init, tlm)
  <2>1. CASE constant
    BY <1>2, <1>3, <1>5, <2>1 DEF OfConstant, AttributesInv, TypeOK
  <2>2. CASE "ofConstant" \in Misfits
    <3>1. PICK yes \in BOOLEAN, no \in BOOLEAN : yes = TRUE /\ no = FALSE
      OBVIOUS
    <3>2. /\ attr' = NewVariable(yes, linkage, init, tlm, no)
          /\ asked' = Wish(constant, linkage, init, tlm, no)
      <4>1. /\ attr' = NewVariable(TRUE, linkage, init, tlm, FALSE)
            /\ asked' = Wish(constant, linkage, init, tlm, FALSE)
        BY <1>5 DEF OfConstant
      <4>. QED
        BY <3>1, <4>1, Zenon
    <3>3. attr' \in Attributes /\ asked' \in Wishes
      BY <1>2, <3>2, NewFits
    <3>4. attr'.visibility = 0
      BY <3>2 DEF NewVariable
    <3>5. VisibilityFollowsLinkage'
      BY <3>4 DEF VisibilityFollowsLinkage, GetVisibility
    <3>. QED
      BY <1>5, <2>2, <3>3, <3>5
      DEF OfConstant, AttributesInv, TypeOK, ReadsAsAsked
  <2>. QED
    BY <1>5, <2>1, <2>2 DEF OfConstant
<1>6. CASE OfString(init)
  <2>1. PICK yes \in BOOLEAN, no \in BOOLEAN : yes = TRUE /\ no = FALSE
    OBVIOUS
  <2>2. PICK one \in Alignment, two \in AddressSignificance : one = 1 /\ two = 2
    BY AlignmentAssumption DEF AddressSignificance
  <2>3. EncodeAlign(1) \in 0 .. 31 /\ DecodeAlign(EncodeAlign(1)) = 1
    BY <2>2, AlignmentRoundTrip
  <2>4. PICK v \in Attributes, w \in Wishes : /\ v = NewVariable(yes, 8, init, 0, no)
                                           /\ w = Wish(yes, 8, init, 0, no)
    BY <1>2, NewFits
  <2>5. /\ attr' = [v EXCEPT !.addressSignificance = "Global",
                             !.alignment = EncodeAlign(1)]
        /\ asked' = [w EXCEPT !.addressSignificance = two, !.alignment = one]
    <3>1. UnnamedAddr(2) = "Global"
      BY DEF UnnamedAddr
    <3>2. /\ NewVariable(yes, 8, init, 0, no) = NewVariable(TRUE, 8, init, 0, FALSE)
          /\ Wish(yes, 8, init, 0, no) = Wish(TRUE, 8, init, 0, FALSE)
      BY <2>1, Zenon
    <3>. QED
      BY <1>6, <2>2, <2>4, <3>1, <3>2 DEF OfString
  <2>6. /\ v.linkage = w.linkage /\ v.visibility = 0 /\ w.visibility = 0
        /\ v.constant = w.constant
        /\ v.externallyInitialized = w.externallyInitialized
        /\ v.initializer = w.initializer /\ v.section = w.section
    BY <2>4 DEF NewVariable, Wish
  <2>7. attr' \in Attributes /\ attr'.addressSignificance = "Global"
        /\ attr'.alignment = EncodeAlign(1) /\ attr'.visibility = 0
        /\ attr'.linkage = v.linkage /\ attr'.constant = v.constant
        /\ attr'.externallyInitialized = v.externallyInitialized
        /\ attr'.initializer = v.initializer /\ attr'.section = v.section
    BY <2>3, <2>5, <2>6 DEF Attributes
  <2>8. asked' \in Wishes /\ asked'.addressSignificance = two
        /\ asked'.alignment = one /\ asked'.visibility = 0
        /\ asked'.linkage = w.linkage /\ asked'.constant = w.constant
        /\ asked'.externallyInitialized = w.externallyInitialized
        /\ asked'.initializer = w.initializer /\ asked'.section = w.section
    BY <2>5, <2>6 DEF Wishes
  <2>9. VisibilityFollowsLinkage'
    BY <2>7 DEF VisibilityFollowsLinkage, GetVisibility
  <2>10. ReadsLastWrite'
    <3>1. GetAddressSignificance' = 2 /\ GetRawAlignment' = 1
      BY <2>3, <2>7 DEF GetAddressSignificance, SignificanceTag, GetRawAlignment
    <3>. QED
      BY <2>2, <2>6, <2>7, <2>8, <3>1 DEF ReadsLastWrite
  <2>11. TypeOK'
    BY <1>6, <2>7, <2>8 DEF OfString, AttributesInv, TypeOK
  <2>. QED
    BY <2>9, <2>10, <2>11 DEF AttributesInv, ReadsAsAsked
<1>. QED
  BY <1>1, <1>4, <1>5, <1>6

(* The setters change one attribute, but for setLinkage. *)
LEMMA ChangePreserves ==
  ASSUME AttributesInv, Change
  PROVE  AttributesInv'
<1>1. attr \in Attributes /\ asked \in Wishes /\ made' \in BOOLEAN /\ crashed \in BOOLEAN
      /\ VisibilityFollowsLinkage /\ ReadsAsAsked
  BY DEF AttributesInv, TypeOK, Change
<1>2. ASSUME NEW x \in UsedLinkage, SetLinkage(x) PROVE AttributesInv'
  <2>1. x \in Linkage
    BY DEF UsedLinkage, Linkage
  <2>2. /\ attr' \in Attributes /\ asked' \in Wishes
        /\ attr'.linkage = x /\ asked'.linkage = x
        /\ attr'.visibility = IF x \in LocalLinkage THEN 0 ELSE attr.visibility
        /\ asked'.visibility = asked.visibility
    <3>1. PICK v \in 0 .. 2 : v = IF x \in LocalLinkage THEN 0 ELSE attr.visibility
      BY <1>1 DEF Attributes, Visibility
    <3>2. /\ attr' = [attr EXCEPT !.linkage = x, !.visibility = v]
          /\ asked' = [asked EXCEPT !.linkage = x]
      BY <1>2, <3>1 DEF SetLinkage
    <3>3. attr' \in Attributes /\ attr'.linkage = x /\ attr'.visibility = v
      BY <1>1, <2>1, <3>1, <3>2 DEF Attributes, Visibility
    <3>4. /\ asked' \in Wishes /\ asked'.linkage = x
          /\ asked'.visibility = asked.visibility
      BY <1>1, <2>1, <3>2 DEF Wishes
    <3>. QED
      BY <3>1, <3>3, <3>4
  <2>3. VisibilityFollowsLinkage'
    BY <1>1, <2>2 DEF VisibilityFollowsLinkage, GetVisibility
  <2>4. ReadsAsAsked'
    BY <1>1, <1>2 DEF SetLinkage, Attributes, Wishes,
       ReadsAsAsked, ReadsLastWrite, GetAddressSignificance, GetRawAlignment
  <2>. QED
    BY <1>1, <1>2, <2>2, <2>3, <2>4 DEF AttributesInv, TypeOK, SetLinkage
<1>3. ASSUME NEW x \in Visibility, SetVisibility(x) PROVE AttributesInv'
  <2>1. attr' \in Attributes /\ asked' \in Wishes
    BY <1>1, <1>3 DEF SetVisibility, Attributes, Wishes, Visibility
  <2>2. VisibilityFollowsLinkage'
    BY <1>1, <1>3 DEF SetVisibility, Attributes, Wishes, VisibilityFollowsLinkage,
       GetVisibility
  <2>3. ReadsAsAsked'
    BY <1>1, <1>3 DEF SetVisibility, Attributes, Wishes,
       ReadsAsAsked, ReadsLastWrite, GetAddressSignificance, GetRawAlignment
  <2>. QED
    BY <1>1, <1>3, <2>1, <2>2, <2>3 DEF AttributesInv, TypeOK, SetVisibility
<1>4. ASSUME NEW x \in DLLStorageClass, SetDLLStorageClass(x) PROVE AttributesInv'
  <2>1. attr' \in Attributes /\ asked' \in Wishes
    BY <1>1, <1>4 DEF SetDLLStorageClass, Attributes, Wishes, DLLStorageClass
  <2>2. VisibilityFollowsLinkage'
    BY <1>1, <1>4 DEF SetDLLStorageClass, Attributes, Wishes,
       VisibilityFollowsLinkage, GetVisibility
  <2>3. ReadsAsAsked'
    BY <1>1, <1>4 DEF SetDLLStorageClass, Attributes, Wishes,
       ReadsAsAsked, ReadsLastWrite, GetAddressSignificance, GetRawAlignment
  <2>. QED
    BY <1>1, <1>4, <2>1, <2>2, <2>3 DEF AttributesInv, TypeOK, SetDLLStorageClass
<1>5. ASSUME NEW x \in Section, SetSection(x) PROVE AttributesInv'
  <2>1. attr' \in Attributes /\ asked' \in Wishes
    BY <1>1, <1>5 DEF SetSection, Attributes, Wishes
  <2>2. VisibilityFollowsLinkage'
    BY <1>1, <1>5 DEF SetSection, Attributes, Wishes,
       VisibilityFollowsLinkage, GetVisibility
  <2>3. ReadsAsAsked'
    BY <1>1, <1>5 DEF SetSection, Attributes, Wishes,
       ReadsAsAsked, ReadsLastWrite, GetAddressSignificance, GetRawAlignment
  <2>. QED
    BY <1>1, <1>5, <2>1, <2>2, <2>3 DEF AttributesInv, TypeOK, SetSection
<1>6. ASSUME NEW x \in BOOLEAN, SetConstant(x) PROVE AttributesInv'
  <2>1. attr' \in Attributes /\ asked' \in Wishes
    BY <1>1, <1>6 DEF SetConstant, Attributes, Wishes
  <2>2. VisibilityFollowsLinkage'
    BY <1>1, <1>6 DEF SetConstant, Attributes, Wishes,
       VisibilityFollowsLinkage, GetVisibility
  <2>3. ReadsAsAsked'
    BY <1>1, <1>6 DEF SetConstant, Attributes, Wishes,
       ReadsAsAsked, ReadsLastWrite, GetAddressSignificance, GetRawAlignment
  <2>. QED
    BY <1>1, <1>6, <2>1, <2>2, <2>3 DEF AttributesInv, TypeOK, SetConstant
<1>7. ASSUME NEW x \in BOOLEAN, SetExternallyInitialized(x) PROVE AttributesInv'
  <2>1. attr' \in Attributes /\ asked' \in Wishes
    BY <1>1, <1>7 DEF SetExternallyInitialized, Attributes, Wishes
  <2>2. VisibilityFollowsLinkage'
    BY <1>1, <1>7 DEF SetExternallyInitialized, Attributes, Wishes,
       VisibilityFollowsLinkage, GetVisibility
  <2>3. ReadsAsAsked'
    BY <1>1, <1>7 DEF SetExternallyInitialized, Attributes, Wishes,
       ReadsAsAsked, ReadsLastWrite, GetAddressSignificance, GetRawAlignment
  <2>. QED
    BY <1>1, <1>7, <2>1, <2>2, <2>3 DEF AttributesInv, TypeOK, SetExternallyInitialized
<1>8. ASSUME NEW x \in Initializer, SetInitializer(x) PROVE AttributesInv'
  <2>1. attr' \in Attributes /\ asked' \in Wishes
    BY <1>1, <1>8 DEF SetInitializer, Attributes, Wishes
  <2>2. VisibilityFollowsLinkage'
    BY <1>1, <1>8 DEF SetInitializer, Attributes, Wishes,
       VisibilityFollowsLinkage, GetVisibility
  <2>3. ReadsAsAsked'
    BY <1>1, <1>8 DEF SetInitializer, Attributes, Wishes,
       ReadsAsAsked, ReadsLastWrite, GetAddressSignificance, GetRawAlignment
  <2>. QED
    BY <1>1, <1>8, <2>1, <2>2, <2>3 DEF AttributesInv, TypeOK, SetInitializer
<1>9. ASSUME NEW x \in ThreadLocalMode, SetThreadLocalMode(x) PROVE AttributesInv'
  <2>1. attr' \in Attributes /\ asked' \in Wishes
    <3>1. PICK y \in 0 .. 3 : y = x % 4
      BY DEF ThreadLocalMode
    <3>2. attr' = [attr EXCEPT !.dllStorageClass = y]
      BY <1>9, <3>1 DEF SetThreadLocalMode
    <3>3. attr' \in Attributes
      BY <1>1, <3>2 DEF Attributes
    <3>4. asked' \in Wishes
      BY <1>1, <1>9 DEF SetThreadLocalMode, Wishes
    <3>. QED
      BY <3>3, <3>4
  <2>2. VisibilityFollowsLinkage'
    BY <1>1, <1>9 DEF SetThreadLocalMode, Attributes, Wishes,
       VisibilityFollowsLinkage, GetVisibility
  <2>3. ReadsAsAsked'
    BY <1>1, <1>9 DEF SetThreadLocalMode, Attributes, Wishes,
       ReadsAsAsked, ReadsLastWrite, GetAddressSignificance, GetRawAlignment
  <2>. QED
    BY <1>1, <1>9, <2>1, <2>2, <2>3 DEF AttributesInv, TypeOK, SetThreadLocalMode
<1>10. ASSUME NEW x \in AddressSignificance, SetAddressSignificance(x) PROVE AttributesInv'
  <2>1. attr' \in Attributes /\ asked' \in Wishes
    BY <1>1, <1>10, SignificanceRoundTrip
    DEF SetAddressSignificance, Attributes, Wishes
  <2>2. VisibilityFollowsLinkage'
    BY <1>1, <1>10 DEF SetAddressSignificance, Attributes, Wishes,
       VisibilityFollowsLinkage, GetVisibility
  <2>3. ReadsAsAsked'
    BY <1>1, <1>10, SignificanceRoundTrip
    DEF SetAddressSignificance, Attributes, Wishes,
       ReadsAsAsked, ReadsLastWrite, GetAddressSignificance, GetRawAlignment
  <2>. QED
    BY <1>1, <1>10, <2>1, <2>2, <2>3 DEF AttributesInv, TypeOK, SetAddressSignificance
<1>11. ASSUME NEW x \in Alignment, SetRawAlignment(x) PROVE AttributesInv'
  <2>1. attr' \in Attributes /\ asked' \in Wishes
    BY <1>1, <1>11, AlignmentStored
    DEF SetRawAlignment, Attributes, Wishes
  <2>2. VisibilityFollowsLinkage'
    BY <1>1, <1>11 DEF SetRawAlignment, Attributes, Wishes,
       VisibilityFollowsLinkage, GetVisibility
  <2>3. ReadsAsAsked'
    BY <1>1, <1>11, AlignmentStored
    DEF SetRawAlignment, Attributes, Wishes,
       ReadsAsAsked, ReadsLastWrite, GetAddressSignificance, GetRawAlignment
  <2>. QED
    BY <1>1, <1>11, <2>1, <2>2, <2>3 DEF AttributesInv, TypeOK, SetRawAlignment
<1>12. CASE RemoveInitializer
  <2>1. attr' = attr /\ crashed' = TRUE /\ asked' \in Wishes
    BY <1>1, <1>12 DEF RemoveInitializer, Wishes
  <2>2. VisibilityFollowsLinkage'
    BY <1>1, <1>12 DEF RemoveInitializer, Wishes,
       VisibilityFollowsLinkage, GetVisibility
  <2>3. ReadsAsAsked'
    BY <1>1, <1>12 DEF RemoveInitializer, Wishes,
       ReadsAsAsked, ReadsLastWrite, GetAddressSignificance, GetRawAlignment
  <2>. QED
    BY <1>1, <2>1, <2>2, <2>3 DEF AttributesInv, TypeOK
<1>. QED
  BY <1>2, <1>3, <1>4, <1>5, <1>6, <1>7, <1>8, <1>9, <1>10, <1>11, <1>12 DEF Change

THEOREM AttributesInvariance == Spec => []AttributesInv
<1>1. AttributesInv /\ [Next]_vars => AttributesInv'
  <2>. SUFFICES ASSUME AttributesInv, [Next]_vars PROVE AttributesInv'
    OBVIOUS
  <2>1. CASE UNCHANGED vars
    BY <2>1 DEF vars, AttributesInv, TypeOK, VisibilityFollowsLinkage, GetVisibility,
       ReadsAsAsked, ReadsLastWrite, GetAddressSignificance, GetRawAlignment
  <2>. QED
    BY <2>1, CreatePreserves, ChangePreserves DEF Next
<1>. QED
  BY AttributesInit, <1>1, PTL DEF Spec
-----------------------------------------------------------------------------
(* What LLVM stores fits the fields it has (global.cpp:29-182). *)
THEOREM TypeCorrect == Spec => []TypeOK
<1>1. AttributesInv => TypeOK
  BY DEF AttributesInv
<1>. QED
  BY <1>1, AttributesInvariance, PTL

(* An attribute reads as what was last asked for, whatever was set in      *)
(* between (global.cpp:29-182, global_variable.cpp:41-103).                *)
THEOREM AttributesRead ==
  ASSUME "ofConstant" \notin Misfits
  PROVE  Spec => []ReadsLastWrite
<1>1. AttributesInv => ReadsLastWrite
  BY DEF AttributesInv, ReadsAsAsked
<1>. QED
  BY <1>1, AttributesInvariance, PTL

(* A local global has default visibility, any other the one asked for      *)
(* (global.cpp:34-55).                                                     *)
THEOREM VisibilityFollows == Spec => []VisibilityFollowsLinkage
<1>1. AttributesInv => VisibilityFollowsLinkage
  BY DEF AttributesInv
<1>. QED
  BY <1>1, AttributesInvariance, PTL
=============================================================================
