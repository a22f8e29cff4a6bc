--------------------------------- MODULE Authn ---------------------------------
(***************************************************************************)
(* From an authenticated principal to the subject of a request:            *)
(* authn/authn.go.  A claim is a record of its Go type, its number or      *)
(* text, its elements (0 the empty string, -1 one that is no string) and   *)
(* its form: json.Number texts are integers, fractions, not finite or not  *)
(* numbers at all.                                                         *)
(***************************************************************************)
EXTENDS Attribute, EarlyReturn

CONSTANT MaxInt64   \* the largest int64

ASSUME MaxInt64Assumption == MaxInt64 \in Nat

(* The Go conversion int64(n): the low bits of n.                          *)
ToInt64(n) == ((n + MaxInt64 + 1) % (2 * MaxInt64 + 2)) - MaxInt64 - 1

Converted(value) == [err |-> "none", value |-> value]
NotConverted(err) == [err |-> err, value |-> NullValue]

FloatValue(claim) ==
    IF claim.form = "nonfinite" THEN NotConverted("ErrInvalidFloat")
    ELSE Converted(Value("Float", claim.value))

(* Variant with a mistake: a large number wraps around.                    *)
UnsignedValueWrapping(claim) == Converted(Value("Int", ToInt64(claim.value)))

UnsignedValue(claim) ==
    IF claim.value > MaxInt64 THEN NotConverted("ErrUnsupportedClaim")
    ELSE Converted(Value("Int", ToInt64(claim.value)))

(* ParseInt, then ParseFloat.                                              *)
NumberValue(claim) ==
    IF claim.form = "integer" /\ claim.value \in (-MaxInt64 - 1)..MaxInt64
    THEN Converted(Value("Int", claim.value))
    ELSE IF claim.form = "malformed" THEN NotConverted("ErrUnsupportedClaim")
    ELSE FloatValue(claim)

StringCollection(claim) ==
    claim.type \in {"[]string", "[]any"} /\ -1 \notin ToSet(claim.elements)

(* The integer types no wider than int64 are "int64" here, uint "uint64".  *)
ClaimValue(claim) ==
    CASE claim.type = "nil" -> Converted(NullValue)
      [] claim.type = "string" -> Converted(Value("String", claim.value))
      [] claim.type = "bool" -> Converted(Value("Bool", claim.value))
      [] claim.type = "int64" -> Converted(Value("Int", claim.value))
      [] claim.type = "uint64" -> UnsignedValue(claim)
      [] claim.type = "float64" -> FloatValue(claim)
      [] claim.type = "Number" -> NumberValue(claim)
      [] claim.type = "Time" -> Converted(Value("Time", claim.value))
      [] claim.type = "Addr" -> Converted(Value("IP", claim.value))
      [] StringCollection(claim) -> Converted(StringSetValue(claim.elements))
      [] OTHER -> NotConverted("ErrUnsupportedClaim")

-----------------------------------------------------------------------------
(* Subject                                                                 *)

MaxGroups(config) == IF config.maxGroups = 0 THEN 100 ELSE config.maxGroups

(* The checks before Claims is called.                                     *)
PrincipalError(principal, config) ==
    FirstError(<<
        <<principal.kind = "nil", "ErrNilPrincipal">>,
        <<principal.kind = "anonymous", "ErrAnonymousPrincipal">>,
        <<principal.subject = 0, "ErrInvalidPrincipal">>,
        <<config.kind = "" \/ config.maxGroups < 0, "ErrInvalidConfig">>,
        <<\E a \in DOMAIN config.attributeClaims : a = 0 \/ config.attributeClaims[a] = 0,
          "ErrInvalidConfig">> >>)

(* What the loop over AttributeClaims finds at one attribute.              *)
AttributeError(principal, config, attribute) ==
    LET claim == config.attributeClaims[attribute] IN
    IF claim \notin DOMAIN principal.claims THEN "ErrMissingClaim"
    ELSE ClaimValue(principal.claims[claim]).err

GroupsError(principal, config) ==
    IF config.groupsClaim = 0 THEN "none"
    ELSE IF config.groupsClaim \notin DOMAIN principal.claims THEN "ErrMissingClaim"
    ELSE LET claim == principal.claims[config.groupsClaim] IN
         FirstError(<< <<~StringCollection(claim), "ErrInvalidGroups">>,
                       <<Len(claim.elements) > MaxGroups(config), "ErrGroupLimitExceeded">>,
                       <<Contains(claim.elements, 0), "ErrInvalidGroups">> >>)

(* The errors Subject may return: the map of attributes is visited in any  *)
(* order, so any failing attribute may be the first.                       *)
SubjectErrors(principal, config) ==
    LET attributeErrors == {AttributeError(principal, config, a) :
                               a \in DOMAIN config.attributeClaims} \ {"none"} IN
    IF PrincipalError(principal, config) # "none" THEN {PrincipalError(principal, config)}
    ELSE IF attributeErrors # {} THEN attributeErrors
    ELSE {GroupsError(principal, config)}

MappedSubject(principal, config) ==
    [kind |-> config.kind, id |-> principal.subject,
     groups |-> IF config.groupsClaim = 0 THEN <<>>
                ELSE principal.claims[config.groupsClaim].elements,
     attributes |-> [a \in DOMAIN config.attributeClaims |->
                        ClaimValue(principal.claims[config.attributeClaims[a]]).value]]

=============================================================================
