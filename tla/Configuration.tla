--------------------------- MODULE Configuration ---------------------------
(***************************************************************************)
(* The configuration of the data plane, data-plane/src/configuration.rs:   *)
(* the two host names a build is compiled with, and the two lists read     *)
(* from the environment of the process, EGRESS_PORTS and                   *)
(* EGRESS_ALLOW_LIST.                                                      *)
(*                                                                         *)
(* A string is a sequence of characters.  std::env::var, str::split and    *)
(* str::parse::<u16> are modelled by what the standard library does.       *)
(***************************************************************************)
EXTENDS Naturals, Sequences, SequencesExt

CONSTANTS
    PortValues,   \* values EGRESS_PORTS can have: strings
    NameValues,   \* values EGRESS_ALLOW_LIST can have: strings
    Unset,        \* the environment does not hold the variable
    NotUnicode,   \* the variable holds bytes that are no UTF-8
    Builds        \* the values of the build feature "enclave" to check

VARIABLES
    enclave,            \* whether the process was built with "enclave"
    env,                \* the environment: a value for each variable
    egress_ports,       \* what get_egress_ports returned, if it was called
    egress_allow_list   \* what get_egress_allow_list returned

vars == <<enclave, env, egress_ports, egress_allow_list>>

MaxU16 == 2^16 - 1
Digits == <<"0", "1", "2", "3", "4", "5", "6", "7", "8", "9">>
ToDigit(ch) == CHOOSE d \in 0..9 : Digits[d + 1] = ch
IsDigit(ch) == \E d \in 0..9 : Digits[d + 1] = ch

NotRead  == [tag |-> "NotRead", value |-> <<>>]
Panicked == [tag |-> "Panicked", value |-> <<>>]
Ok(v)    == [tag |-> "Ok", value |-> v]

-----------------------------------------------------------------------------
(* The host names *)

get_cert_provisioner_host ==
    IF enclave THEN "provisioner.cages.internal" ELSE "localhost"

get_e3_host == IF enclave THEN "e3.cages-e3.internal" ELSE "localhost"

-----------------------------------------------------------------------------
(* The standard library *)

\* std::env::var(name).unwrap_or(default): a variable that is missing, or
\* that is no UTF-8, gives the default.
VarOr(name, default) ==
    IF env[name] \in {Unset, NotUnicode} THEN default ELSE env[name]

\* str::split(sep): the fields between the separators, the empty ones
\* included; a string without separator is one field, empty or not.
RECURSIVE Split(_, _)
Split(str, sep) ==
    LET i == SelectInSeq(str, LAMBDA ch : ch = sep)
    IN  IF i = 0 THEN <<str>>
        ELSE <<SubSeq(str, 1, i - 1)>> \o Split(SubSeq(str, i + 1, Len(str)), sep)

\* One digit more, with the arithmetic of the faulty variants: wrapping at
\* the width of u16, and of no width at all.
PushWrapping(acc, ch) == [acc EXCEPT !.n = (10 * @ + ToDigit(ch)) % (MaxU16 + 1)]
PushUnbounded(acc, ch) == [acc EXCEPT !.n = 10 * @ + ToDigit(ch)]

\* One digit more, with checked_mul and checked_add: beyond u16 the parse
\* has failed, and stays failed.
Push(acc, ch) ==
    IF acc.ok /\ 10 * acc.n + ToDigit(ch) <= MaxU16
    THEN [acc EXCEPT !.n = 10 * @ + ToDigit(ch)]
    ELSE [ok |-> FALSE, n |-> 0]

\* The digits of a token: one leading "+" is allowed and dropped.
DigitsOf(token) ==
    IF token # <<>> /\ Head(token) = "+" THEN Tail(token) ELSE token

\* str::parse::<u16>: the digits are folded from the left; the empty
\* string, a lone sign and any other character are errors.
ParseU16(token) ==
    IF DigitsOf(token) = <<>> \/ \E i \in DOMAIN DigitsOf(token) :
                                    ~IsDigit(DigitsOf(token)[i])
    THEN [ok |-> FALSE, n |-> 0]
    ELSE FoldLeft(Push, [ok |-> TRUE, n |-> 0], DigitsOf(token))

-----------------------------------------------------------------------------
(* get_egress_ports and get_egress_allow_list *)

\* The variable, or "443"; split at the commas; every field parsed, with a
\* panic on the first that is no u16; the numbers collected in order.
GetEgressPorts ==
    /\ egress_ports = NotRead
    /\ LET fields == Split(VarOr("EGRESS_PORTS", <<"4", "4", "3">>), ",")
           ports  == [i \in DOMAIN fields |-> ParseU16(fields[i])]
       IN  egress_ports' = IF \E i \in DOMAIN ports : ~ports[i].ok
                           THEN Panicked
                           ELSE Ok([i \in DOMAIN ports |-> ports[i].n])
    /\ UNCHANGED <<enclave, env, egress_allow_list>>

\* Faulty variant: the spaces of a name are stripped.
GetEgressAllowListTrimmed ==
    /\ egress_allow_list = NotRead
    /\ egress_allow_list' =
           Ok([i \in DOMAIN Split(VarOr("EGRESS_ALLOW_LIST", <<>>), ",") |->
                 SelectSeq(Split(VarOr("EGRESS_ALLOW_LIST", <<>>), ",")[i],
                           LAMBDA ch : ch # " ")])
    /\ UNCHANGED <<enclave, env, egress_ports>>

\* The variable, or the empty string; split at the commas; every field is
\* a name as it stands.
GetEgressAllowList ==
    /\ egress_allow_list = NotRead
    /\ egress_allow_list' = Ok(Split(VarOr("EGRESS_ALLOW_LIST", <<>>), ","))
    /\ UNCHANGED <<enclave, env, egress_ports>>

-----------------------------------------------------------------------------
Init ==
    /\ enclave \in Builds
    /\ env \in [EGRESS_PORTS : PortValues \cup {Unset, NotUnicode},
                EGRESS_ALLOW_LIST : NameValues \cup {Unset, NotUnicode}]
    /\ egress_ports = NotRead
    /\ egress_allow_list = NotRead

Next == GetEgressPorts \/ GetEgressAllowList

Spec == Init /\ [][Next]_vars

-----------------------------------------------------------------------------
(* Reference definitions: a list by the places of its commas, a number by  *)
(* the places of its digits                                                *)

\* The ends of the fields of str: before its first character, its commas
\* in ascending order, after its last character.
Bounds(str) ==
    <<0>> \o SetToSortSeq({i \in DOMAIN str : str[i] = ","}, <) \o <<Len(str) + 1>>

\* The k-th field of the list that str is.
Field(str, k) == SubSeq(str, Bounds(str)[k] + 1, Bounds(str)[k + 1] - 1)
Fields(str) == [k \in 1..(Len(Bounds(str)) - 1) |-> Field(str, k)]

\* The number a string of decimal digits stands for, from its last digit.
RECURSIVE Value(_)
Value(digits) ==
    IF digits = <<>> THEN 0
    ELSE 10 * Value(Front(digits)) + ToDigit(Last(digits))

\* token is a numeral of a port: digits, with or without a "+" before them,
\* that stand for a number of sixteen bits.
IsPort(token) ==
    /\ DigitsOf(token) # <<>>
    /\ \A i \in DOMAIN DigitsOf(token) : IsDigit(DigitsOf(token)[i])
    /\ Value(DigitsOf(token)) <= MaxU16

-----------------------------------------------------------------------------
(* Properties *)

\* The type invariant.  A port that get_egress_ports returns fits in
\* sixteen bits, and a list is never returned empty.
TypeOK ==
    /\ enclave \in BOOLEAN
    /\ {get_e3_host, get_cert_provisioner_host} \subseteq
           {"e3.cages-e3.internal", "provisioner.cages.internal", "localhost"}
    /\ egress_ports.tag \in {"NotRead", "Panicked", "Ok"}
    /\ egress_ports.tag = "Ok" =>
           egress_ports.value \in Seq(0..MaxU16) \ {<<>>}
    /\ egress_allow_list.tag \in {"NotRead", "Ok"}
    /\ egress_allow_list.tag = "Ok" => egress_allow_list.value # <<>>

\* Sections 6 and 8 on EGRESS_PORTS: get_egress_ports returns a vector
\* exactly when every field between the commas of the variable (of "443"
\* when the variable is not set) is the numeral of a sixteen-bit number,
\* and the vector then holds those numbers, one per field, in the order
\* of the list; in every other case (an empty field, a character that is
\* no digit, a number beyond 65535) the process panics at startup.
PortsAreTheListedNumbers ==
    LET str == VarOr("EGRESS_PORTS", <<"4", "4", "3">>)
        ports == egress_ports.value
    IN  /\ egress_ports.tag = "Ok" <=>
               /\ egress_ports # NotRead
               /\ \A k \in DOMAIN Fields(str) : IsPort(Field(str, k))
        /\ egress_ports.tag = "Ok" =>
               /\ Len(ports) = Len(Fields(str))
               /\ \A k \in DOMAIN ports : ports[k] = Value(DigitsOf(Field(str, k)))

\* get_egress_allow_list returns the fields between the commas of
\* EGRESS_ALLOW_LIST as they stand: none is dropped, trimmed or merged,
\* and joined by commas again they are the variable.  Of a variable that
\* is empty or not set this is the list of one empty name, where section 6
\* says "default empty.  Empty means no egress permitted".
AllowListIsTheListedNames ==
    egress_allow_list.tag = "Ok" =>
        egress_allow_list.value = Fields(VarOr("EGRESS_ALLOW_LIST", <<>>))

=============================================================================
