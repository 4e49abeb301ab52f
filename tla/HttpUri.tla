------------------------------- MODULE HttpUri -------------------------------
(***************************************************************************)
(* From the URI of a request to its handler's parameters (src/http_rest.c):  *)
(* http_find_file decodes the whole URI into a buffer of fixed size first,    *)
(* and only then cuts it at ?, & and =.  And the table of the handlers, which *)
(* a registration is put in front of (rest_register_handler).                *)
(*                                                                         *)
(* The client is a page: it adds parameters to a URI, and to the last of them *)
(* characters.  X_Variant is X with a plausible mistake.                     *)
(***************************************************************************)
EXTENDS Integers, Sequences, FiniteSets

CONSTANTS
    Handlers,    \* URIs that are registered, "/404" is one of them
    Keys,        \* characters that are a parameter's name
    Symbols,     \* characters a value may have
    MaxUri,      \* MAX_DECODED_URI_LEN without the terminating zero
    MaxParams,   \* LWIP_HTTPD_MAX_CGI_PARAMETERS
    MaxSent,     \* bound: parameters of a request
    MaxChars     \* bound: characters of a value

ASSUME UriSizesAssumption ==
    /\ MaxUri \in Nat \ {0} /\ MaxParams \in Nat \ {0} /\ MaxSent \in Nat /\ MaxChars \in Nat
ASSUME UriCharsAssumption == "/404" \in Handlers /\ Keys \cap {"?", "&", "=", " "} = {}

NoValue == <<"no value">>

VARIABLES
    table,    \* the list of handlers: <<URI, number of the registration>>
    sent,     \* the parameters of a request: <<key, value>>
    url       \* the URI the page has written for them
uriVars == <<table, sent, url>>

-----------------------------------------------------------------------------
(* The page: encodeURIComponent escapes what is not a plain character; a form *)
(* writes a plus for a space.                                              *)
Escapes(ch) == IF ch = " " THEN {<<"%", ch>>, <<"+", "+">>}
               ELSE IF ch \in {"&", "=", "?"} THEN {<<"%", ch>>} ELSE {<<"", ch>>}

Plain(ch) == <<"", ch>>

UriInit == table = <<>> /\ sent = <<>> /\ url = <<Plain("/uri")>>

-----------------------------------------------------------------------------
(* decode_uri: %XX and + are resolved, and what has no room is left out.      *)
Decoded(t) == IF t = <<"+", "+">> THEN " " ELSE t[2]
Decode(s)  == [i \in 1..(IF Len(s) < MaxUri THEN Len(s) ELSE MaxUri) |-> Decoded(s[i])]

(* strchr: the first place of ch in s, or the one after its end              *)
Find(s, ch) ==
    LET at == {i \in DOMAIN s : s[i] = ch} IN
        IF at = {} THEN Len(s) + 1 ELSE CHOOSE i \in at : \A j \in at : i <= j
Before(s, ch) == SubSeq(s, 1, Find(s, ch) - 1)
After(s, ch)  == SubSeq(s, Find(s, ch) + 1, Len(s))

(* extract_uri_parameters: a pair begins where the one before it ends, at &.    *)
Starts(s) == {1} \cup {i + 1 : i \in {i \in DOMAIN s : s[i] = "&"}}
NthStart(s, n) == CHOOSE a \in Starts(s) : Cardinality({b \in Starts(s) : b <= a}) = n
Piece(s, n) == Before(SubSeq(s, NthStart(s, n), Len(s)), "&")

Pair_AllParts(s) ==
    IF Find(s, "=") > Len(s) THEN <<s, NoValue>>
    ELSE <<Before(s, "="), Before(After(s, "="), "=")>>

Pair(s) ==
    IF Find(s, "=") > Len(s) THEN <<s, NoValue>> ELSE <<Before(s, "="), After(s, "=")>>

(* The last one also ends at a space.                                        *)
Extract(s) ==
    IF s = <<>> THEN <<>>
    ELSE LET n == Cardinality(Starts(s))
             pair(i) == Pair(IF i = n THEN Before(Piece(s, i), " ") ELSE Piece(s, i))
         IN  [i \in 1..(IF n < MaxParams THEN n ELSE MaxParams) |-> pair(i)]

Base   == Before(Decode(url), "?")
Params == Extract(After(Decode(url), "?"))

(* rest_register_handler and rest_get_handler: of two handlers of a URI the    *)
(* one registered last answers; a URI without one is answered by that of /404. *)
Register(u) ==
    /\ Len(table) < MaxSent
    /\ table' = <<<<u, Len(table) + 1>>>> \o table
    /\ UNCHANGED <<sent, url>>

Handler(u) ==
    LET here == {i \in DOMAIN table : table[i][1] = u} IN
        IF here = {} THEN 0 ELSE table[CHOOSE i \in here : \A j \in here : i <= j][2]

(* http_find_file: the handler that is called                              *)
Answers(u) == IF Handler(u) # 0 THEN Handler(u) ELSE Handler("/404")

-----------------------------------------------------------------------------
AddParameter(k) ==
    /\ Len(sent) < MaxSent
    /\ sent' = Append(sent, <<k, <<>>>>)
    /\ url' = url \o <<Plain(IF sent = <<>> THEN "?" ELSE "&"), Plain(k), Plain("=")>>
    /\ UNCHANGED table

AddCharacter(ch) ==
    /\ sent # <<>> /\ Len(sent[Len(sent)][2]) < MaxChars
    /\ \E e \in Escapes(ch) :
          /\ sent' = [sent EXCEPT ![Len(sent)] = <<@[1], Append(@[2], e)>>]
          /\ url' = Append(url, e)
    /\ UNCHANGED table

StartUp == \E u \in Handlers : Register(u)
ClientWrites ==
    \/ \E k \in Keys : AddParameter(k)
    \/ \E ch \in Symbols : AddCharacter(ch)
UriSpec == UriInit /\ [][StartUp \/ ClientWrites]_uriVars

-----------------------------------------------------------------------------
Meant    == [i \in DOMAIN sent |-> <<<<sent[i][1]>>, [j \in DOMAIN sent[i][2] |-> Decoded(sent[i][2][j])]>>]
Has(i, ch) == Find(Meant[i][2], ch) <= Len(Meant[i][2])

(* A request reaches the handler that was registered last for its URI, with the  *)
(* parameters the page meant, values with = and escaped characters included, if  *)
(* they fit, none has an & and the last no space (decoding comes before cutting, *)
(* and a registration goes in front of the table: http_find_file).             *)
RequestArrives ==
    /\ /\ Len(url) <= MaxUri /\ Len(sent) <= MaxParams
       /\ \A i \in DOMAIN sent : ~Has(i, "&")
       /\ sent # <<>> => ~Has(Len(sent), " ")
       => Base = <<"/uri">> /\ Params = Meant
    /\ LET mine == {table[j][2] : j \in {j \in DOMAIN table : table[j][1] = "/uri"}}
       IN  mine # {} => Answers("/uri") \in mine /\ \A i \in mine : i <= Answers("/uri")

(* The same of every request a page can send: an escaped & starts another      *)
(* parameter, an escaped space ends the last one, and what is beyond the       *)
(* buffer is lost without an answer that says so.                            *)
ParamsAlwaysArrive == Params = Meant
=============================================================================
