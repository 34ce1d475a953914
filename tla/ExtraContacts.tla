---------------------------- MODULE ExtraContacts ----------------------------
(***************************************************************************)
(* parse_extra_contacts (src/hooks/upgrade_charm.py): the loop over the    *)
(* contacts of the option.  Keys and characters are tested by comparing    *)
(* sets with ">", a superset that is not equal.                            *)
(***************************************************************************)
EXTENDS Naturals, Sequences, FiniteSets, SequencesExt

CONSTANTS
    valid_name_chars,
    Characters,      \* those of names, some of them not valid
    KeySets,         \* the sets of keys that contacts may have
    MaxContacts

VARIABLES
    extra_contacts_raw,   \* [kind, list]: "list", "text", "number" or "unparsable"
    extra_contacts,
    position, result

vars == <<extra_contacts_raw, extra_contacts, position, result>>

Required == {"name", "host", "service"}

\* A mapping with any keys and values: a name is a text, or a list, of these characters,
\* or neither; host and service are both texts, with or without a line break, or both lists,
\* or cannot be concatenated.  Or no mapping.
Contact == [mapping : {TRUE}, keys : KeySets, name : SUBSET Characters,
            named : {"text", "list", "other"}, commands : {"texts", "broken", "lists", "other"}]
     \cup [mapping : {FALSE}, keys : {{}}, name : {{}}, named : {"other"}, commands : {"other"}]

\* Python's "a > b" of two sets.
Exceeds(a, b) == b \subseteq a /\ a # b

Raw == [kind : {"list"}, list : BoundedSeq(Contact, MaxContacts)]
  \cup [kind : {"text", "number", "unparsable"}, list : {<<>>}]

Finish(outcome) == result' = outcome /\ UNCHANGED <<extra_contacts_raw, extra_contacts, position>>

\* The handler logs what is no list; the count after it asks for the length, which a
\* number has not, of a name that has no value when the YAML did not parse.
NotAList ==
    /\ result = "running" /\ extra_contacts_raw.kind # "list"
    /\ Finish(IF extra_contacts_raw.kind = "text" THEN "returned" ELSE "raised")

contact == extra_contacts_raw.list[position]

TooFew == Exceeds(Required, contact.keys)
Illegal == Exceeds(contact.name, valid_name_chars)

\* Broken variant of Skipped: a contact is skipped for each character that is valid.
Bug_Skipped ==
    TooFew \/ contact.name \cap valid_name_chars # {} \/ contact.commands = "broken"

Skipped == TooFew \/ Illegal \/ contact.commands = "broken"

\* Errors that nobody catches, in the order of the tests: what has no keys; a key that the
\* first test does not miss, as there are others; a name that is no set of anything;
\* commands that do not add up; and a name that is no text and has passed as a set.
Raises ==
    \/ ~contact.mapping
    \/ /\ ~TooFew
       /\ \/ "name" \notin contact.keys \/ contact.named = "other"
          \/ /\ ~Illegal
             /\ \/ ~(Required \subseteq contact.keys) \/ contact.commands = "other"
                \/ contact.commands # "broken" /\ contact.named = "list"

TakeContact ==
    /\ result = "running" /\ extra_contacts_raw.kind = "list"
    /\ position \in DOMAIN extra_contacts_raw.list
    /\ IF Raises
       THEN Finish("raised")
       ELSE /\ extra_contacts' = IF Skipped THEN extra_contacts
                                 ELSE Append(extra_contacts, contact)
            /\ position' = position + 1
            /\ UNCHANGED <<extra_contacts_raw, result>>

Return ==
    /\ result = "running" /\ extra_contacts_raw.kind = "list"
    /\ position = Len(extra_contacts_raw.list) + 1
    /\ Finish("returned")

Init ==
    /\ extra_contacts_raw \in Raw
    /\ extra_contacts = <<>> /\ position = 1 /\ result = "running"

Next == NotAList \/ TakeContact \/ Return

Spec == Init /\ [][Next]_vars
-----------------------------------------------------------------------------
TypeOK == /\ extra_contacts \in Seq(Contact) /\ position \in 1..(MaxContacts + 1)
          /\ result \in {"running", "returned", "raised"}

\* Three texts and nothing else.
Plain(c) == /\ c.mapping /\ c.keys = Required
            /\ c.named = "text" /\ c.commands \in {"texts", "broken"}

Documented(c) == /\ Plain(c) /\ c.commands # "broken"
                 /\ c.name # {} /\ c.name \subseteq valid_name_chars

\* The contacts that were taken come from these places of the option, in their order.
FromOption(origin) ==
    \A i, j \in DOMAIN origin :
        /\ extra_contacts[i] = extra_contacts_raw.list[origin[i]]
        /\ i < j => origin[i] < origin[j]

\* The option's contacts that are as documented are all returned, in their order, and
\* what is returned with them has all keys, a text for a name, and commands that are texts
\* without a line break, or lists; the hook raises only for an option that is no list, or
\* has a contact that is no mapping of the three keys to texts.
ContactsParsed ==
    /\ result = "returned" =>
        /\ \E origin \in [DOMAIN extra_contacts -> DOMAIN extra_contacts_raw.list] :
              /\ FromOption(origin)
              /\ \A j \in DOMAIN extra_contacts_raw.list :
                    Documented(extra_contacts_raw.list[j]) => \E i \in DOMAIN origin : origin[i] = j
        /\ \A i \in DOMAIN extra_contacts :
              /\ Required \subseteq extra_contacts[i].keys /\ extra_contacts[i].named = "text"
              /\ extra_contacts[i].commands \in {"texts", "lists"}
    /\ result = "raised" =>
        \/ extra_contacts_raw.kind # "list"
        \/ \E i \in DOMAIN extra_contacts_raw.list : ~Plain(extra_contacts_raw.list[i])

\* src/config.yaml:382: "Only [A-Za-z0-9_-] contact names are valid."
OnlyLegalNames ==
    \A i \in DOMAIN extra_contacts : extra_contacts[i].name \subseteq valid_name_chars
=============================================================================
