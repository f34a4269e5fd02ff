----------------------------- MODULE SyslogParser -----------------------------
(***************************************************************************)
(* What core/syslog_parser.py makes of a message.  A message is what the   *)
(* regular expressions find in it: the patterns that match, the number     *)
(* between its angle brackets, the month of its timestamp.  Texts that are *)
(* copied as they are (host, application, the message itself) are left     *)
(* out.                                                                    *)
(***************************************************************************)
EXTENDS Integers

Patterns == {"rfc5424", "rfc3164", "pri"}

\* All patterns begin with <(\d{1,3})>.
Pri == 0 .. 999

Message == [matches : SUBSET Patterns, pri : Pri]

\* len(FACILITY_NAMES)
Facilities == 24

\* pri >> 3, pri & 7
ParsePriority(pri) == [facility |-> pri \div 8, severity |-> pri % 8]

\* facility_name: from the table, or the number itself.
HasName(facility) == facility \in 0 .. Facilities - 1

\* parse_syslog_message(): the formats differ in the texts they copy, not in
\* how they read the priority; a message without one is user.info.
Parse(m) ==
    IF m.matches = {} THEN [facility |-> 1, severity |-> 6] ELSE ParsePriority(m.pri)

\* A date is a year and a month; Months numbers them through.
Date == [year : Nat, month : 1 .. 12]
Months(date) == 12 * date.year + date.month

\* parse_rfc3164_timestamp(): the year of now, unless it is January and the
\* message is of December.
Dated(month, now) ==
    [year |-> IF month = 12 /\ now.month = 1 THEN now.year - 1 ELSE now.year,
     month |-> month]

=============================================================================
