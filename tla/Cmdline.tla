------------------------------ MODULE Cmdline ------------------------------
(***************************************************************************)
(* The kernel command line: kernel/domain/services/cmdline.c parses it,    *)
(* kernel/infrastructure/i686/cmdline.c interprets the machine's options.  *)
(*                                                                         *)
(* A command line is a sequence of characters that ends with NUL.  A run   *)
(* of letters that the parser never splits is one character here ("panic"  *)
(* stands for itself): the parser only tells quotes, dashes, equal signs,  *)
(* separators and NUL from everything else.                                *)
(***************************************************************************)
EXTENDS Integers, Sequences, SequencesExt, FiniteSets

CONSTANTS
  CMDLINE_MAX_VALID_LENGTH,   \* beyond: reported as too long, still parsed
  CMDLINE_MAX_PARSE_LENGTH    \* beyond: the parser gives up

SPACE == " "
TAB == "\t"
QUOTE == "\""
NUL == "NUL"

is_separator(c) == c \in {SPACE, TAB, NUL}

Token(start, length) == [start |-> start, length |-> length]

TextOf(cmdline, token) == SubSeq(cmdline, token.start, token.start + token.length - 1)

initialize_context ==
  [state |-> "START", position |-> 1, done |-> FALSE, has |-> "nothing",
   option |-> Token(1, 0), value |-> Token(1, 0), errors |-> {}]

(***************************************************************************)
(* What a character does in a parse state: the next state, which token it  *)
(* starts or ends, what mutate_context() returns with, and the error.      *)
(***************************************************************************)
Go(state) == [to |-> state, starts |-> {}, ends |-> {}, has |-> "nothing", error |-> {}, done |-> FALSE]
Start(token, state) == [Go(state) EXCEPT !.starts = {token}]
End(token, state) == [Go(state) EXCEPT !.ends = {token}]
Yield(what, token, state) == [End(token, state) EXCEPT !.has = what]
YieldEmpty(what, token, state) == [Yield(what, token, state) EXCEPT !.starts = {token}]
Unclosed(state) == [Go(state) EXCEPT !.error = {"UNCLOSED_QUOTES"}]

\* The start of a parameter, and what follows a closing quote without a separator.
ParameterStart(c) ==
  IF c = QUOTE THEN Go("ARGUMENT_START_QUOTE")
  ELSE IF c = "-" THEN Start("option", "DASH1")
  ELSE Start("option", "NAME")

\* A parameter that is not quoted.
WordRule(state, c) ==
  CASE state = "START" -> IF is_separator(c) THEN Go("START") ELSE ParameterStart(c)
    [] state = "NAME" ->
         IF c = "=" THEN End("option", "EQUAL")
         ELSE IF is_separator(c) THEN Yield("argument", "option", "START")
         ELSE Go("NAME")
    [] state = "EQUAL" ->
         IF is_separator(c) THEN YieldEmpty("option", "value", "START")
         ELSE IF c = QUOTE THEN Go("VALUE_START_QUOTE")
         ELSE Start("value", "VALUE")
    [] state = "VALUE" ->
         IF is_separator(c) THEN Yield("option", "value", "START") ELSE Go("VALUE")

\* Inside quotes: the token runs to the closing quote, after which `after` expects
\* a separator.  A NUL leaves the quotes unclosed.
QuotedStart(c, token, what, inside, after, state) ==
  IF c = QUOTE THEN YieldEmpty(what, token, after)
  ELSE IF c = NUL THEN Unclosed(state)
  ELSE Start(token, inside)

QuotedRest(c, token, what, after, state) ==
  IF c = QUOTE THEN Yield(what, token, after)
  ELSE IF c = NUL THEN Unclosed(state)
  ELSE Go(state)

\* The quoted value of an option, and the character after a closing quote.
QuotedValueRule(state, c) ==
  CASE state = "VALUE_START_QUOTE" -> QuotedStart(c, "value", "option", "QUOTED_VALUE", "END_QUOTE", state)
    [] state = "QUOTED_VALUE" -> QuotedRest(c, "value", "option", "END_QUOTE", state)
    [] state = "END_QUOTE" ->
         IF is_separator(c) THEN Go("START")
         ELSE [ParameterStart(c) EXCEPT !.error = {"JUNK_AFTER_ENDQUOTE"}]

\* Dashes, and quoted arguments.  One dash starts a name; two dashes and a separator
\* end the kernel's part of the command line.
DashRule(state, c) ==
  CASE state = "DASH1" -> Go(IF c = "-" THEN "DASH2" ELSE "NAME")
    [] state = "DASH2" -> Go(IF is_separator(c) THEN "AFTER2DASH_START" ELSE "START")
    [] state = "ARGUMENT_START_QUOTE" -> QuotedStart(c, "option", "argument", "QUOTED_ARGUMENT", "END_QUOTE", state)
    [] state = "QUOTED_ARGUMENT" -> QuotedRest(c, "option", "argument", "END_QUOTE", state)

JunkIsTheEnd(rule) == [rule EXCEPT !.error = {"JUNK_AFTER_ENDQUOTE"}, !.done = TRUE]

\* After the double dash every parameter is an argument, its equal sign included.
After2DashRule(state, c) ==
  LET Argument == Yield("argument", "option", "AFTER2DASH_START")
  IN
  CASE state = "AFTER2DASH_START" ->
         IF c = QUOTE THEN Go("AFTER2DASH_START_QUOTE")
         ELSE IF is_separator(c) THEN Go(state)
         ELSE Start("option", "AFTER2DASH_ARGUMENT")
    [] state = "AFTER2DASH_ARGUMENT" ->
         IF c = "=" THEN Go("AFTER2DASH_EQUAL") ELSE IF is_separator(c) THEN Argument ELSE Go(state)
    [] state = "AFTER2DASH_EQUAL" ->
         IF is_separator(c) THEN Argument
         ELSE Go(IF c = QUOTE THEN "AFTER2DASH_QUOTED_VALUE" ELSE "AFTER2DASH_VALUE")
    [] state = "AFTER2DASH_VALUE" -> IF is_separator(c) THEN Argument ELSE Go(state)
    [] state = "AFTER2DASH_QUOTED_VALUE" ->
         IF c = QUOTE THEN Go("AFTER2DASH_VALUE_END_QUOTE")
         ELSE IF c = NUL THEN Unclosed(state)
         ELSE Go(state)
    [] state = "AFTER2DASH_VALUE_END_QUOTE" ->
         IF is_separator(c) THEN Argument ELSE JunkIsTheEnd(Yield("argument", "option", state))
    [] state = "AFTER2DASH_START_QUOTE" ->
         QuotedStart(c, "option", "argument", "AFTER2DASH_QUOTED_ARGUMENT", "AFTER2DASH_END_QUOTE", state)
    [] state = "AFTER2DASH_QUOTED_ARGUMENT" ->
         QuotedRest(c, "option", "argument", "AFTER2DASH_END_QUOTE", state)
    [] state = "AFTER2DASH_END_QUOTE" ->
         IF is_separator(c) THEN Go("AFTER2DASH_START") ELSE JunkIsTheEnd(Go(state))

RuleFor(state, c) ==
  CASE state \in {"START", "NAME", "EQUAL", "VALUE"} -> WordRule(state, c)
    [] state \in {"VALUE_START_QUOTE", "QUOTED_VALUE", "END_QUOTE"} -> QuotedValueRule(state, c)
    [] state \in {"DASH1", "DASH2", "ARGUMENT_START_QUOTE", "QUOTED_ARGUMENT"} -> DashRule(state, c)
    [] OTHER -> After2DashRule(state, c)

\* A token that ends here has its length set from its start.
Delimit(token, name, rule, position) ==
  LET start == IF name \in rule.starts THEN position ELSE token.start
  IN Token(start, IF name \in rule.ends THEN position - start ELSE token.length)

ApplyRule(context, rule, c) ==
  [context EXCEPT !.state = rule.to,
                  !.option = Delimit(@, "option", rule, context.position),
                  !.value = Delimit(@, "value", rule, context.position),
                  !.has = rule.has,
                  !.done = rule.done \/ c = NUL,
                  !.position = @ + 1,
                  !.errors = @ \cup rule.error]

\* One call of the parser: it reads characters until it has an option, an argument
\* or nothing left to read.
RECURSIVE MutateFrom(_, _)
MutateFrom(cmdline, context) ==
  LET c == cmdline[context.position]
      index == context.position - 1
      long == [context EXCEPT !.errors = @ \cup (IF index >= CMDLINE_MAX_VALID_LENGTH THEN {"TOO_LONG"} ELSE {})]
      next == ApplyRule(long, RuleFor(long.state, c), c)
  IN IF index >= CMDLINE_MAX_PARSE_LENGTH THEN [long EXCEPT !.done = TRUE]
     ELSE IF next.has # "nothing" \/ next.done THEN next
     ELSE MutateFrom(cmdline, next)

mutate_context(cmdline, context) == MutateFrom(cmdline, [context EXCEPT !.has = "nothing"])

(***************************************************************************)
(* Option names and values.                                                *)
(***************************************************************************)
Underscored(text) == [i \in DOMAIN text |-> IF text[i] = "-" THEN "_" ELSE text[i]]

\* An enum definition is a set of pairs <<name, value>>.
get_enum_entry_by_token(def, text) == {entry \in def : Underscored(entry[1]) = Underscored(text)}

cmdline_match_enum(def, text) == get_enum_entry_by_token(def, text) # {}

EnumValue(def, text) == (CHOOSE entry \in get_enum_entry_by_token(def, text) : TRUE)[2]

bool_names == ({<<"true">>, <<"yes">>, <<"enable">>, <<"1">>} \X {TRUE})
              \cup ({<<"false">>, <<"no">>, <<"disable">>, <<"0">>} \X {FALSE})

cmdline_match_boolean(text) == cmdline_match_enum(bool_names, text)

Digits == <<"0", "1", "2", "3", "4", "5", "6", "7", "8", "9">>
HexDigits == Digits \o <<"a", "b", "c", "d", "e", "f">>

isdigit(c) == \E i \in 1 .. 10 : Digits[i] = c
isxdigit(c) == \E i \in 1 .. 16 : HexDigits[i] = c
integer(c) == (CHOOSE i \in 1 .. 16 : HexDigits[i] = c) - 1

RECURSIVE Accumulate(_, _)
Accumulate(base, digits) ==
  IF digits = <<>> THEN 0
  ELSE base * Accumulate(base, SubSeq(digits, 1, Len(digits) - 1)) + integer(digits[Len(digits)])

AllDigits(text) == \A i \in DOMAIN text : isdigit(text[i])
AllHexDigits(text) == \A i \in DOMAIN text : isxdigit(text[i])

\* The test for a leading zero compares with the NUL character, which no token
\* contains: a number is read as decimal, whatever it starts with.
IsPrefixed(text) == Len(text) > 1 /\ text[1] = NUL

cmdline_match_integer(text) ==
  /\ Len(text) >= 1
  /\ IF IsPrefixed(text)
       THEN Len(text) \in 3 .. 10 /\ text[2] = "x" /\ AllHexDigits(SubSeq(text, 3, Len(text)))
       ELSE Len(text) <= 9 /\ AllDigits(text)

IntegerValue(text) ==
  IF IsPrefixed(text) THEN Accumulate(16, SubSeq(text, 3, Len(text))) ELSE Accumulate(10, text)

(***************************************************************************)
(* The kernel's options.                                                   *)
(***************************************************************************)
kernel_option_names == {<< <<"on", "_", "panic">>, "on_panic">>}

machine_option_names ==
  {<< <<"nx">>, "nx">>, << <<"serial", "_", "enable">>, "serial_enable">>,
   << <<"serial", "_", "baud", "_", "rate">>, "serial_baud_rate">>,
   << <<"serial", "_", "ioport">>, "serial_ioport">>,
   << <<"serial", "_", "dev">>, "serial_dev">>, << <<"vga", "_", "enable">>, "vga_enable">>}

opt_on_panic_names == {<< <<"halt">>, "halt">>, << <<"reboot">>, "reboot">>}
opt_nx_names == {<< <<"auto">>, "auto">>, << <<"require">>, "require">>}

SERIAL_PORTS == <<1016, 760, 1000, 744>>
SERIAL_MAX_IOPORT == 65535

serial_ports ==
  UNION {{<< <<Digits[n]>>, SERIAL_PORTS[n]>>, << <<"ttyS", Digits[n]>>, SERIAL_PORTS[n]>>,
          << <<"/dev/ttyS", Digits[n]>>, SERIAL_PORTS[n]>>,
          << <<"com", Digits[n + 1]>>, SERIAL_PORTS[n]>>, << <<"COM", Digits[n + 1]>>, SERIAL_PORTS[n]>>}
           : n \in 1 .. 4}

RECURSIVE DecimalText(_)
DecimalText(n) == (IF n < 10 THEN <<>> ELSE DecimalText(n \div 10)) \o <<Digits[(n % 10) + 1]>>

serial_baud_rates ==
  {<<DecimalText(n), n>> : n \in {300, 600, 1200, 2400, 4800, 9600, 14400, 19200, 38400, 57600, 115200}}

machine_apply_config_defaults ==
  [nx |-> "auto", serial_enable |-> FALSE, serial_baud_rate |-> 115200,
   serial_ioport |-> SERIAL_PORTS[1], vga_enable |-> TRUE]

apply_config_defaults == [on_panic |-> "halt", machine |-> machine_apply_config_defaults]

\* The parse result: the configuration, and the errors for cmdline_report_errors().
Fail(parse, error) == [parse EXCEPT !.errors = @ \cup {error}]
SetMachine(parse, field, value) == [parse EXCEPT !.config.machine[field] = value]

MatchInto(parse, field, def, text, error) ==
  IF cmdline_match_enum(def, text) THEN SetMachine(parse, field, EnumValue(def, text)) ELSE Fail(parse, error)

machine_cmdline_process_option(parse, option, value) ==
  IF ~cmdline_match_enum(machine_option_names, option) THEN parse
  ELSE LET name == EnumValue(machine_option_names, option) IN
    CASE name = "nx" -> MatchInto(parse, "nx", opt_nx_names, value, "INVALID_NX")
      [] name = "serial_enable" -> MatchInto(parse, "serial_enable", bool_names, value, "INVALID_SERIAL_ENABLE")
      [] name = "vga_enable" -> MatchInto(parse, "vga_enable", bool_names, value, "INVALID_VGA_ENABLE")
      [] name = "serial_dev" -> MatchInto(parse, "serial_ioport", serial_ports, value, "INVALID_SERIAL_DEV")
      [] name = "serial_baud_rate" ->
           MatchInto(parse, "serial_baud_rate", serial_baud_rates, value, "INVALID_SERIAL_BAUD_RATE")
      [] name = "serial_ioport" ->
           IF cmdline_match_integer(value) /\ IntegerValue(value) <= SERIAL_MAX_IOPORT
             THEN SetMachine(parse, "serial_ioport", IntegerValue(value))
             ELSE Fail(parse, "INVALID_SERIAL_IOPORT")

process_name_value_pair(parse, option, value) ==
  IF ~cmdline_match_enum(kernel_option_names, option) THEN machine_cmdline_process_option(parse, option, value)
  ELSE IF cmdline_match_enum(opt_on_panic_names, value)
         THEN [parse EXCEPT !.config.on_panic = EnumValue(opt_on_panic_names, value)]
  ELSE Fail(parse, "INVALID_ON_PANIC")

(***************************************************************************)
(* The callers of the parser.  Each starts a context of its own and calls  *)
(* mutate_context() until it is done.                                      *)
(***************************************************************************)
NoCmdline == <<>>   \* a null pointer

RECURSIVE CallsFrom(_, _)
CallsFrom(cmdline, context) ==
  LET next == mutate_context(cmdline, context)
  IN <<next>> \o (IF next.done THEN <<>> ELSE CallsFrom(cmdline, next))

Calls(cmdline) == CallsFrom(cmdline, initialize_context)

ProcessCall(parse, cmdline, context) ==
  LET seen == [parse EXCEPT !.errors = @ \cup context.errors]
  IN IF context.has = "option"
       THEN process_name_value_pair(seen, TextOf(cmdline, context.option), TextOf(cmdline, context.value))
       ELSE seen

cmdline_parse_options(config, cmdline) ==
  LET parse == [config |-> config, errors |-> {}]
  IN IF cmdline = NoCmdline THEN Fail(parse, "IS_NULL")
     ELSE FoldLeft(LAMBDA seen, context : ProcessCall(seen, cmdline, context), parse, Calls(cmdline))

cmdline_report_errors(parse) == IF parse.errors = {} THEN "return" ELSE "panic"

write_token(buffer, cmdline, token) == buffer \o TextOf(cmdline, token)
write_character(buffer, c) == Append(buffer, c)

\* A mutant: the name is compared as it is written, dashes and all.
FilterExactName(option) == \A entry \in kernel_option_names : entry[1] # option

filter_userspace_environ(option) == get_enum_entry_by_token(kernel_option_names, option) = {}

IsArgument(cmdline, context) == context.has = "argument"
IsVariable(cmdline, context) ==
  context.has = "option" /\ filter_userspace_environ(TextOf(cmdline, context.option))

CountCalls(calls, cmdline, Test(_, _)) == Cardinality({i \in DOMAIN calls : Test(cmdline, calls[i])})

cmdline_count_arguments(cmdline) == CountCalls(Calls(cmdline), cmdline, IsArgument)
cmdline_count_environ(cmdline) == CountCalls(Calls(cmdline), cmdline, IsVariable)

WriteArgument(buffer, cmdline, context) ==
  IF IsArgument(cmdline, context)
    THEN write_character(write_token(buffer, cmdline, context.option), NUL)
    ELSE buffer

WriteVariable(buffer, cmdline, context) ==
  IF IsVariable(cmdline, context)
    THEN LET named == write_character(write_token(buffer, cmdline, context.option), "=")
         IN write_character(write_token(named, cmdline, context.value), NUL)
    ELSE buffer

cmdline_write_arguments(buffer, cmdline) ==
  FoldLeft(LAMBDA written, context : WriteArgument(written, cmdline, context), buffer, Calls(cmdline))

cmdline_write_environ(buffer, cmdline) ==
  FoldLeft(LAMBDA written, context : WriteVariable(written, cmdline, context), buffer, Calls(cmdline))

=============================================================================
