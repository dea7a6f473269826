-------------------------------- MODULE MySmtp --------------------------------
(***************************************************************************)
(* The mail service of Lab 6: a server with a thread for each client and   *)
(* mailboxes that are files of lines.  The threads cut what they receive   *)
(* into lines with strtok, whose one static pointer they share without a   *)
(* lock: a call with the buffer writes it, a call with NULL reads it and   *)
(* then writes it, and another thread may come between.  So the line that a *)
(* thread handles may lie in the buffer of another, whose recv rewrites it  *)
(* between two looks at it.                                                *)
(*                                                                         *)
(* A line is a verb and an address; of the text of a mail it matters what  *)
(* the two readers of a mailbox look for, "From: " and "---".  A recv ends *)
(* at the end of a line (blank lines are none, for strtok).  Of a reply    *)
(* matters that there is one: the client prints it.                        *)
(***************************************************************************)
EXTENDS Integers, Sequences, SequencesExt

CONSTANTS
  Session,     \* connections, their clients and threads
  Address,     \* valid addresses: those with an @
  NoAddress,   \* any other argument, and no argument; the empty field
  Garbled,     \* what is read where a buffer is rewritten: any other text
  Script,      \* [s]: what the user may type, in order, leaving out some (bound)
  Bodies,      \* the mails users may type, line by line (bound)
  DataLines,   \* lines a data_buffer has room for: MAX_EMAIL_SIZE
  Leavers,     \* the sessions whose users may stop or be stopped early (bound)
  MaxReplies   \* unread replies at which users stop (bound)

NULL   == [of |-> {}, left |-> <<>>]
NoLine == [of |-> {}, texts |-> {}]
Line(v, a) == [verb |-> v, arg |-> a]
Plain(v)   == Line(v, NoAddress)
Dot        == Plain(".")
Separator  == Plain("---")

Verbs == {"HELO", "MAIL FROM", "RCPT TO", "DATA", "LIST", "GET_MAIL", "QUIT",
          "From: ", "Date: ", "---", ".", "text"}
Args  == Address \union {NoAddress, Garbled}
Lines == {Line(v, a) : v \in Verbs, a \in Args}

ASSUME MySmtpAssumption ==
  /\ NoAddress \notin Address /\ Garbled \notin Address /\ NoAddress # Garbled
  /\ Script \in [Session -> Seq(Lines)] /\ Bodies \subseteq Seq(Lines)
  /\ DataLines \in Nat /\ MaxReplies \in Nat /\ Leavers \subseteq Session

VARIABLES
  client,      \* [s]: where the client is: "out", "prompt", "body", "gone", or
               \* waiting: for the answer to a command ("reply"), to QUIT
               \* ("quit"), to DATA ("data"), to a body ("sent"), to one it
               \* did not send ("eof")
  typed,       \* [s]: how far in the script the user is
  toServer,    \* [s]: lines sent to the server and not received
  replies,     \* [s]: replies sent to the client and not read: 0, 1 or more (2)
  reset,       \* [s]: a reply came back: nobody is there any more
  thread,      \* [s]: "none", "recv", "handle" a line, with the argument of
               \* a verb or the room for a line looked at, "append", in
               \* strtok(NULL) before and after it has read the pointer,
               \* "load" and "store", or "gone"
  olds,        \* strtok's pointer: whose buffer, and the lines left there
  loaded,      \* [s]: the pointer as the thread's strtok(NULL) read it
  line,        \* [s]: the line handled: in whose buffer, and what may be read
               \* there: one text, or more once the buffer was rewritten
  is_data_mode, sender, recipient, data_buffer,   \* [s]: client_session
  mailbox,     \* [a]: the lines of the file mailbox/a.txt
  stored,      \* [a]: the mails saved so far (history)
  down         \* the server process was killed by SIGPIPE

clientVars == <<client, typed>>
party      == <<sender, recipient>>
session    == <<is_data_mode, party, data_buffer>>
files      == <<mailbox, stored>>
strtok     == <<olds, loaded>>
vars == <<clientVars, toServer, replies, reset, thread, strtok, line, session,
          files, down>>

Init ==
  /\ client = [s \in Session |-> "out"]
  /\ typed = [s \in Session |-> 0]
  /\ toServer = [s \in Session |-> <<>>]
  /\ replies = [s \in Session |-> 0] /\ reset = [s \in Session |-> FALSE]
  /\ thread = [s \in Session |-> "none"]
  /\ olds = NULL /\ loaded = [s \in Session |-> NULL]
  /\ line = [s \in Session |-> NoLine]
  /\ is_data_mode = [s \in Session |-> FALSE]
  /\ sender = [s \in Session |-> NoAddress]
  /\ recipient = [s \in Session |-> NoAddress]
  /\ data_buffer = [s \in Session |-> <<>>]
  /\ mailbox = [a \in Address |-> <<>>] /\ stored = [a \in Address |-> <<>>]
  /\ down = FALSE

-----------------------------------------------------------------------------
(* The client (mysmtp_client.c).  Its connection is accepted and gets its  *)
(* thread in the same step.                                                *)

Client(s, from, to) == client[s] = from /\ client' = [client EXCEPT ![s] = to]
Send(s, ls) == toServer' = [toServer EXCEPT ![s] = @ \o ls]
serverVars == <<thread, strtok, line, session, files, down, reset>>

Connect(s) ==
  /\ ~down /\ Client(s, "out", "prompt")
  /\ thread' = [thread EXCEPT ![s] = "recv"]
  /\ UNCHANGED <<typed, toServer, replies, reset, strtok, line, session,
                 files, down>>

Waits(l) == CASE l.verb = "DATA" -> "data"
              [] l.verb = "QUIT" -> "quit"
              [] OTHER           -> "reply"
Command(s, n) ==
  /\ replies[s] <= MaxReplies /\ typed[s] < n
  /\ typed' = [typed EXCEPT ![s] = n]
  /\ Client(s, "prompt", Waits(Script[s][n]))
  /\ Send(s, <<Script[s][n]>>)
  /\ UNCHANGED <<replies, serverVars>>

\* Whatever the answer to DATA was, a body is asked for and sent.
Body(s, ls) ==
  /\ Client(s, "body", "sent")
  /\ Send(s, Append(ls, Dot))
  /\ UNCHANGED <<typed, replies, serverVars>>

\* The client ends: what it has not read is gone.
Ends(s) == replies' = [replies EXCEPT ![s] = 0]

\* The input ends: at the prompt the client stops, in a body it goes on to wait
\* for an answer to what it has not sent.
EndOfInput(s) ==
  /\ s \in Leavers
  /\ \/ Client(s, "prompt", "gone") /\ Ends(s)
     \/ Client(s, "body", "eof") /\ UNCHANGED replies
  /\ UNCHANGED <<typed, toServer, serverVars>>

\* One recv takes some or all of the replies, whatever they are to.
ReadReply(s) ==
  /\ replies[s] > 0
  /\ \E n \in {0, replies[s] - 1, 2} :
       n <= replies[s] /\ replies' = [replies EXCEPT ![s] = n]
  /\ \/ Client(s, "reply", "prompt")
     \/ Client(s, "data", "body")
     \/ Client(s, "sent", "prompt")
     \/ Client(s, "quit", "gone")
     \/ Client(s, "eof", "gone")
  /\ UNCHANGED <<typed, toServer, serverVars>>

\* The server is gone.  Only after a command does the client look.
ServerLost(s) ==
  /\ down /\ replies[s] = 0
  /\ \/ Client(s, "reply", "gone")
     \/ Client(s, "quit", "gone")
     \/ Client(s, "data", "body")
     \/ Client(s, "sent", "prompt")
     \/ Client(s, "eof", "gone")
  /\ UNCHANGED <<typed, toServer, replies, serverVars>>

\* The program is ended from outside (external).
Kill(s) ==
  /\ s \in Leavers /\ client[s] \notin {"out", "gone"}
  /\ client' = [client EXCEPT ![s] = "gone"]
  /\ Ends(s)
  /\ UNCHANGED <<typed, toServer, serverVars>>

-----------------------------------------------------------------------------
(* handle_client: receiving and strtok *)

Thread(s, from, to) ==
  ~down /\ thread[s] = from /\ thread' = [thread EXCEPT ![s] = to]
idle == <<clientVars, replies, reset, session, files, down>>

\* What may be read in a buffer with the lines ls: from the start of a line or
\* the middle of one to the end of the same or of a later one.
Parts(ls)     == {SubSeq(ls, m, n) : m \in 1 .. Len(ls)+1, n \in 0..Len(ls)}
Middle        == <<Line("text", Garbled)>>
Starting(ps)  == ps \union {Middle \o p : p \in ps}
Texts(ls)     == Starting(Parts(ls)) \ {<<>>}
Rests(ls)     == Starting({SubSeq(ls, m, Len(ls)) : m \in 1 .. Len(ls)+1})

\* The buffer of s is rewritten: a pointer into it that another thread has read
\* comes to point into the new lines, if they reach so far, and the line that
\* another thread is handling may be read as before, as what is there now, or
\* as some of each.
Overwrite(s, ls) ==
  LET holders == {r \in Session : loaded[r].of = {s}}
  IN  /\ \E left \in [holders -> Rests(ls)], beyond \in SUBSET holders :
           loaded' = [r \in Session |->
             IF r \in holders \ beyond THEN [loaded[r] EXCEPT !.left = left[r]]
                                       ELSE loaded[r]]
      /\ line' = [r \in Session |->
           IF r = s                THEN [of |-> {s}, texts |-> {SubSeq(ls, 1, 1)}]
           ELSE IF line[r].of = {s} THEN [line[r] EXCEPT !.texts = @ \union Texts(ls)]
           ELSE line[r]]

\* recv and strtok(buffer, "\r\n"): the first line.
FirstLine(s) ==
  /\ Thread(s, "recv", "handle")
  /\ \E n \in 1..Len(toServer[s]) :
       /\ olds' = [of |-> {s}, left |-> SubSeq(toServer[s], 2, n)]
       /\ toServer' = [toServer EXCEPT ![s] = SubSeq(@, n+1, Len(@))]
       /\ Overwrite(s, SubSeq(toServer[s], 1, n))
  /\ UNCHANGED idle

Disconnect(s) ==
  /\ Thread(s, "recv", "gone") /\ toServer[s] = <<>> /\ client[s] = "gone"
  /\ UNCHANGED <<idle, toServer, strtok, line>>

\* strtok(NULL, "\r\n"): the pointer is read,
Load(s) ==
  /\ Thread(s, "load", "store")
  /\ loaded' = [loaded EXCEPT ![s] = olds]
  /\ UNCHANGED <<idle, toServer, olds, line>>

\* and written: past the next line, if there is one.
NextLine(s) ==
  /\ Thread(s, "store", "handle") /\ loaded[s].left # <<>>
  /\ olds' = [loaded[s] EXCEPT !.left = Tail(@)]
  /\ loaded' = [loaded EXCEPT ![s] = NULL]
  /\ line' = [line EXCEPT ![s] = [of    |-> loaded[s].of,
                                  texts |-> {<<Head(loaded[s].left)>>}]]
  /\ UNCHANGED <<idle, toServer>>

LastLine(s) ==
  /\ Thread(s, "store", "recv") /\ loaded[s].left = <<>>
  /\ olds' = loaded[s]
  /\ loaded' = [loaded EXCEPT ![s] = NULL]
  /\ UNCHANGED <<idle, toServer, line>>

-----------------------------------------------------------------------------
(* What a thread does with a line: each action looks at it once. *)

\* The tests take a text of more lines than one for its first, with an argument
\* that goes on after it.
AsLine(t)   == IF Len(t) = 1 THEN t[1]
               ELSE IF t[1].verb \in {"DATA", "QUIT", "."} THEN Plain("text")
               ELSE Line(t[1].verb, Garbled)
Seen(s)     == {AsLine(t) : t \in line[s].texts}
InData(s)   == is_data_mode[s] /\ thread[s] = "handle"
Verb(s, l, vs) ==
  ~is_data_mode[s] /\ thread[s] = "handle" /\ l \in Seen(s) /\ l.verb \in vs

LooksOn(s, at) ==
  Thread(s, "handle", at) /\ UNCHANGED <<idle, toServer, strtok, line>>
Handled(s, at) ==
  /\ Thread(s, at, "load") /\ line' = [line EXCEPT ![s] = NoLine]
  /\ UNCHANGED <<clientVars, toServer, strtok>>

\* (mutant: no reply)
ReplyNot(s, n) == UNCHANGED <<replies, reset, down>>
\* n sends.  The first one to a client that is gone brings a reset back, and
\* a send after that raises SIGPIPE.
Reply(s, n) ==
  /\ replies' = [replies EXCEPT ![s] = IF client[s] = "gone" THEN @
                                           ELSE Min({@ + n, 2})]
  /\ reset' = [reset EXCEPT ![s] = client[s] = "gone"]
  /\ \/ UNCHANGED down
     \/ client[s] = "gone" /\ (reset[s] \/ n > 1) /\ down' = TRUE

WithAddress == {"MAIL FROM", "RCPT TO", "LIST"}

\* HELO, QUIT and GET_MAIL, and whatever is answered with an error.
Answer(s) ==
  /\ \E l, m \in Seen(s) :
       \/ Verb(s, l, Verbs \ (WithAddress \union {"DATA"}))
       \/ Verb(s, l, WithAddress) /\ m.arg \notin Address
  /\ Handled(s, "handle")
  /\ Reply(s, 1)
  /\ UNCHANGED <<session, files>>

\* The argument is looked at after the verb, and copied after that
validate_email(s) ==
  \E l, m \in Seen(s) :
    Verb(s, l, WithAddress) /\ m.arg # NoAddress /\ LooksOn(s, l.verb)
\* (a garbled one may be empty).
Copied(s) ==
  LET args == {l.arg : l \in Seen(s)}
  IN  IF Garbled \in args THEN args \union {NoAddress} ELSE args

handle_mail_from(s) ==
  /\ Handled(s, "MAIL FROM")
  /\ \E a \in Copied(s) : sender' = [sender EXCEPT ![s] = a]
  /\ Reply(s, 1)
  /\ UNCHANGED <<is_data_mode, recipient, data_buffer, files>>

handle_rcpt_to(s) ==
  /\ Handled(s, "RCPT TO")
  /\ \E a \in Copied(s) : recipient' = [recipient EXCEPT ![s] = a]
  /\ Reply(s, 1)
  /\ UNCHANGED <<is_data_mode, sender, data_buffer, files>>

\* (mutant: one of the two is enough)
OnePartySet(s) == sender[s] # NoAddress \/ recipient[s] # NoAddress
PartiesSet(s) == sender[s] # NoAddress /\ recipient[s] # NoAddress

handle_data(s) ==
  /\ \E l \in Seen(s) : Verb(s, l, {"DATA"})
  /\ Handled(s, "handle")
  /\ IF PartiesSet(s)
       THEN /\ is_data_mode' = [is_data_mode EXCEPT ![s] = TRUE]
            /\ data_buffer' = [data_buffer EXCEPT ![s] = <<>>]
       ELSE UNCHANGED <<is_data_mode, data_buffer>>
  /\ Reply(s, 1)
  /\ UNCHANGED <<party, files>>

\* (mutant: the limit is not looked at)
RoomAlways(s, t) == TRUE
Room(s, t) == Len(data_buffer[s]) + Len(t) <= DataLines

\* strcmp and strlen find a line for which there is room,
Measure(s) ==
  /\ InData(s) /\ \E l \in Seen(s) : l # Dot
  /\ \E t \in line[s].texts : Room(s, t)
  /\ LooksOn(s, "append")

\* and strcat appends what it finds.  Past the end of data_buffer is memory that
\* is another's: the server may fail.
Content(s) ==
  /\ Handled(s, "append")
  /\ \E t \in line[s].texts :
       /\ data_buffer' = [data_buffer EXCEPT ![s] = @ \o t]
       /\ down' \in {FALSE, ~Room(s, t)}
  /\ UNCHANGED <<replies, reset, is_data_mode, party, files>>

\* The rest of the body is taken for commands.
TooLarge(s) ==
  /\ InData(s) /\ \E l \in Seen(s) : l # Dot
  /\ \E t \in line[s].texts : ~Room(s, t)
  /\ Handled(s, "handle")
  /\ is_data_mode' = [is_data_mode EXCEPT ![s] = FALSE]
  /\ Reply(s, 1)
  /\ UNCHANGED <<party, data_buffer, files>>

\* save_email: one append to the file.  Files of garbled names are left out.
Mail(from, body) ==
  <<Line("From: ", from), Plain("Date: ")>> \o body \o <<Separator>>
save_email(s) ==
  LET a == recipient[s]
  IN  IF a = Garbled THEN UNCHANGED files
      ELSE /\ mailbox' = [mailbox EXCEPT ![a] = @ \o Mail(sender[s], data_buffer[s])]
           /\ stored' = [stored EXCEPT ![a] =
                          Append(@, [from |-> sender[s], body |-> data_buffer[s]])]

EndOfData(s) ==
  /\ InData(s) /\ Dot \in Seen(s) /\ Handled(s, "handle")
  /\ is_data_mode' = [is_data_mode EXCEPT ![s] = FALSE]
  /\ save_email(s)
  /\ Reply(s, 1)
  /\ UNCHANGED <<party, data_buffer>>

\* One pass over a mailbox for LIST: the senders of the mails, in order.
IsFrom(l) == l.verb = "From: "
\* (mutant: reading_header is not set)
CountAnyFrom(r, l) ==
  IF IsFrom(l) THEN [r EXCEPT !.senders = Append(@, l.arg)] ELSE r
ListLine(r, l) ==
  IF IsFrom(l) /\ ~r.header
  THEN [senders |-> Append(r.senders, l.arg), header |-> TRUE]
  ELSE [r EXCEPT !.header = @ /\ l # Separator]
Listed(file) ==
  FoldLeft(LAMBDA r, l : ListLine(r, l),
           [senders |-> <<>>, header |-> FALSE], file).senders

handle_list(s) ==
  /\ Handled(s, "LIST")
  /\ \E a \in Copied(s) :
       Reply(s, IF a \in Address THEN 1 + Len(Listed(mailbox[a])) ELSE 1)
  /\ UNCHANGED <<session, files>>

\* One pass for GET_MAIL: the lines of mail number id.  Every "From: " outside
\* that mail counts as the start of one.
\* (mutant: the separator is taken for text)
GetThrough(r, l, id) ==
  IF r.reading THEN [r EXCEPT !.text = Append(@, l)]
  ELSE IF IsFrom(l)
  THEN [n |-> r.n + 1, reading |-> r.n + 1 = id, done |-> FALSE,
        text |-> IF r.n + 1 = id THEN <<l>> ELSE <<>>]
  ELSE r
GetLine(r, l, id) ==
  IF r.done THEN r
  ELSE IF r.reading
  THEN IF l = Separator THEN [r EXCEPT !.done = TRUE]
                        ELSE [r EXCEPT !.text = Append(@, l)]
  ELSE IF IsFrom(l)
  THEN [n |-> r.n + 1, reading |-> r.n + 1 = id, done |-> FALSE,
        text |-> IF r.n + 1 = id THEN <<l>> ELSE <<>>]
  ELSE r
handle_get_mail(file, id) ==
  FoldLeft(LAMBDA r, l : GetLine(r, l, id),
           [n |-> 0, reading |-> FALSE, done |-> FALSE, text |-> <<>>], file).text

-----------------------------------------------------------------------------
process_command(s) ==
  Answer(s) \/ validate_email(s) \/ handle_mail_from(s) \/ handle_rcpt_to(s)
  \/ handle_data(s) \/ handle_list(s)
handle_data_content(s) == Measure(s) \/ Content(s) \/ TooLarge(s) \/ EndOfData(s)
handle_client(s) ==
  FirstLine(s) \/ Disconnect(s) \/ Load(s) \/ NextLine(s) \/ LastLine(s)
  \/ process_command(s) \/ handle_data_content(s)

User(s) ==
  \/ Connect(s) \/ EndOfInput(s) \/ Kill(s)
  \/ \E n \in DOMAIN Script[s] : Command(s, n)
  \/ \E ls \in Bodies : Body(s, ls)

Next == \E s \in Session :
          handle_client(s) \/ User(s) \/ ReadReply(s) \/ ServerLost(s)

Spec == Init /\ [][Next]_vars

-----------------------------------------------------------------------------
(* Properties *)

Pointer == [of : SUBSET Session, left : Seq(Lines)]
Texted  == [of : SUBSET Session, texts : SUBSET (Seq(Lines) \ {<<>>})]
Alone(s) == \A r \in Session : r # s => client[r] = "out"

\* Types, and a data_buffer that holds no more than it has room for (the test on
\* current_len before each strcat) as long as no other client has come: the
\* line that was measured is then the line that is appended.
TypeOK ==
  /\ client \in [Session -> {"out", "prompt", "reply", "quit", "data",
                          "body", "sent", "eof", "gone"}]
  /\ toServer \in [Session -> Seq(Lines)]
  /\ replies \in [Session -> 0..2] /\ reset \in [Session -> BOOLEAN]
  /\ thread \in [Session -> {"none", "recv", "handle", "append", "load", "store",
                          "gone"} \union WithAddress]
  /\ olds \in Pointer /\ loaded \in [Session -> Pointer]
  /\ line \in [Session -> Texted]
  /\ is_data_mode \in [Session -> BOOLEAN]
  /\ sender \in [Session -> Args] /\ recipient \in [Session -> Args]
  /\ data_buffer \in [Session -> Seq(Lines)]
  /\ \A s \in Session : Alone(s) => Len(data_buffer[s]) <= DataLines
  /\ mailbox \in [Address -> Seq(Lines)]
  /\ stored \in [Address -> Seq([from : Args, body : Seq(Lines)])]
  /\ down \in BOOLEAN

\* A session in data mode knows whom the mail is from and to, whatever lines of
\* whatever client brought it there: save_email never opens "mailbox/.txt".
PartiesKnown ==
  \A s \in Session : is_data_mode[s] =>
    sender[s] # NoAddress /\ recipient[s] # NoAddress

\* handle_list lists the mails that were stored, each once and in order,
\* whatever the mails say, unless one has a line "---", or is from what is no
\* address and may go over several lines.
NoSeparator(a) ==
  \A n \in DOMAIN stored[a] :
    stored[a][n].from \in Address /\ ~Contains(stored[a][n].body, Separator)
ListFaithful ==
  \A a \in Address : NoSeparator(a) =>
    Listed(mailbox[a]) = [n \in DOMAIN stored[a] |-> stored[a][n].from]

\* handle_get_mail finds by its number every mail that was stored, whole and
\* alone, and none else, with the same exception, and unless a mail has a line
\* "From: ".
NoHeader(a) ==
  \A n \in DOMAIN stored[a] :
    \A l \in ToSet(stored[a][n].body) : ~IsFrom(l)
GetFaithful ==
  \A a \in Address : NoSeparator(a) /\ NoHeader(a) =>
    \A id \in 1 .. Len(stored[a])+1 :
      handle_get_mail(mailbox[a], id) =
        IF id > Len(stored[a]) THEN <<>>
        ELSE Front(Mail(stored[a][id].from, stored[a][id].body))

\* A client alone on the server and its thread never wait for each other: after
\* every command and every body, stored, too large or taken for commands, an
\* answer is there or on its way.
Waiting(s) == client[s] \in {"reply", "quit", "data", "sent"}
Answered ==
  \A s \in Session :
    Waiting(s) /\ Alone(s) /\ thread[s] = "recv" /\ toServer[s] = <<>>
      => replies[s] > 0
=============================================================================
