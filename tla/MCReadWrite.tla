----------------------------- MODULE MCReadWrite -----------------------------
(* Three processes.  On the pipe two read and one writes, and two bytes fit;   *)
(* the queues of the terminal hold three characters, and it is used in turn    *)
(* by two readers, by a reader of lines, with changes of mode, by two writers, *)
(* and with an echo.                                                           *)
EXTENDS ReadWrite, TLC
CONSTANTS p1, p2, p3
MCProcess == {p1, p2, p3}
MCHolders == (p1 :> {"read"} @@ p2 :> {"read"} @@ p3 :> {"write"})
MCByte == {0, 1}
MCKind == {"pipe", "tty"}

Who(a, b) == (p1 :> a @@ p2 :> b @@ p3 :> {})

Raw == [lflag |-> {}, opost |-> FALSE, vmin |-> 2, keys |-> {"a", "nl"},
        counts |-> {2}, texts |-> {}, calls |-> Who({"read"}, {"read"})]
Lines == [lflag |-> {"ICANON", "ISIG"}, opost |-> FALSE, vmin |-> 1,
          keys |-> {"a", "eof", "erase", "intr"},
          counts |-> {2}, texts |-> {}, calls |-> Who({"read"}, {})]
Modes == [lflag |-> {"ICANON"}, opost |-> FALSE, vmin |-> 1,
          keys |-> {"a", "nl", "kill"},
          counts |-> {2}, texts |-> {}, calls |-> Who({"read"}, {"mode", "flush"})]
Output == [lflag |-> {}, opost |-> TRUE, vmin |-> 1, keys |-> {}, counts |-> {},
           texts |-> {<<"nl", "nl">>, <<"a", "b">>},
           calls |-> Who({"write"}, {"write"})]
Flushed == [lflag |-> {"ISIG"}, opost |-> FALSE, vmin |-> 1, keys |-> {"intr"},
            counts |-> {}, texts |-> {<<"a">>, <<"a", "a", "a", "a", "a">>},
            calls |-> Who({"write"}, {"flush"})]
Echoed == [lflag |-> {"ICANON", "ECHO"}, opost |-> FALSE, vmin |-> 1, keys |-> {"a", "erase"},
           counts |-> {2}, texts |-> {<<"a", "a">>}, calls |-> Who({"read"}, {"write"})]
MCUses == [raw |-> Raw, lines |-> Lines, modes |-> Modes, output |-> Output,
           flushed |-> Flushed, echoed |-> Echoed]
==============================================================================
