------------------------------ MODULE MCMemory ------------------------------
(* Page 1 is a page of the program file, page 2 is not.                    *)
EXTENDS Memory

Tables1 == [a \in Page |-> 1]
Tables2 == [a \in Page |-> IF a = 1 THEN 1 ELSE 2]
MCFile == {1}

(* Copy on write without a program file, with system calls that store into *)
(* user memory; processes that run one program and write all their pages;  *)
(* processes that fork and run the program, and do not write.              *)
Copying == [alive |-> {1}, exe |-> FALSE, written |-> {1}, calls |-> {"fork", "exit", "store"}]
Sharing == [alive |-> {1, 2}, exe |-> TRUE, written |-> {1, 2}, calls |-> {"exec", "exit"}]
Running == [alive |-> {1}, exe |-> TRUE, written |-> {}, calls |-> {"fork", "exec"}]
MCWorkloads == {Copying, Sharing, Running}
=============================================================================
