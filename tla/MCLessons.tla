------------------------------ MODULE MCLessons ------------------------------
(***************************************************************************)
(* Small instances.  Processes and threads are numbered, as each lesson    *)
(* has its own; number 5 is the UDP server.  One dictionary has a word     *)
(* twice, the other has lines LoadDict leaves out.                         *)
(***************************************************************************)
EXTENDS Lessons

MCTasks == {<<7, 2, "/">>, <<7, 0, "%">>, <<7, 0, "+">>}

MCFiles == {
    << <<"sad", "translation1">>, <<>>, <<"sad", "translation2">> >>,
    << <<"sad", "">>, <<"", "translation1">>, <<"sad", "translation2">> >> }
=============================================================================
