-------------------------- MODULE MCAdminUserList --------------------------
(* Three accounts, pages of one and two (three is too many), an OFFSET of   *)
(* three bits, a page below the first and one beyond the last OFFSET.      *)
EXTENDS AdminUserList

MCPages == {-1, 0, 2, 6}
MCSizes == {0, 1, 3}
=============================================================================
