------------------------------ MODULE Optional ------------------------------
(* The std::nullopt and the null pointers of the code.                     *)
CONSTANT None
=============================================================================
