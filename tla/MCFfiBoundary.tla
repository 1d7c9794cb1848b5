----------------------------- MODULE MCFfiBoundary -----------------------------
(* A native stack that is deep enough for a raise to jump over a frame of  *)
(* Rust, and for C to be called again from the frame that it lands in.     *)
EXTENDS FfiBoundary

=============================================================================
