------------------------------ MODULE Decimal64 -----------------------------
(* src/src/dfp754_d64.c: numbers with 16 digits, of which 15 are read.     *)
INSTANCE Decimal WITH
    ND <- 3, NT <- 4, MD <- 2, W <- 13, Bias <- 398, EC <- 8, Wide <- TRUE

=============================================================================
