------------------------------ MODULE MCApplication ------------------------------
\* Instance of Application: two requests over a pool of one connection, two processes, and
\* daylight saving time that ends after second 3.
EXTENDS Application

MCSummer == -2 .. 3
==================================================================================
